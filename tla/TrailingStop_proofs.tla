------------------------ MODULE TrailingStop_proofs ------------------------
(* Theorems about TrailingStop, for any setups, thresholds and bounds:      *)
(* types; and, for all setups of Kept, the references are exact, stage 2 is *)
(* armed by the gain alone and the stop never fires for what was paid in or *)
(* out.                                                                     *)
EXTENDS TrailingStop, TLAPS

-----------------------------------------------------------------------------
(* Types.                                                                   *)

LEMMA Greatest == \A a, b \in Int : Max({a, b}) = IF a >= b THEN a ELSE b
BY DEF Max

LEMMA Least == \A a, b \in Int : Min({a, b}) = IF a <= b THEN a ELSE b
BY DEF Min

LEMMA Ratios ==
  ASSUME NEW lp \in Opt(Int), NEW ref \in Opt(Int)
  PROVE  /\ MarkRatio(lp, ref) \in Opt((-Band)..0)
         /\ EntryRatio(lp, ref) \in Opt((-Band)..Band)
<1>1. CASE lp = None \/ ref = None
  BY <1>1 DEF MarkRatio, EntryRatio, Opt
<1>2. CASE lp # None /\ ref # None
  <2>1. lp \in Int /\ ref \in Int /\ lp - ref \in Int
    BY <1>2 DEF Opt
  <2>2. Min({0, lp - ref}) = IF 0 <= lp - ref THEN 0 ELSE lp - ref
    BY <2>1, Least
  <2> QED BY <2>1, <2>2, StopAssumption DEF MarkRatio, EntryRatio, Opt
<1> QED BY <1>1, <1>2

LEMMA ScaledType == ASSUME NEW r \in Rows, NEW f \in Int PROVE Scaled(r, f) \in Rows
<1>1. \A x \in Opt(Int) : (IF x = None THEN None ELSE x + f) \in Opt(Int)
  BY DEF Opt
<1> QED BY <1>1 DEF Scaled, Rows

LEMMA RebasedType == ASSUME NEW r \in Rows, NEW lp \in Opt(Int) PROVE Rebased(r, lp) \in Rows
<1>1. /\ MarkRatio(lp, r.hwm) \in Opt((-Band)..0)
      /\ EntryRatio(lp, r.entry) \in Opt((-Band)..Band)
  BY Ratios DEF Rows
<1>2. None \in Opt(Int)
  BY DEF Opt
<1> QED BY <1>1, <1>2 DEF Rebased, Rows

LEMMA CarriedType ==
  ASSUME NEW r \in Rows, NEW lp \in Opt(Int), NEW hwm \in Opt(Int), NEW entry \in Opt(Int),
         NEW armed \in BOOLEAN
  PROVE  Carried(r, lp, hwm, entry, armed) \in Rows
BY Ratios DEF Carried, Rows

LEMMA MarkedType == ASSUME NEW r \in Rows, NEW v \in Int PROVE Marked(r, v) \in Int
<1>1. r.hwm \in Opt(Int) /\ r.seen \in Opt(Int) /\ r.ratio \in Opt((-Band)..0)
  BY DEF Rows
<1>2. r.hwm # None => r.hwm \in Int /\ Max({r.hwm, v}) \in Int
  BY <1>1, Greatest DEF Opt
<1>3. r.seen # None => r.seen \in Int /\ Max({r.seen, v}) \in Int
  BY <1>1, Greatest DEF Opt
<1>4. r.ratio # None => v - r.ratio \in Int
  BY <1>1, StopAssumption DEF Opt
<1> QED BY <1>2, <1>3, <1>4 DEF Marked

LEMMA UpdatedType ==
  ASSUME NEW r \in Rows, NEW v \in Int
  PROVE  Updated(r, v) \in Rows /\ Updated(r, v).hwm \in Int /\ Updated(r, v).entry \in Int
<1>1. Marked(r, v) \in Int
  BY MarkedType
<1>2. r.entry \in Opt(Int) /\ r.eratio \in Opt((-Band)..Band)
  BY DEF Rows
<1> DEFINE e == IF r.entry # None THEN r.entry ELSE IF r.eratio # None THEN v - r.eratio ELSE v
<1>3. e \in Int
  BY <1>2, StopAssumption DEF Opt
<1>4. Updated(r, v).hwm = Marked(r, v) /\ Updated(r, v).entry = e
  BY DEF Updated, Rows
<1>5. Updated(r, v) \in Rows
  BY <1>1, <1>3 DEF Updated, Rows, Opt
<1> QED BY <1>1, <1>3, <1>4, <1>5

LEMMA ArmedType ==
  ASSUME NEW r \in Rows, r.hwm \in Int, r.entry \in Int PROVE Armed(r) \in Rows
<1>1. (r.armed \/ r.hwm >= r.entry + First \/ May("shown")) \in BOOLEAN
  OBVIOUS
<1> QED BY <1>1 DEF Armed, Rows

Sources == {"pool", "oracle"}
Bots == [at : Places, state : Opt(States), late : BOOLEAN,
         hwm : Opt(Int), entry : Opt(Int), armed : BOOLEAN]
FlowStates == [at : {"none", "begun", "landed", "rebased"}, kind : FlowKinds,
               liq : Int, lp : Opt(Int), price : Int]
Truths == [paid : Int, at : Int, gap : Opt(Int), gain : Opt(Int), earned : BOOLEAN,
           asked : Int]

MarketTypes == chain \in Snapshots /\ moves \in 0..setup.maxMoves
RecordTypes ==
  row \in Opt(Rows) /\ known \in Sources /\ snap \in Opt(Snapshots) /\ truth \in Truths
RestTypes ==
  /\ setup \in Setups /\ stopped \in {"no", "drawdown", "minimum"}
  /\ minimum \in Opt(Int) /\ click \in Opt(Int)
  /\ bot \in Bots /\ flow \in FlowStates /\ flows \in 0..setup.maxFlows

(* Where the code uses a row, a state or a snapshot, there is one.          *)
Present ==
  /\ row = None => bot.at = "closed"
  /\ bot.at = "snapshot" => bot.state # None
  /\ flow.at # "none" => snap # None

TInv == TypeOK /\ Present

LEMMA Parts == TInv <=> MarketTypes /\ RecordTypes /\ RestTypes /\ Present
BY DEF TInv, TypeOK, MarketTypes, RecordTypes, RestTypes, Snapshots, Bots, FlowStates, Truths,
       Sources, Opt

LEMMA SetupTypes ==
  ASSUME setup \in Setups
  PROVE  /\ setup.flows \subseteq FlowKinds /\ setup.deviation \in Int
         /\ setup.minimum \in Int \cup {None}
         /\ setup.maxMoves \in Nat /\ setup.maxFlows \in Nat
         /\ None \notin Int
BY StopAssumption

LEMMA Deviations == ASSUME setup \in Setups PROVE \A src : Dev(src) \in Int
BY SetupTypes DEF Dev

LEMMA SnapTypes ==
  ASSUME setup \in Setups, snap \in Opt(Snapshots)
  PROVE  /\ SnapLp \in Opt(Int) /\ StopValue \in Opt(Int) /\ Fees \in Nat
         /\ snap # None => /\ SnapLp = snap.liq + snap.price + Dev(snap.src)
                           /\ StopValue = snap.liq + snap.price + Dev(snap.src) + snap.fee
                           /\ SnapLp \in Int /\ StopValue \in Int
<1>1. CASE snap = None
  BY <1>1 DEF SnapLp, StopValue, Fees, Opt
<1>2. CASE snap # None
  <2>1. snap.liq \in Int /\ snap.price \in Int /\ snap.fee \in Nat /\ Dev(snap.src) \in Int
    BY <1>2, Deviations DEF Opt, Snapshots
  <2> QED BY <1>2, <2>1 DEF SnapLp, StopValue, Fees, Opt
<1> QED BY <1>1, <1>2

LEMMA ReconciledType ==
  ASSUME setup \in Setups, NEW r \in Rows
  PROVE  Reconciled(r) \in Rows
<1>1. Dev(chain.src) - Dev(known) \in Int
  BY Deviations
<1>2. r # None
  BY StopAssumption DEF Rows
<1> QED BY <1>1, <1>2, ScaledType DEF Reconciled

LEMMA TruthTypes ==
  ASSUME NEW t \in Truths
  PROVE  /\ \A r \in Rows, value \in Int : Seen(t, r, value) \in Truths
         /\ Transferred(t) \in Truths
<1>1. t.at \in Int /\ t.paid \in Int /\ t.gap \in Opt(Int) /\ t.gain \in Opt(Int)
  BY DEF Truths
<1>2. ASSUME NEW r \in Rows, NEW value \in Int PROVE Seen(t, r, value) \in Truths
  <2> DEFINE d == value - t.at
             gap == IF t.gap = None THEN 0
                    ELSE IF r.hwm # None \/ r.seen # None THEN Max({0, t.gap - d}) ELSE t.gap
             gain == IF t.gain = None THEN 0 ELSE IF r.entry # None THEN t.gain + d ELSE t.gain
             earned == t.earned \/ gap + gain >= First
  <2>1. d \in Int
    BY <1>1
  <2>2. gap \in Int
    <3>1. CASE t.gap = None
      BY <3>1
    <3>2. CASE t.gap # None
      <4>1. t.gap \in Int /\ t.gap - d \in Int
        BY <1>1, <2>1, <3>2 DEF Opt
      <4> HIDE DEF d
      <4>2. Max({0, t.gap - d}) \in Int
        BY <4>1, Greatest
      <4> QED BY <4>1, <4>2
    <3> QED BY <3>1, <3>2
  <2>3. gain \in Int
    BY <1>1, <2>1 DEF Opt
  <2>4. earned \in BOOLEAN
    OBVIOUS
  <2>5. Seen(t, r, value) = [t EXCEPT !.at = value, !.gap = gap, !.gain = gain, !.earned = earned]
    BY DEF Seen, Truths
  <2> HIDE DEF gap, gain, earned
  <2> QED BY <2>2, <2>3, <2>4, <2>5 DEF Truths, Opt
<1>3. Transferred(t) \in Truths
  BY <1>1 DEF Transferred, Truths, Opt
<1> QED BY <1>2, <1>3

LEMMA StateTypes ==
  ASSUME chain \in Snapshots, setup \in Setups, NEW s \in States
  PROVE  /\ s.liq \in Int /\ s.price \in Int /\ s.fee \in Nat
         /\ Value(s) = s.liq + s.price + Dev(chain.src) + s.fee /\ Value(s) \in Int
         /\ [liq |-> s.liq, price |-> s.price, fee |-> s.fee, src |-> chain.src] \in Snapshots
<1>1. s.liq \in Int /\ s.price \in Int /\ s.fee \in Nat /\ chain.src \in Sources
  BY DEF States, Snapshots, Sources
<1> QED BY <1>1, Deviations DEF Value, Snapshots, Sources

LEMMA ReadType == ASSUME chain \in Snapshots PROVE Read \in States
BY DEF Snapshots, States, Read

LEMMA MeasuredRowType ==
  ASSUME chain \in Snapshots, setup \in Setups, NEW r \in Rows, NEW s \in States
  PROVE  MeasuredRow(r, s) \in Rows
<1>1. [Reconciled(r) EXCEPT !.liq = s.liq] \in Rows
  BY ReconciledType, StateTypes DEF Rows
<1> QED BY <1>1, StateTypes, UpdatedType, ArmedType DEF MeasuredRow

LEMMA MeasureTypes ==
  ASSUME chain \in Snapshots, setup \in Setups, chain' \in Snapshots,
         NEW r \in Rows, NEW s \in States, NEW t \in Truths, Measure(r, s, t)
  PROVE  RecordTypes' /\ row' \in Rows /\ snap' \in Snapshots
<1>1. snap' \in Snapshots /\ known' \in Sources
  BY StateTypes DEF Measure, Written, Snapshots, Sources
<1>2. row' \in Rows
  BY MeasuredRowType DEF Measure
<1>3. Market(s, t) \in Int
  BY StateTypes DEF Market, Snapshots, Truths
<1>4. truth' \in Truths
  BY <1>3, TruthTypes DEF Measure
<1> QED BY <1>1, <1>2, <1>4 DEF RecordTypes, Opt

LEMMA EstimateTypes ==
  ASSUME chain \in Snapshots, setup \in Setups, snap \in Snapshots, known \in Sources,
         NEW r \in Rows, NEW delta \in Int, NEW price \in Int, Estimate(r, delta, price)
  PROVE  row' \in Rows /\ snap' \in Snapshots /\ known' \in Sources
<1>1. [liq |-> snap.liq + delta, price |-> price, fee |-> snap.fee] \in States
  BY DEF Snapshots, States
<1>2. Reconciled(r) \in Rows
  BY ReconciledType
<1>3. chain.src \in Sources
  BY DEF Snapshots, Sources
<1> QED BY <1>1, <1>2, <1>3, StateTypes DEF Estimate, Written

LEMMA SettleTypes ==
  ASSUME chain \in Snapshots, setup \in Setups, chain' \in Snapshots, snap \in Snapshots,
         known \in Sources, NEW r \in Rows, NEW t \in Truths
  PROVE  /\ \A liq, price \in Int : SettleMeasured(r, liq, price, t) => RecordTypes' /\ row' \in Rows /\ snap' \in Snapshots
         /\ \A lp \in Opt(Int), price \in Int : SettleLegacy(r, lp, price, t) => RecordTypes' /\ row' \in Rows /\ snap' \in Snapshots
<1>1. ASSUME NEW liq \in Int, NEW price \in Int, SettleMeasured(r, liq, price, t)
      PROVE  RecordTypes' /\ row' \in Rows /\ snap' \in Snapshots
  <2>1. Scaled(r, 1) \in Rows
    BY ScaledType
  <2>2. [liq |-> liq + 1, price |-> price, fee |-> Fees] \in States
    BY SnapTypes DEF States, Opt
  <2> QED BY <1>1, <2>1, <2>2, MeasureTypes DEF SettleMeasured
<1>2. ASSUME NEW lp \in Opt(Int), NEW price \in Int, SettleLegacy(r, lp, price, t)
      PROVE  RecordTypes' /\ row' \in Rows /\ snap' \in Snapshots
  <2>1. row' \in Rows /\ snap' \in Snapshots /\ known' \in Sources
    BY <1>2, RebasedType, EstimateTypes DEF SettleLegacy
  <2> QED BY <1>2, <2>1, TruthTypes DEF SettleLegacy, RecordTypes, Opt
<1> QED BY <1>1, <1>2

Quiet ==
  \/ UNCHANGED vars
  \/ StartTick \/ CheckBefore \/ CheckAfter \/ ReadState \/ NoSnapshot \/ SnapshotDue
  \/ Dies \/ Begin \/ FlowDies

LEMMA Steps ==
  ASSUME [Next]_vars
  PROVE  \/ Quiet
         \/ StartRebalance \/ Reopen \/ CarryOver \/ Baseline \/ TopUp \/ Claim \/ TakeSnapshot
         \/ FastFilter \/ Confirm \/ Lands \/ Settle \/ Rebase \/ MeasureAgain \/ Move \/ Click
BY DEF Next, Tick, OtherProcess, Quiet

LEMMA QuietStays ==
  ASSUME Quiet PROVE UNCHANGED <<setup, chain, row, known, snap, minimum, click, moves, truth>>
BY DEF Quiet, vars, StartTick, CheckBefore, CheckAfter, Check, ReadState, NoSnapshot,
       SnapshotDue, Dies, Begin, FlowDies, still

LEMMA MarketTyped == ASSUME TInv, [Next]_vars PROVE MarketTypes'
<1>0. /\ chain \in Snapshots /\ moves \in 0..setup.maxMoves /\ setup.maxMoves \in Nat
      /\ chain.liq \in Int /\ chain.price \in Int /\ chain.fee \in Nat
      /\ flow \in FlowStates /\ bot \in Bots
  BY Parts, SetupTypes DEF MarketTypes, RestTypes, Snapshots
<1> USE DEF MarketTypes, still, At
<1>1. CASE Quiet
  BY <1>0, <1>1, QuietStays
<1>2. CASE \/ CarryOver \/ Baseline \/ TakeSnapshot \/ FastFilter \/ Confirm \/ Settle
           \/ Rebase \/ MeasureAgain
  BY <1>0, <1>2 DEF CarryOver, Baseline, TakeSnapshot, FastFilter, Confirm, Settle, Rebase,
                    MeasureAgain
<1>3. CASE StartRebalance
  BY <1>0, <1>3 DEF StartRebalance, Snapshots
<1>4. CASE Reopen
  BY <1>0, <1>4 DEF Reopen, Snapshots
<1>5. CASE TopUp
  BY <1>0, <1>5 DEF TopUp, Snapshots
<1>6. CASE Claim
  <2>1. chain' = [chain EXCEPT !.liq = chain.liq + chain.fee, !.fee = 0] /\ UNCHANGED <<setup, moves>>
    BY <1>6 DEF Claim
  <2>2. chain.liq + chain.fee \in Int
    BY <1>0
  <2>3. chain' \in Snapshots
    BY <1>0, <2>1, <2>2 DEF Snapshots
  <2> QED BY <1>0, <2>1, <2>3
<1>7. CASE Lands
  BY <1>0, <1>7 DEF Lands, Sign, Snapshots
<1>8. CASE Move
  BY <1>0, <1>8 DEF Move, Snapshots
<1>9. CASE Click
  BY <1>0, <1>9 DEF Click
<1> QED BY <1>1, <1>2, <1>3, <1>4, <1>5, <1>6, <1>7, <1>8, <1>9, Steps

LEMMA RecordsTyped ==
  ASSUME TInv, [Next]_vars
  PROVE  /\ RecordTypes'
         /\ row' \in Rows \/ row' = row \/ StartRebalance
         /\ snap' \in Snapshots \/ snap' = snap
<1>0. /\ chain \in Snapshots /\ setup \in Setups /\ chain' \in Snapshots
      /\ row \in Opt(Rows) /\ known \in Sources /\ snap \in Opt(Snapshots) /\ truth \in Truths
      /\ flow \in FlowStates /\ bot \in Bots /\ click \in Opt(Int)
  BY Parts, MarketTyped DEF MarketTypes, RecordTypes, RestTypes
<1>1. /\ row # None => row \in Rows
      /\ snap # None => snap \in Snapshots
      /\ bot.at # "closed" => row # None
      /\ bot.state # None => bot.state \in States
      /\ bot.hwm \in Opt(Int) /\ bot.entry \in Opt(Int) /\ bot.armed \in BOOLEAN
      /\ flow.liq \in Int /\ flow.price \in Int /\ flow.lp \in Opt(Int)
      /\ flow.at # "none" => snap # None
  BY <1>0, Parts DEF Present, Bots, FlowStates, Opt
<1>2. Read \in States
  BY <1>0, ReadType
<1>3. \A r \in Rows : NoNet(r) \in Rows
  BY DEF NoNet, Rows, Opt
<1> USE DEF still, At
<1>4. CASE Quiet
  BY <1>0, <1>4, QuietStays DEF RecordTypes
<1>5. CASE StartRebalance \/ Claim \/ Move
  BY <1>0, <1>5 DEF StartRebalance, Claim, Move, RecordTypes, Opt
<1>6. CASE Reopen
  <2>1. PICK d \in {0, -1} : row' = FreshRow(chain.liq + d) /\ truth' = Paid(truth, d)
    BY <1>6 DEF Reopen
  <2>2. row' \in Rows
    BY <1>0, <2>1 DEF FreshRow, Rows, Opt, Snapshots
  <2>3. truth' \in Truths
    BY <1>0, <2>1 DEF Paid, Truths
  <2> QED BY <1>0, <1>6, <2>2, <2>3 DEF Reopen, RecordTypes, Opt
<1>7. CASE CarryOver
  <2>1. row \in Rows
    BY <1>1, <1>7 DEF CarryOver
  <2>2. row' \in Rows
    BY <1>0, <1>1, <1>7, <2>1, SnapTypes, CarriedType DEF CarryOver
  <2>3. truth' \in Truths
    BY <1>0, <1>7, TruthTypes DEF CarryOver
  <2> QED BY <1>0, <1>7, <2>2, <2>3 DEF CarryOver, RecordTypes, Opt
<1>8. CASE Baseline
  <2>1. row \in Rows
    BY <1>1, <1>8 DEF Baseline
  <2>2. CASE Measure(row, Read, truth)
    BY <1>0, <1>2, <2>1, <2>2, MeasureTypes
  <2> QED BY <1>0, <1>8, <2>2 DEF Baseline, RecordTypes
<1>9. CASE TopUp
  <2>1. row \in Rows /\ snap \in Snapshots /\ bot.state \in States
    BY <1>1, <1>9 DEF TopUp
  <2>2. Paid(truth, 1) \in Truths
    BY <1>0 DEF Paid, Truths
  <2>3. SnapLp \in Opt(Int) /\ chain.price \in Int
    BY <1>0, SnapTypes DEF Snapshots
  <2>4. bot.state.liq \in Int /\ bot.state.price \in Int
    BY <2>1 DEF States
  <2> QED BY <1>0, <1>9, <2>1, <2>2, <2>3, <2>4, SettleTypes DEF TopUp
<1>10. CASE TakeSnapshot
  <2>1. row \in Rows /\ bot.state \in States
    BY <1>0, <1>1, <1>10, Parts DEF TakeSnapshot, Present
  <2>2. snap' \in Snapshots /\ known' \in Sources
    BY <1>0, <1>10, <2>1, StateTypes DEF TakeSnapshot, Written, Snapshots, Sources
  <2>3. Market(bot.state, truth) \in Int /\ Value(bot.state) \in Int
    BY <1>0, <2>1, StateTypes DEF Market, Snapshots, Truths
  <2>4. CASE Applied
    <3> DEFINE v == Value(bot.state)
               value == Market(bot.state, truth)
               target == Min({click, v})
    <3>1. click \in Int /\ target \in Int
      BY <1>0, <2>3, <2>4, Least DEF Applied, Opt
    <3>2. [Reconciled(row) EXCEPT !.liq = bot.state.liq] \in Rows
      BY <1>0, <2>1, ReconciledType DEF Rows, States
    <3>3. row' = ResetRow([Reconciled(row) EXCEPT !.liq = bot.state.liq], target)
      BY <1>10, <2>4 DEF TakeSnapshot
    <3> HIDE DEF target
    <3>4. row' \in Rows
      BY <3>1, <3>2, <3>3 DEF ResetRow, Rows, Opt
    <3>5. truth' = [truth EXCEPT !.at = value, !.earned = FALSE,
                                 !.gap = Min({truth.asked - value, 0}),
                                 !.gain = Max({value - truth.asked, 0})]
      BY <1>10, <2>4 DEF TakeSnapshot
    <3>6. truth.asked \in Int /\ value \in Int
      BY <1>0, <2>3 DEF Truths
    <3> HIDE DEF value
    <3>7. Min({truth.asked - value, 0}) \in Int /\ Max({value - truth.asked, 0}) \in Int
      BY <3>6, Least, Greatest
    <3>8. truth' \in Truths
      BY <1>0, <3>5, <3>6, <3>7 DEF Truths, Opt
    <3> QED BY <2>2, <3>4, <3>8 DEF RecordTypes, Opt
  <2>5. CASE ~Applied
    <3>1. row' = MeasuredRow(row, bot.state) /\ truth' = Seen(truth, row, Market(bot.state, truth))
      BY <1>10, <2>5 DEF TakeSnapshot
    <3>2. row' \in Rows
      BY <1>0, <2>1, <3>1, MeasuredRowType
    <3>3. truth' \in Truths
      BY <1>0, <2>1, <2>3, <3>1, TruthTypes
    <3> QED BY <2>2, <3>2, <3>3 DEF RecordTypes, Opt
  <2> QED BY <2>4, <2>5
<1>11. CASE FastFilter
  <2>1. row' \in Rows /\ known' \in Sources
    BY <1>0, <1>1, <1>11, ReconciledType DEF FastFilter, Snapshots, Sources
  <2> QED BY <1>0, <1>11, <2>1 DEF FastFilter, RecordTypes, Opt
<1>12. CASE Confirm
  <2>1. row \in Rows
    BY <1>1, <1>12 DEF Confirm
  <2>2. CASE Measure(row, Read, truth)
    BY <1>0, <1>2, <2>1, <2>2, MeasureTypes
  <2> QED BY <1>0, <1>12, <2>2 DEF Confirm, RecordTypes
<1>13. CASE Lands
  <2>1. truth' \in Truths
    BY <1>0, <1>13 DEF Lands, Sign, Paid, Truths
  <2> QED BY <1>0, <1>13, <2>1 DEF Lands, RecordTypes
<1>14. CASE Settle
  <2>1. row \in Rows /\ snap \in Snapshots
    BY <1>1, <1>14 DEF Settle
  <2> QED BY <1>0, <1>1, <1>3, <1>14, <2>1, SettleTypes DEF Settle
<1>15. CASE Rebase
  <2>1. row' \in Rows
    BY <1>1, <1>3, <1>15, RebasedType DEF Rebase
  <2>2. truth' \in Truths
    BY <1>0, <1>15, TruthTypes DEF Rebase
  <2> QED BY <1>0, <1>15, <2>1, <2>2 DEF Rebase, RecordTypes, Opt
<1>16. CASE MeasureAgain
  <2>1. row \in Rows /\ snap \in Snapshots
    BY <1>1, <1>16 DEF MeasureAgain
  <2>2. CASE Measure(row, [Read EXCEPT !.price = flow.price], truth)
    <3>1. [Read EXCEPT !.price = flow.price] \in States
      BY <1>1, <1>2 DEF States
    <3> QED BY <1>0, <2>1, <2>2, <3>1, MeasureTypes
  <2>3. CASE Estimate(row, -1, flow.price) /\ UNCHANGED truth
    BY <1>0, <1>1, <2>1, <2>3, EstimateTypes DEF RecordTypes, Opt
  <2> QED BY <1>16, <2>2, <2>3 DEF MeasureAgain
<1>17. CASE Click
  <2>1. row' \in Rows
    BY <1>1, <1>17 DEF Click, Rows
  <2>2. truth' \in Truths
    BY <1>0, <1>17 DEF Click, Truths
  <2> QED BY <1>0, <1>17, <2>1, <2>2 DEF Click, RecordTypes, Opt
<1> QED BY <1>4, <1>5, <1>6, <1>7, <1>8, <1>9, <1>10, <1>11, <1>12, <1>13, <1>14, <1>15,
           <1>16, <1>17, Steps

LEMMA BotTyped == ASSUME TInv, [Next]_vars PROVE bot' \in Bots
<1>0. /\ chain \in Snapshots /\ chain' \in Snapshots /\ row \in Opt(Rows) /\ bot \in Bots
      /\ Read \in States
      /\ row # None => row.hwm \in Opt(Int) /\ row.entry \in Opt(Int) /\ row.armed \in BOOLEAN
                       /\ row.late \in BOOLEAN
      /\ bot.at # "closed" => row # None
  BY Parts, MarketTyped, ReadType DEF MarketTypes, RecordTypes, RestTypes, Present, Rows, Opt
<1>1. Waiting \in Bots
  BY DEF Waiting, Bots, Places, Opt
<1>2. \A place \in Places : [bot EXCEPT !.at = place] \in Bots
  BY <1>0 DEF Bots
<1> USE DEF still, At
<1>3. CASE UNCHANGED vars \/ Lands \/ Settle \/ Rebase \/ MeasureAgain \/ Move \/ Click
           \/ Begin \/ FlowDies
  BY <1>0, <1>3 DEF vars, Lands, Settle, Rebase, MeasureAgain, Move, Click, Begin, FlowDies
<1>4. CASE Dies \/ Confirm
  BY <1>1, <1>4 DEF Dies, Confirm
<1>5. CASE NoSnapshot \/ SnapshotDue \/ Reopen \/ CarryOver \/ Baseline \/ TopUp \/ TakeSnapshot
  BY <1>2, <1>5 DEF NoSnapshot, SnapshotDue, Reopen, CarryOver, Baseline, TopUp, TakeSnapshot,
                    Goto, Places
<1>6. CASE StartTick
  <2>1. PICK s \in {None, Read} : bot' = [Waiting EXCEPT !.at = "check1", !.state = s]
    BY <1>6 DEF StartTick
  <2>2. s \in Opt(States)
    BY <1>0 DEF Opt
  <2> QED BY <1>1, <2>1, <2>2 DEF Bots, Places
<1>7. CASE CheckBefore \/ CheckAfter
  <2>1. bot' = Waiting \/ (bot.at = "check1" /\ bot' = [bot EXCEPT !.at = "process", !.late = row.late])
    BY <1>7 DEF CheckBefore, CheckAfter, Check
  <2> QED BY <1>0, <1>1, <2>1 DEF Bots, Places
<1>8. CASE ReadState
  BY <1>0, <1>8 DEF ReadState, Bots, Opt
<1>9. CASE StartRebalance
  BY <1>0, <1>9 DEF StartRebalance, Bots, Places
<1>10. CASE Claim
  <2>1. bot.state \in States /\ chain'.liq \in Int
    BY <1>0, <1>10 DEF Claim, Bots, Opt, Snapshots
  <2> DEFINE s == [bot.state EXCEPT !.liq = chain'.liq, !.fee = 0]
  <2>2. s \in States
    BY <2>1 DEF States
  <2>3. bot' = [bot EXCEPT !.at = "snapshot", !.state = s]
    BY <1>10 DEF Claim
  <2> HIDE DEF s
  <2> QED BY <1>0, <2>2, <2>3 DEF Bots, Places, Opt
<1>11. CASE FastFilter
  BY <1>0, <1>2, <1>11 DEF FastFilter, Places
<1> QED BY <1>3, <1>4, <1>5, <1>6, <1>7, <1>8, <1>9, <1>10, <1>11, Steps DEF Quiet

LEMMA FlowTyped == ASSUME TInv, [Next]_vars PROVE flow' \in FlowStates
<1>0. /\ chain \in Snapshots /\ flow \in FlowStates /\ setup \in Setups /\ snap \in Opt(Snapshots)
      /\ setup.flows \subseteq FlowKinds /\ SnapLp \in Opt(Int)
      /\ chain.liq \in Int /\ chain.price \in Int
  BY Parts, SetupTypes, SnapTypes DEF MarketTypes, RecordTypes, RestTypes, Snapshots
<1>1. NoFlow \in FlowStates
  BY DEF NoFlow, FlowStates, FlowKinds, Opt
<1>2. CASE flow' = flow \/ flow' = NoFlow
  BY <1>0, <1>1, <1>2
<1>3. CASE Begin
  BY <1>0, <1>3 DEF Begin, FlowStates
<1>4. CASE Lands
  BY <1>0, <1>4 DEF Lands, FlowStates
<1>5. CASE Rebase
  BY <1>0, <1>5 DEF Rebase, FlowStates
<1> USE DEF still, At
<1>6. CASE \/ UNCHANGED vars \/ StartTick \/ CheckBefore \/ CheckAfter \/ ReadState \/ NoSnapshot
           \/ SnapshotDue \/ Dies \/ StartRebalance \/ Reopen \/ CarryOver
  BY <1>2, <1>6 DEF vars, StartTick, CheckBefore, CheckAfter, Check, ReadState, NoSnapshot,
     SnapshotDue, Dies, StartRebalance, Reopen, CarryOver
<1>7. CASE \/ Baseline \/ TopUp \/ Claim \/ TakeSnapshot \/ FastFilter \/ Confirm \/ Settle
           \/ MeasureAgain \/ FlowDies \/ Move \/ Click
  BY <1>2, <1>7 DEF Baseline, TopUp, Claim, TakeSnapshot, FastFilter, Confirm, Settle,
     MeasureAgain, FlowDies, Move, Click
<1> QED BY <1>3, <1>4, <1>5, <1>6, <1>7, Steps DEF Quiet

LEMMA Frozen ==
  ASSUME TInv, [Next]_vars
  PROVE  /\ setup' = setup
         /\ flows' \in 0..setup.maxFlows /\ minimum' \in Opt(Int) /\ click' \in Opt(Int)
         /\ stopped' \in {"no", "drawdown", "minimum"}
<1>0. /\ flows \in 0..setup.maxFlows /\ setup.maxFlows \in Nat /\ minimum \in Opt(Int)
      /\ click \in Opt(Int) /\ stopped \in {"no", "drawdown", "minimum"}
      /\ StopValue \in Opt(Int) /\ None \in Opt(Int)
  BY Parts, SetupTypes, SnapTypes DEF RecordTypes, RestTypes, Opt
<1>1. \A r, v : Verdict(r, v) \in {"no", "drawdown", "minimum"}
  BY DEF Verdict
<1> USE DEF still, At
<1>2. CASE \/ UNCHANGED vars \/ StartTick \/ CheckBefore \/ CheckAfter \/ ReadState \/ NoSnapshot
           \/ SnapshotDue \/ Dies
  BY <1>0, <1>1, <1>2 DEF vars, StartTick, CheckBefore, CheckAfter, Check, ReadState, NoSnapshot,
     SnapshotDue, Dies
<1>3. CASE Begin \/ FlowDies \/ Lands \/ Settle \/ Rebase \/ MeasureAgain
  BY <1>0, <1>3 DEF Begin, FlowDies, Lands, Settle, Rebase, MeasureAgain
<1>4. CASE StartRebalance \/ Reopen \/ CarryOver \/ Baseline \/ TopUp \/ Claim
  BY <1>0, <1>4 DEF StartRebalance, Reopen, CarryOver, Baseline, TopUp, Claim
<1>5. CASE TakeSnapshot \/ FastFilter \/ Confirm \/ Move \/ Click
  BY <1>0, <1>1, <1>5 DEF TakeSnapshot, FastFilter, Confirm, Move, Click
<1> QED BY <1>2, <1>3, <1>4, <1>5, Steps DEF Quiet

(* Where each step leaves the bot.                                          *)
LEMMA BotMoves ==
  ASSUME TInv
  PROVE  /\ \A place \in Places : Goto(place) =>
              /\ bot'.at = place /\ bot'.state = bot.state
              /\ bot'.hwm = bot.hwm /\ bot'.entry = bot.entry /\ bot'.armed = bot.armed
         /\ StartTick => bot'.at = "check1" /\ bot'.state \in {None, Read}
         /\ CheckBefore \/ CheckAfter =>
              bot' = Waiting \/ (bot'.at = "process" /\ bot'.state = bot.state)
         /\ ReadState => bot'.at = bot.at /\ bot'.state = Read
         /\ StartRebalance => /\ bot'.at = "closed" /\ bot'.state = bot.state
                              /\ bot'.hwm = row.hwm /\ bot'.entry = row.entry
                              /\ bot'.armed = row.armed
         /\ FastFilter => bot' = bot \/ (bot'.at = "confirm" /\ bot'.state = bot.state)
<1>0. bot \in Bots /\ Waiting.at = "wait"
  BY Parts DEF RestTypes, Waiting
<1>1. \A place \in Places : Goto(place) =>
              /\ bot'.at = place /\ bot'.state = bot.state
              /\ bot'.hwm = bot.hwm /\ bot'.entry = bot.entry /\ bot'.armed = bot.armed
  BY <1>0 DEF Goto, Bots
<1>2. StartTick => bot'.at = "check1" /\ bot'.state \in {None, Read}
  BY DEF StartTick, Waiting
<1>3. CheckBefore \/ CheckAfter =>
              bot' = Waiting \/ (bot'.at = "process" /\ bot'.state = bot.state)
  BY <1>0 DEF CheckBefore, CheckAfter, Check, Bots
<1>4. ReadState => bot'.at = bot.at /\ bot'.state = Read
  BY <1>0 DEF ReadState, Bots
<1>5. StartRebalance => /\ bot'.at = "closed" /\ bot'.state = bot.state
                        /\ bot'.hwm = row.hwm /\ bot'.entry = row.entry
                        /\ bot'.armed = row.armed
  BY <1>0 DEF StartRebalance, Bots
<1>6. FastFilter => bot' = bot \/ (bot'.at = "confirm" /\ bot'.state = bot.state)
  BY <1>0 DEF FastFilter, Bots
<1> QED BY <1>1, <1>2, <1>3, <1>4, <1>5, <1>6

LEMMA ClaimedState ==
  ASSUME TInv, Claim, chain' \in Snapshots
  PROVE  /\ bot'.at = "snapshot" /\ bot'.state \in States
         /\ bot'.state.liq = chain'.liq /\ bot'.state.fee = 0
         /\ bot'.state.price = bot.state.price
<1>1. bot \in Bots /\ bot.state \in States
  BY Parts DEF RestTypes, Claim, Bots, Opt
<1> DEFINE s == [bot.state EXCEPT !.liq = chain'.liq, !.fee = 0]
<1>2. bot' = [bot EXCEPT !.at = "snapshot", !.state = s]
  BY DEF Claim
<1>3. bot'.at = "snapshot" /\ bot'.state = s
  BY <1>1, <1>2 DEF Bots
<1>4. s \in States /\ s.liq = chain'.liq /\ s.fee = 0 /\ s.price = bot.state.price
  <2>1. chain'.liq \in Int
    BY DEF Snapshots
  <2> QED BY <1>1, <2>1 DEF States
<1> QED BY <1>3, <1>4

LEMMA StaysPresent == ASSUME TInv, [Next]_vars PROVE Present'
<1>0. /\ bot.at = "snapshot" => bot.state # None
      /\ flow.at # "none" => snap # None
      /\ row = None => bot.at = "closed"
      /\ row' \in Rows \/ row' = row \/ StartRebalance
      /\ snap' \in Snapshots \/ snap' = snap
      /\ row' \in Rows => row' # None
      /\ snap' \in Snapshots => snap' # None
      /\ chain' \in Snapshots /\ flow \in FlowStates
      /\ Waiting.at = "wait" /\ NoFlow.at = "none"
  BY Parts, RecordsTyped, MarketTyped, StopAssumption
  DEF RestTypes, Present, Waiting, NoFlow, MarketTypes
<1>1. bot'.at = "snapshot" => bot'.state # None
  <2>1. CASE bot' = bot \/ bot' = Waiting
    BY <1>0, <2>1
  <2>2. CASE StartTick \/ CheckBefore \/ CheckAfter \/ ReadState \/ StartRebalance \/ FastFilter
    BY <1>0, <2>2, BotMoves DEF ReadState, At
  <2>3. CASE NoSnapshot \/ Reopen \/ CarryOver \/ Baseline \/ TakeSnapshot
    BY <2>3, BotMoves DEF NoSnapshot, Reopen, CarryOver, Baseline, TakeSnapshot, Places
  <2>4. CASE SnapshotDue \/ TopUp
    BY <2>4, BotMoves DEF SnapshotDue, TopUp, Places
  <2>5. CASE Claim
    BY <1>0, <2>5, ClaimedState, StopAssumption
  <2>6. Dies \/ Confirm => bot' = Waiting
    BY DEF Dies, Confirm
  <2>7. (\/ UNCHANGED vars \/ Begin \/ Lands \/ Settle \/ Rebase \/ MeasureAgain \/ FlowDies \/ Move
         \/ Click) => bot' = bot
    BY DEF vars, Begin, Lands, Settle, Rebase, MeasureAgain, FlowDies, Move, Click
  <2> QED BY <2>1, <2>2, <2>3, <2>4, <2>5, <2>6, <2>7, Steps DEF Quiet
<1>2. row' = None => bot'.at = "closed"
  <2>1. CASE StartRebalance
    BY <2>1, BotMoves
  <2>2. CASE Reopen
    <3>1. PICK d \in {0, -1} : row' = FreshRow(chain.liq + d)
      BY <2>2 DEF Reopen
    <3>2. chain.liq + d \in Int
      BY Parts, <3>1 DEF MarketTypes, Snapshots
    <3>3. row' \in Rows
      BY <3>1, <3>2, StopAssumption DEF FreshRow, Rows, Opt
    <3> QED BY <1>0, <3>3
  <2>3. CASE bot.at # "closed" /\ ~StartRebalance
    BY <1>0, <2>3
  <2>4. CASE bot' = bot /\ ~StartRebalance
    BY <1>0, <2>4
  <2>5. (\/ CarryOver \/ Baseline \/ TopUp \/ Claim \/ TakeSnapshot \/ FastFilter \/ Confirm
         \/ StartTick \/ CheckBefore \/ CheckAfter \/ ReadState \/ NoSnapshot \/ SnapshotDue
         \/ Dies) => bot.at # "closed"
    BY DEF CarryOver, Baseline, TopUp, Claim, TakeSnapshot, FastFilter, Confirm, StartTick,
       CheckBefore, CheckAfter, Check, ReadState, NoSnapshot, SnapshotDue, Dies, At
  <2>6. (\/ UNCHANGED vars \/ Begin \/ Lands \/ Settle \/ Rebase \/ MeasureAgain \/ FlowDies \/ Move
         \/ Click) => bot' = bot
    BY DEF vars, Begin, Lands, Settle, Rebase, MeasureAgain, FlowDies, Move, Click
  <2> QED BY <2>1, <2>2, <2>3, <2>4, <2>5, <2>6, Steps DEF Quiet
<1>3. flow'.at # "none" => snap # None
  <2>1. Begin => snap # None
    BY DEF Begin
  <2>2. Lands \/ Rebase => flow.at # "none"
    BY DEF Lands, Rebase
  <2>3. Settle \/ MeasureAgain \/ FlowDies => flow' = NoFlow
    BY DEF Settle, MeasureAgain, FlowDies
  <2>4. (\/ UNCHANGED vars \/ StartTick \/ CheckBefore \/ CheckAfter \/ ReadState \/ NoSnapshot
         \/ SnapshotDue \/ Dies \/ Move \/ Click) => flow' = flow
    BY DEF vars, StartTick, CheckBefore, CheckAfter, Check, ReadState, NoSnapshot, SnapshotDue,
       Dies, Move, Click
  <2>5. (\/ StartRebalance \/ Reopen \/ CarryOver \/ Baseline \/ TopUp \/ Claim \/ TakeSnapshot
         \/ FastFilter \/ Confirm) => flow' = flow
    BY DEF StartRebalance, Reopen, CarryOver, Baseline, TopUp, Claim, TakeSnapshot, FastFilter,
       Confirm
  <2> QED BY <1>0, <2>1, <2>2, <2>3, <2>4, <2>5, Steps DEF Quiet
<1> QED BY <1>0, <1>1, <1>2, <1>3 DEF Present

LEMMA TInvStep == TInv /\ [Next]_vars => TInv'
<1> SUFFICES ASSUME TInv, [Next]_vars PROVE TInv'
  OBVIOUS
<1>1. MarketTypes' /\ RecordTypes' /\ Present'
  BY MarketTyped, RecordsTyped, StaysPresent
<1>2. RestTypes'
  BY Parts, Frozen, BotTyped, FlowTyped DEF RestTypes
<1> QED BY <1>1, <1>2, Parts DEF TInv, TypeOK, MarketTypes, RecordTypes, RestTypes, Bots,
       FlowStates, Truths, Sources, Opt

LEMMA FirstRow == ASSUME Init PROVE row \in Rows
<1>1. FreshRow(0) \in Rows
  BY DEF FreshRow, Rows, Opt
<1>2. row = [FreshRow(0) EXCEPT !.young = FALSE, !.seen = IF May("net") THEN 0 ELSE None]
  BY DEF Init
<1>3. (IF May("net") THEN 0 ELSE None) \in Opt(Int)
  BY DEF Opt
<1> QED BY <1>1, <1>2, <1>3 DEF Rows

LEMMA TInvInit == Init => TInv
<1> SUFFICES ASSUME Init PROVE TInv
  OBVIOUS
<1>0. setup \in Setups /\ setup.minimum \in Opt(Int)
  BY SetupTypes DEF Init, Opt
<1>1. MarketTypes
  BY <1>0, SetupTypes DEF Init, MarketTypes, Snapshots
<1>2. RecordTypes
  <2>1. row \in Rows
    BY FirstRow
  <2>2. snap \in Opt(Snapshots)
    BY DEF Init, OpeningSnap, Snapshots, Opt
  <2>3. truth \in Truths
    BY DEF Init, Truths, Opt
  <2> QED BY <2>1, <2>2, <2>3 DEF Init, RecordTypes, Sources, Opt
<1>3. RestTypes
  BY <1>0, SetupTypes DEF Init, RestTypes, Waiting, NoFlow, Bots, FlowStates, FlowKinds, Places, Opt
<1>4. Present
  <2>1. row \in Rows
    BY FirstRow
  <2> QED BY <2>1, StopAssumption DEF Init, Present, Waiting, NoFlow
<1> QED BY <1>1, <1>2, <1>3, <1>4, Parts

(* Whatever may happen to the position: rows, snapshots and what the bot    *)
(* carries from await to await have their types, and a ratio left behind in *)
(* a row is within the band.                                                *)
THEOREM Typing == Spec => []TypeOK
<1>1. TypeOK /\ Present <=> TInv
  BY DEF TInv
<1> QED BY TInvInit, TInvStep, <1>1, PTL DEF Spec

-----------------------------------------------------------------------------
(* The inductive invariant of the references.                               *)

V == snap.liq + snap.price + snap.fee

(* What a capital flow under way has moved and no measurement has seen yet. *)
Moved == IF flow.at = "landed" THEN Sign ELSE 0

(* The references by which the position is gap below its mark and gain      *)
(* above its entry at the value v; the ratios that stand for them.          *)
Exact(hwm, entry, kn, v, t) ==
  /\ t.gap \in Int /\ t.gain \in Int
  /\ hwm - Dev(kn) - v = t.gap
  /\ v - (entry - Dev(kn)) = t.gain
Open(ratio, eratio, t) ==
  /\ IF ratio = None THEN t.gap \in {None, 0} ELSE t.gap = -ratio
  /\ t.gain = eratio
Sound(r, kn, v, t) ==
  /\ r.hwm = None <=> r.entry = None
  /\ IF r.hwm # None THEN Exact(r.hwm, r.entry, kn, v, t) ELSE Open(r.ratio, r.eratio, t)
Opening(r, t) ==
  r.seen # None =>
    /\ May("net")
    /\ r.hwm = None => /\ r.seen = 0 /\ t.at = 0 /\ t.paid = 0 /\ t.gap = 0
                       /\ r.ratio = None

Resting == bot.at \notin {"closed", "reopened"}

(* Bot and flow take turns, and what they carry from step to step is still  *)
(* true when it is used.                                                    *)
Frame ==
  /\ flow.at # "none" => bot.at = "wait" /\ flow.kind \in setup.flows
  /\ bot.at = "closed" => row = None
  /\ bot.at \in {"closed", "reopened", "baseline"} => May("rebalance")
  /\ (bot.at \in {"check1", "process", "snapshot"} /\ bot.state # None) =>
       bot.state.liq = chain.liq
  /\ flow.at = "begun" => flow.liq = chain.liq
  /\ (flow.at = "landed" /\ flow.kind # "withdraw") => flow.liq + 1 = chain.liq
  /\ flow.at \in {"begun", "landed"} => flow.lp = SnapLp
  /\ flow.at = "rebased" => flow.kind = "withdraw"

NoFees == ~May("fees") =>
  /\ chain.fee = 0
  /\ snap # None => snap.fee = 0
  /\ bot.state # None => bot.state.fee = 0

References ==
  /\ Resting => /\ Sound(row, known, V, truth)
                /\ Opening(row, truth)
                /\ row.hwm # None => snap # None /\ V - truth.at = truth.paid - Moved
                /\ flow.at = "rebased" => row.hwm = None
                /\ (May("rebalance") /\ row.hwm = None /\ ~row.young) =>
                     row.ratio = None /\ row.eratio = None
  /\ bot.at = "reopened" =>
       row.hwm = None /\ row.entry = None /\ row.seen = None /\ row.young
  /\ ~Resting =>
       /\ bot.hwm = None <=> bot.entry = None
       /\ IF bot.hwm # None THEN snap # None /\ Exact(bot.hwm, bot.entry, "pool", V, truth)
          ELSE Open(None, None, truth)

Above == (~May("click") /\ truth.gap # None) => truth.gap >= 0

Clicks ==
  /\ click # None => May("click")
  /\ May("click") => /\ truth.paid = 0
                     /\ snap # None => V = truth.at
                     /\ click # None => click = truth.asked

Arming ==
  ~May("shown") => /\ Resting => row.armed = truth.earned
                   /\ ~Resting => bot.armed = truth.earned

Reason ==
  /\ (stopped = "drawdown" /\ setup.deviation = 0) =>
       /\ truth.gap \in Int
       /\ truth.gap > IF truth.earned \/ May("shown") THEN Second ELSE First
  /\ stopped = "minimum" => minimum # None /\ flow.at = "none"
  /\ ("withdraw" \in setup.flows /\ minimum # None) =>
       truth.paid >= IF flow.kind = "withdraw" /\ flow.at \in {"landed", "rebased"} THEN -1 ELSE 0

KInv == Frame /\ NoFees /\ References /\ Above /\ Clicks /\ Arming /\ Reason

-----------------------------------------------------------------------------
(* What Kept excludes.                                                      *)

LEMMA KeptFacts ==
  ASSUME Kept, setup \in Setups
  PROVE  /\ ~May("topUp") /\ ~May("forced") /\ ~May("overlap") /\ ~May("die")
         /\ May("fees") => setup.flows = {} /\ ~May("rebalance")
         /\ May("net") => setup.flows = {} /\ setup.deviation = 0
         /\ May("rebalance") => /\ ~May("click") /\ ~May("fees") /\ setup.deviation = 0
                                /\ setup.flows \subseteq {"measured"}
         /\ May("click") => setup.flows = {} /\ ~May("rebalance") /\ setup.deviation = 0
         /\ (\E k \in {"legacy", "withdraw"} : k \in setup.flows) =>
              /\ setup.deviation = 0
              /\ ~May("fees") /\ ~May("rebalance") /\ ~May("click") /\ ~May("net")
         /\ setup.deviation = 0 => \A src : Dev(src) = 0
<1>1. setup.flows # {} => ~May("fees") /\ ~May("click") /\ ~May("net")
  BY DEF Kept
<1>2. setup.deviation = 0 => \A src : Dev(src) = 0
  BY DEF Dev
<1>3. setup.deviation # 0 =>
        setup.flows \subseteq {"measured"} /\ ~May("rebalance") /\ ~May("click") /\ ~May("net")
  BY DEF Kept, May
<1>4. ~May("topUp") /\ ~May("forced") /\ ~May("overlap") /\ ~May("die")
  BY DEF Kept, May
<1>5. May("rebalance") => setup.flows \subseteq {"measured"} /\ ~May("click") /\ ~May("fees")
  BY DEF Kept
<1> QED BY <1>1, <1>2, <1>3, <1>4, <1>5 DEF Kept

LEMMA KeptStays == ASSUME setup' = setup PROVE Kept' <=> Kept
BY DEF Kept, May

LEMMA MayStays == ASSUME setup' = setup PROVE \A what : May(what)' <=> May(what)
BY DEF May

LEMMA Halted == ASSUME [Next]_vars, stopped # "no" PROVE UNCHANGED vars
BY DEF Next, Tick, OtherProcess, At, Check, StartTick, CheckBefore, CheckAfter, ReadState,
       NoSnapshot, StartRebalance, Reopen, CarryOver, Baseline, TopUp, Claim, SnapshotDue,
       TakeSnapshot, FastFilter, Confirm, Dies, Begin, Lands, Settle, Rebase, MeasureAgain,
       FlowDies, Move, Click

-----------------------------------------------------------------------------
(* What the operations do to the references.                                *)

LEMMA Shifts ==
  ASSUME NEW r \in Rows, NEW f \in Int
  PROVE  LET q == Scaled(r, f)
         IN /\ q.hwm = IF r.hwm = None THEN None ELSE r.hwm + f
            /\ q.entry = IF r.entry = None THEN None ELSE r.entry + f
            /\ q.ratio = r.ratio /\ q.eratio = r.eratio /\ q.armed = r.armed
            /\ q.seen = r.seen /\ q.young = r.young /\ q.late = r.late
BY DEF Scaled, Rows

LEMMA Rescaled ==
  ASSUME setup \in Setups, NEW r \in Rows
  PROVE  /\ Dev(chain.src) - Dev(known) \in Int
         /\ Reconciled(r) = Scaled(r, Dev(chain.src) - Dev(known))
<1>1. r # None
  BY StopAssumption DEF Rows
<1> QED BY <1>1, Deviations DEF Reconciled

(* The row after a measurement, field by field.                             *)
LEMMA MeasuredFields ==
  ASSUME setup \in Setups, chain \in Snapshots, NEW r \in Rows, NEW s \in States
  PROVE  LET f == Dev(chain.src) - Dev(known)
             w == s.liq + s.price + Dev(chain.src) + s.fee
             n == MeasuredRow(r, s)
         IN /\ n.hwm = IF r.hwm # None THEN Max({r.hwm + f, w})
                       ELSE IF r.ratio # None THEN w - r.ratio
                       ELSE IF r.seen # None THEN Max({r.seen, w}) ELSE w
            /\ n.entry = IF r.entry # None THEN r.entry + f
                         ELSE IF r.eratio # None THEN w - r.eratio ELSE w
            /\ n.seen = None
            /\ n.armed = (r.armed \/ n.hwm >= n.entry + First \/ May("shown"))
<1> DEFINE f == Dev(chain.src) - Dev(known)
           w == s.liq + s.price + Dev(chain.src) + s.fee
           q == [Reconciled(r) EXCEPT !.liq = s.liq]
           u == Updated(q, w)
<1>1. f \in Int /\ w \in Int /\ Value(s) = w
  <2>1. Dev(chain.src) \in Int /\ Dev(known) \in Int
    BY Deviations
  <2>2. s.liq \in Int /\ s.price \in Int /\ s.fee \in Nat /\ Value(s) = w
    BY StateTypes
  <2> QED BY <2>1, <2>2
<1>2. q \in Rows
  BY ReconciledType, StateTypes DEF Rows
<1>3. /\ q.hwm = IF r.hwm = None THEN None ELSE r.hwm + f
      /\ q.entry = IF r.entry = None THEN None ELSE r.entry + f
      /\ q.ratio = r.ratio /\ q.eratio = r.eratio /\ q.armed = r.armed /\ q.seen = r.seen
  <2>1. Scaled(r, f) \in Rows /\ q = [Scaled(r, f) EXCEPT !.liq = s.liq]
    BY <1>1, Rescaled, ScaledType
  <2>2. /\ q.hwm = Scaled(r, f).hwm /\ q.entry = Scaled(r, f).entry
        /\ q.ratio = Scaled(r, f).ratio /\ q.eratio = Scaled(r, f).eratio
        /\ q.armed = Scaled(r, f).armed /\ q.seen = Scaled(r, f).seen
    BY <2>1 DEF Rows
  <2> QED BY <1>1, <2>2, Shifts
<1>4. (r.hwm # None => r.hwm \in Int) /\ (r.entry # None => r.entry \in Int)
  BY DEF Rows, Opt
<1>5. (q.hwm = None <=> r.hwm = None) /\ (q.entry = None <=> r.entry = None)
  BY <1>1, <1>3, <1>4, StopAssumption
<1> HIDE DEF f, w, q
<1>6. /\ u \in Rows /\ u.hwm = Marked(q, w) /\ u.seen = None /\ u.armed = q.armed
      /\ u.entry = IF q.entry # None THEN q.entry ELSE IF q.eratio # None THEN w - q.eratio ELSE w
  <2>1. u \in Rows
    BY <1>1, <1>2, UpdatedType DEF u
  <2> QED BY <1>2, <2>1 DEF u, Updated, Rows
<1>7. MeasuredRow(r, s) = Armed(u)
  BY <1>1 DEF MeasuredRow, q
<1>8. /\ Armed(u).hwm = u.hwm /\ Armed(u).entry = u.entry /\ Armed(u).seen = u.seen
      /\ Armed(u).armed = (u.armed \/ u.hwm >= u.entry + First \/ May("shown"))
  BY <1>6 DEF Armed, Rows
<1>9. Marked(q, w) = IF r.hwm # None THEN Max({r.hwm + f, w})
                     ELSE IF r.ratio # None THEN w - r.ratio
                     ELSE IF r.seen # None THEN Max({r.seen, w}) ELSE w
  BY <1>3, <1>5 DEF Marked
<1>10. u.entry = IF r.entry # None THEN r.entry + f
                 ELSE IF r.eratio # None THEN w - r.eratio ELSE w
  BY <1>3, <1>5, <1>6
<1> HIDE DEF u
<1> QED BY <1>3, <1>6, <1>7, <1>8, <1>9, <1>10 DEF f, w

LEMMA SeenFields ==
  ASSUME NEW t \in Truths, NEW r, NEW value \in Int
  PROVE  LET n == Seen(t, r, value)
         IN /\ n.at = value /\ n.paid = t.paid /\ n.asked = t.asked
            /\ n.gap = IF t.gap = None THEN 0
                       ELSE IF r.hwm # None \/ r.seen # None
                            THEN Max({0, t.gap - (value - t.at)}) ELSE t.gap
            /\ n.gain = IF t.gain = None THEN 0
                        ELSE IF r.entry # None THEN t.gain + (value - t.at) ELSE t.gain
            /\ n.earned = (t.earned \/ n.gap + n.gain >= First)
BY DEF Seen, Truths

(* A measurement of a row that is sound at the value the truth goes by: the *)
(* new references are exact at the new one, and stage 2 is armed with the   *)
(* gain.                                                                    *)
LEMMA Measuring ==
  ASSUME setup \in Setups, chain \in Snapshots, known \in Sources, Kept,
         NEW r \in Rows, NEW s \in States, NEW t \in Truths,
         Sound(r, known, t.at + t.paid, t), Opening(r, t)
  PROVE  LET v == s.liq + s.price + s.fee
             n == MeasuredRow(r, s)
             z == Seen(t, r, v - t.paid)
         IN /\ n \in Rows /\ n.hwm \in Int /\ n.entry \in Int /\ n.seen = None
            /\ Exact(n.hwm, n.entry, chain.src, v, z)
            /\ z.at = v - t.paid /\ z.paid = t.paid /\ z.asked = t.asked
            /\ (t.gap # None => t.gap >= 0) => z.gap >= 0
            /\ (~May("shown") /\ r.armed = t.earned) => n.armed = z.earned
<1> DEFINE v == s.liq + s.price + s.fee
           w == s.liq + s.price + Dev(chain.src) + s.fee
           f == Dev(chain.src) - Dev(known)
           n == MeasuredRow(r, s)
           z == Seen(t, r, v - t.paid)
<1>1. /\ v \in Int /\ w = v + Dev(chain.src) /\ Dev(chain.src) \in Int /\ Dev(known) \in Int
      /\ f \in Int /\ f = Dev(chain.src) - Dev(known)
      /\ t.paid \in Int /\ t.at \in Int /\ v - t.paid \in Int /\ First \in Int
  <2>1. Dev(chain.src) \in Int /\ Dev(known) \in Int /\ t.paid \in Int /\ t.at \in Int
    BY Deviations DEF Truths
  <2>2. s.liq \in Int /\ s.price \in Int /\ s.fee \in Nat /\ First \in Nat
    BY StateTypes, StopAssumption
  <2> QED BY <2>1, <2>2
<1>2. /\ r.hwm # None => r.hwm \in Int
      /\ r.entry # None => r.entry \in Int
      /\ r.ratio # None => r.ratio \in Int
      /\ r.eratio # None => r.eratio \in Int
      /\ t.gap # None => t.gap \in Int
      /\ t.gain # None => t.gain \in Int
      /\ None \notin Int
  BY StopAssumption DEF Rows, Truths, Opt
<1>3. /\ n.hwm = IF r.hwm # None THEN Max({r.hwm + f, w})
                  ELSE IF r.ratio # None THEN w - r.ratio
                  ELSE IF r.seen # None THEN Max({r.seen, w}) ELSE w
      /\ n.entry = IF r.entry # None THEN r.entry + f
                    ELSE IF r.eratio # None THEN w - r.eratio ELSE w
      /\ n.seen = None
      /\ n.armed = (r.armed \/ n.hwm >= n.entry + First \/ May("shown"))
      /\ n \in Rows
  BY MeasuredFields, MeasuredRowType
<1>4. /\ z.at = v - t.paid /\ z.paid = t.paid /\ z.asked = t.asked
      /\ z.gap = IF t.gap = None THEN 0
                  ELSE IF r.hwm # None \/ r.seen # None
                       THEN Max({0, t.gap - (v - t.paid - t.at)}) ELSE t.gap
      /\ z.gain = IF t.gain = None THEN 0
                   ELSE IF r.entry # None THEN t.gain + (v - t.paid - t.at) ELSE t.gain
      /\ z.earned = (t.earned \/ z.gap + z.gain >= First)
  <2>1. v - t.paid \in Int
    BY <1>1
  <2> HIDE DEF v
  <2> QED BY <2>1, SeenFields
<1> HIDE DEF v, w, f, n, z
<1>5. n.hwm \in Int /\ z.gap \in Int /\ n.hwm - Dev(chain.src) - v = z.gap
  <2>1. CASE r.hwm # None
    <3>1. t.gap \in Int /\ r.hwm - Dev(known) - (t.at + t.paid) = t.gap /\ r.hwm \in Int
      BY <1>2, <2>1 DEF Sound, Exact
    <3>2. n.hwm = Max({r.hwm + f, w}) /\ z.gap = Max({0, t.gap - (v - t.paid - t.at)})
      BY <1>2, <1>3, <1>4, <2>1, <3>1
    <3>3. n.hwm = (IF r.hwm + f >= w THEN r.hwm + f ELSE w)
      BY <1>1, <3>1, <3>2, Greatest
    <3>4. z.gap = (IF 0 >= t.gap - (v - t.paid - t.at) THEN 0 ELSE t.gap - (v - t.paid - t.at))
      BY <1>1, <3>1, <3>2, Greatest
    <3> QED BY <1>1, <3>1, <3>3, <3>4
  <2>2. CASE r.hwm = None /\ r.ratio # None
    <3>1. t.gap = -r.ratio /\ r.ratio \in Int
      BY <1>2, <2>2 DEF Sound, Open
    <3>2. r.seen = None
      BY <2>2 DEF Opening
    <3>3. n.hwm = w - r.ratio /\ z.gap = -r.ratio
      BY <1>2, <1>3, <1>4, <2>2, <3>1, <3>2
    <3> QED BY <1>1, <3>1, <3>3
  <2>3. CASE r.hwm = None /\ r.ratio = None /\ r.seen # None
    <3>1. r.seen = 0 /\ t.at = 0 /\ t.paid = 0 /\ t.gap = 0 /\ Dev(chain.src) = 0
      BY <2>3, KeptFacts DEF Opening
    <3>2. n.hwm = Max({0, w}) /\ z.gap = Max({0, 0 - (v - 0 - 0)})
      BY <1>2, <1>3, <1>4, <2>3, <3>1
    <3>3. n.hwm = (IF 0 >= w THEN 0 ELSE w)
      BY <1>1, <3>2, Greatest
    <3>4. z.gap = (IF 0 >= -v THEN 0 ELSE -v)
      BY <1>1, <3>2, Greatest
    <3> QED BY <1>1, <3>1, <3>3, <3>4
  <2>4. CASE r.hwm = None /\ r.ratio = None /\ r.seen = None
    <3>1. t.gap \in {None, 0}
      BY <2>4 DEF Sound, Open
    <3>2. n.hwm = w /\ z.gap = 0
      BY <1>3, <1>4, <2>4, <3>1
    <3> QED BY <1>1, <3>2
  <2> QED BY <2>1, <2>2, <2>3, <2>4
<1>6. n.entry \in Int /\ z.gain \in Int /\ v - (n.entry - Dev(chain.src)) = z.gain
  <2>1. CASE r.entry # None
    <3>1. r.hwm # None
      BY <2>1 DEF Sound
    <3>2. t.gain \in Int /\ (t.at + t.paid) - (r.entry - Dev(known)) = t.gain /\ r.entry \in Int
      BY <1>2, <2>1, <3>1 DEF Sound, Exact
    <3>3. n.entry = r.entry + f /\ z.gain = t.gain + (v - t.paid - t.at)
      BY <1>2, <1>3, <1>4, <2>1, <3>2
    <3> QED BY <1>1, <3>2, <3>3
  <2>2. CASE r.entry = None /\ r.eratio # None
    <3>1. t.gain = r.eratio /\ r.eratio \in Int
      BY <1>2, <2>2 DEF Sound, Open
    <3>2. n.entry = w - r.eratio /\ z.gain = r.eratio
      BY <1>2, <1>3, <1>4, <2>2, <3>1
    <3> QED BY <1>1, <3>1, <3>2
  <2>3. CASE r.entry = None /\ r.eratio = None
    <3>1. t.gain = None
      BY <2>3 DEF Sound, Open
    <3>2. n.entry = w /\ z.gain = 0
      BY <1>3, <1>4, <2>3, <3>1
    <3> QED BY <1>1, <3>2
  <2> QED BY <2>1, <2>2, <2>3
<1>7. ASSUME t.gap # None => t.gap >= 0 PROVE z.gap >= 0
  <2>1. CASE z.gap = t.gap \/ z.gap = 0
    BY <1>2, <1>5, <1>7, <2>1
  <2>2. CASE t.gap # None /\ z.gap = Max({0, t.gap - (v - t.paid - t.at)})
    <3>1. t.gap \in Int
      BY <1>2, <2>2
    <3>2. z.gap = (IF 0 >= t.gap - (v - t.paid - t.at) THEN 0 ELSE t.gap - (v - t.paid - t.at))
      BY <1>1, <2>2, <3>1, Greatest
    <3> QED BY <1>1, <3>1, <3>2
  <2> QED BY <1>4, <2>1, <2>2
<1>8. ASSUME ~May("shown"), r.armed = t.earned PROVE n.armed = z.earned
  <2>1. (n.hwm >= n.entry + First) <=> (z.gap + z.gain >= First)
    BY <1>1, <1>5, <1>6
  <2> QED BY <1>3, <1>4, <1>8, <2>1
<1> QED BY <1>3, <1>4, <1>5, <1>6, <1>7, <1>8 DEF Exact, v, n, z

(* A ratio is left behind: it stands for the gap and the gain of the moment, *)
(* or both are given up beyond the band.                                    *)
LEMMA Leaving ==
  ASSUME NEW t \in Truths, NEW lp \in Int, NEW hwm \in Int, NEW entry \in Int,
         t.gap \in Int, t.gain \in Int, t.gap >= 0,
         hwm - lp = t.gap, lp - entry = t.gain
  PROVE  Open(MarkRatio(lp, hwm), EntryRatio(lp, entry), Transferred(t))
<1>1. /\ Transferred(t).gap = IF t.gap > Band THEN None ELSE t.gap
      /\ Transferred(t).gain = IF t.gain \notin (-Band)..Band THEN None ELSE t.gain
  BY StopAssumption DEF Transferred, Truths
<1>2. lp # None /\ hwm # None /\ entry # None
  BY StopAssumption
<1>3. MarkRatio(lp, hwm) = IF t.gap > Band THEN None ELSE -t.gap
  <2>1. Min({0, lp - hwm}) = IF 0 <= lp - hwm THEN 0 ELSE lp - hwm
    BY Least
  <2>2. MarkRatio(lp, hwm) = IF lp - hwm < -Band THEN None ELSE Min({0, lp - hwm})
    BY <1>2 DEF MarkRatio
  <2> QED BY <2>1, <2>2, StopAssumption
<1>4. EntryRatio(lp, entry) = IF t.gain \notin (-Band)..Band THEN None ELSE t.gain
  BY <1>2 DEF EntryRatio
<1>5. CASE t.gap > Band
  BY <1>1, <1>3, <1>4, <1>5 DEF Open
<1>6. CASE ~(t.gap > Band)
  <2>1. MarkRatio(lp, hwm) = -t.gap /\ Transferred(t).gap = t.gap /\ -t.gap # None
    BY <1>1, <1>3, <1>6, StopAssumption
  <2>2. Transferred(t).gap = -MarkRatio(lp, hwm)
    BY <2>1
  <2> QED BY <1>1, <1>4, <2>1, <2>2 DEF Open
<1> QED BY <1>5, <1>6

LEMMA Unresolved ==
  ASSUME NEW t \in Truths, NEW ratio \in Opt((-Band)..0), NEW eratio \in Opt((-Band)..Band),
         Open(ratio, eratio, t)
  PROVE  Open(ratio, eratio, Transferred(t))
<1>1. /\ Transferred(t).gap = IF t.gap # None /\ t.gap > Band THEN None ELSE t.gap
      /\ Transferred(t).gain = IF t.gain # None /\ t.gain \notin (-Band)..Band THEN None ELSE t.gain
  BY DEF Transferred, Truths
<1>2. Transferred(t).gain = t.gain
  BY <1>1 DEF Open, Opt
<1>3. CASE ratio = None
  BY <1>1, <1>2, <1>3, StopAssumption DEF Open
<1>4. CASE ratio # None
  <2>1. ratio \in (-Band)..0 /\ t.gap = -ratio
    BY <1>4 DEF Open, Opt
  <2> QED BY <1>1, <1>2, <1>4, <2>1, StopAssumption DEF Open
<1> QED BY <1>3, <1>4

LEMMA TransferredFields ==
  ASSUME NEW t \in Truths
  PROVE  LET n == Transferred(t)
         IN /\ n.paid = t.paid /\ n.at = t.at /\ n.asked = t.asked /\ n.earned = t.earned
            /\ n.gap \in {t.gap, None}
BY DEF Transferred, Truths

LEMMA RebasedFields ==
  ASSUME NEW r \in Rows, NEW lp \in Opt(Int)
  PROVE  LET n == Rebased(r, lp)
         IN /\ n.hwm = None /\ n.entry = None
            /\ n.ratio = IF r.hwm = None THEN r.ratio ELSE MarkRatio(lp, r.hwm)
            /\ n.eratio = IF r.entry = None THEN r.eratio ELSE EntryRatio(lp, r.entry)
            /\ n.armed = r.armed /\ n.seen = r.seen /\ n.young = r.young
BY DEF Rebased, Rows

LEMMA SnapValues ==
  ASSUME setup \in Setups, snap \in Snapshots
  PROVE  /\ V \in Int /\ snap # None
         /\ StopValue = V + Dev(snap.src) /\ SnapLp = V - snap.fee + Dev(snap.src)
         /\ snap.fee \in Nat
<1>1. snap.liq \in Int /\ snap.price \in Int /\ snap.fee \in Nat /\ snap # None
  BY StopAssumption DEF Snapshots
<1>2. Dev(snap.src) \in Int
  BY Deviations
<1> QED BY <1>1, <1>2 DEF V, StopValue, SnapLp

-----------------------------------------------------------------------------
(* One step.                                                                *)

LEMMA Typed ==
  ASSUME TInv
  PROVE  /\ setup \in Setups /\ chain \in Snapshots /\ known \in Sources /\ truth \in Truths
         /\ snap # None => snap \in Snapshots
         /\ Resting => row \in Rows
         /\ bot.at = "snapshot" => bot.state # None
         /\ bot.state # None => bot.state \in States
         /\ Read \in States /\ Read.liq = chain.liq /\ Read.fee = chain.fee
         /\ flow.at # "none" => snap # None
         /\ flow.kind \in FlowKinds
         /\ flow.liq \in Int /\ flow.price \in Int /\ flow.lp \in Opt(Int)
         /\ chain.liq \in Int /\ truth.paid \in Int /\ truth.at \in Int /\ truth.asked \in Int
         /\ bot.hwm \in Opt(Int) /\ bot.entry \in Opt(Int) /\ bot.armed \in BOOLEAN
BY Parts, ReadType DEF MarketTypes, RecordTypes, RestTypes, Present, Resting, Bots, FlowStates,
   Truths, Snapshots, Read, Opt

(* What a measurement finds: the references at the value the truth goes by, *)
(* or, after a capital flow, moved by its factor.                           *)
LEMMA Ready ==
  ASSUME TInv, KInv, Resting
  PROVE  /\ row \in Rows
         /\ flow.at # "landed" =>
              Sound(row, known, truth.at + truth.paid, truth) /\ Opening(row, truth)
         /\ (flow.at = "landed" /\ flow.kind # "withdraw") =>
              /\ Sound(Scaled(row, 1), known, truth.at + truth.paid, truth)
              /\ Opening(Scaled(row, 1), truth)
<1>1. /\ row \in Rows /\ truth.paid \in Int /\ truth.at \in Int /\ Dev(known) \in Int
      /\ Sound(row, known, V, truth) /\ Opening(row, truth)
      /\ row.hwm # None => snap # None /\ V - truth.at = truth.paid - Moved
      /\ snap # None => V \in Int
      /\ row.hwm # None => row.hwm \in Int
      /\ row.entry # None => row.entry \in Int
      /\ None \notin Int
  BY Typed, Deviations, SnapValues, StopAssumption DEF KInv, References, Rows, Opt
<1>2. ASSUME flow.at # "landed"
      PROVE  Sound(row, known, truth.at + truth.paid, truth)
  <2>1. row.hwm # None => V = truth.at + truth.paid
    BY <1>1, <1>2 DEF Moved
  <2> QED BY <1>1, <2>1 DEF Sound
<1>3. ASSUME flow.at = "landed", flow.kind # "withdraw"
      PROVE  Sound(Scaled(row, 1), known, truth.at + truth.paid, truth) /\ Opening(Scaled(row, 1), truth)
  <2> DEFINE q == Scaled(row, 1)
  <2>1. /\ q.hwm = IF row.hwm = None THEN None ELSE row.hwm + 1
        /\ q.entry = IF row.entry = None THEN None ELSE row.entry + 1
        /\ q.ratio = row.ratio /\ q.eratio = row.eratio /\ q.seen = row.seen
    BY <1>1, Shifts
  <2>2. (q.hwm = None <=> row.hwm = None) /\ (q.entry = None <=> row.entry = None)
    BY <1>1, <2>1
  <2> HIDE DEF q
  <2>3. Opening(q, truth)
    BY <1>1, <2>1, <2>2 DEF Opening
  <2>4. CASE row.hwm = None
    <3>1. Open(row.ratio, row.eratio, truth) /\ row.entry = None
      BY <1>1, <2>4 DEF Sound
    <3>2. q.hwm = None /\ q.entry = None /\ q.ratio = row.ratio /\ q.eratio = row.eratio
      BY <2>1, <2>4, <3>1
    <3> QED BY <2>3, <3>1, <3>2 DEF Sound, q
  <2>5. CASE row.hwm # None
    <3>1. V = truth.at + truth.paid - 1
      BY <1>1, <1>3, <2>5 DEF Moved, Sign
    <3>2. q.hwm = row.hwm + 1 /\ q.entry = row.entry + 1
      BY <1>1, <2>1, <2>5 DEF Sound
    <3>3. Exact(row.hwm, row.entry, known, V, truth) /\ row.entry # None
      BY <1>1, <2>5 DEF Sound
    <3>4. Exact(q.hwm, q.entry, known, truth.at + truth.paid, truth)
      BY <1>1, <2>5, <3>1, <3>2, <3>3 DEF Exact
    <3>5. q.hwm # None /\ q.entry # None
      BY <2>2, <2>5, <3>3
    <3> QED BY <2>3, <3>4, <3>5 DEF Sound, q
  <2> QED BY <2>3, <2>4, <2>5 DEF q
<1> QED BY <1>1, <1>2, <1>3

(* What it leaves behind.                                                   *)
Measured(r, t) ==
  /\ row' \in Rows /\ row'.hwm \in Int /\ row'.entry \in Int /\ row'.seen = None
  /\ snap' # None
  /\ Exact(row'.hwm, row'.entry, known', V', truth')
  /\ V' - truth'.at = t.paid /\ truth'.paid = t.paid /\ truth'.asked = t.asked
  /\ (t.gap # None => t.gap >= 0) => truth'.gap >= 0
  /\ (~May("shown") /\ r.armed = t.earned) => row'.armed = truth'.earned

LEMMA MeasureStep ==
  ASSUME TInv, Kept, chain' \in Snapshots,
         NEW r \in Rows, NEW s \in States, NEW t \in Truths, s.liq = chain'.liq,
         Sound(r, known, t.at + t.paid, t), Opening(r, t), Measure(r, s, t)
  PROVE  Measured(r, t) /\ snap'.fee = s.fee
<1>1. setup \in Setups /\ chain \in Snapshots /\ known \in Sources
  BY Typed
<1>2. s.liq \in Int /\ s.price \in Int /\ s.fee \in Nat /\ t.paid \in Int
  BY <1>1, StateTypes DEF Truths
<1> DEFINE v == s.liq + s.price + s.fee
<1>3. Market(s, t) = v - t.paid /\ v \in Int
  BY <1>2 DEF Market
<1>4. /\ row' = MeasuredRow(r, s) /\ truth' = Seen(t, r, v - t.paid) /\ known' = chain.src
      /\ snap' = [liq |-> s.liq, price |-> s.price, fee |-> s.fee, src |-> chain.src]
  BY <1>3 DEF Measure, Written
<1>5. V' = v /\ snap'.fee = s.fee /\ snap' # None
  <2>1. snap' \in Snapshots
    BY <1>1, <1>4, StateTypes
  <2> QED BY <1>4, <2>1, StopAssumption DEF V
<1>6. /\ row' \in Rows /\ row'.hwm \in Int /\ row'.entry \in Int /\ row'.seen = None
      /\ Exact(row'.hwm, row'.entry, chain.src, v, truth')
      /\ truth'.at = v - t.paid /\ truth'.paid = t.paid /\ truth'.asked = t.asked
      /\ (t.gap # None => t.gap >= 0) => truth'.gap >= 0
      /\ (~May("shown") /\ r.armed = t.earned) => row'.armed = truth'.earned
  <2> HIDE DEF v
  <2> QED BY <1>1, <1>4, Measuring DEF v
<1>7. V' - truth'.at = t.paid
  BY <1>2, <1>3, <1>5, <1>6
<1> HIDE DEF v
<1> QED BY <1>4, <1>5, <1>6, <1>7 DEF Measured

LEMMA KeptSteps ==
  ASSUME TInv, Kept, [Next]_vars
  PROVE  /\ setup' = setup /\ (Kept' <=> Kept)
         /\ \/ UNCHANGED vars \/ StartTick \/ CheckBefore \/ CheckAfter \/ ReadState
            \/ NoSnapshot \/ SnapshotDue \/ Begin
            \/ StartRebalance \/ Reopen \/ CarryOver \/ Baseline \/ Claim \/ TakeSnapshot
            \/ FastFilter \/ Confirm \/ Lands \/ Settle \/ Rebase \/ MeasureAgain \/ Move
            \/ Click
<1>1. setup' = setup /\ (Kept' <=> Kept)
  BY Frozen, KeptStays
<1>2. ~TopUp /\ ~Dies /\ ~FlowDies
  BY KeptFacts, Typed DEF TopUp, Dies, FlowDies
<1> QED BY <1>1, <1>2, Steps DEF Quiet

LEMMA FrameStep == ASSUME TInv, Kept, Frame, [Next]_vars PROVE Frame'
<1>0. /\ setup' = setup
      /\ ~May("overlap")
      /\ (May("rebalance")' <=> May("rebalance"))
      /\ Waiting.at = "wait" /\ NoFlow.at = "none"
      /\ row = None => bot.at = "closed"
      /\ Read.liq = chain.liq /\ chain.liq \in Int
      /\ bot \in Bots /\ flow \in FlowStates /\ chain \in Snapshots
      /\ bot.at \in Places
      /\ snap' = snap => SnapLp' = SnapLp
  BY KeptSteps, KeptFacts, Typed, MayStays, Parts
  DEF Waiting, NoFlow, Present, RestTypes, MarketTypes, SnapLp, Dev, Bots
<1> USE DEF still, At, Alone
<1>1. CASE UNCHANGED vars
  BY <1>0, <1>1 DEF vars, Frame
<1>2. CASE StartTick
  BY <1>0, <1>2, BotMoves DEF StartTick, Frame
<1>3. CASE CheckBefore \/ CheckAfter
  BY <1>0, <1>3, BotMoves DEF CheckBefore, CheckAfter, Check, Frame
<1>4. CASE ReadState
  BY <1>0, <1>4, BotMoves DEF ReadState, Frame
<1>5. CASE NoSnapshot \/ SnapshotDue
  BY <1>0, <1>5, BotMoves DEF NoSnapshot, SnapshotDue, Frame, Places
<1>6. CASE Begin
  BY <1>0, <1>6 DEF Begin, Frame
<1>7. CASE StartRebalance
  BY <1>0, <1>7, BotMoves DEF StartRebalance, Frame
<1>8. CASE Reopen \/ CarryOver \/ Baseline
  BY <1>0, <1>8, BotMoves DEF Reopen, CarryOver, Baseline, Frame, Places
<1>9. CASE Claim
  BY <1>0, <1>9, ClaimedState, MarketTyped DEF Claim, Frame, MarketTypes
<1>10. CASE TakeSnapshot
  BY <1>0, <1>10, BotMoves DEF TakeSnapshot, Frame, Places
<1>11. CASE FastFilter \/ Confirm
  BY <1>0, <1>11, BotMoves DEF FastFilter, Confirm, Frame
<1>12. CASE Lands
  BY <1>0, <1>12 DEF Lands, Sign, Frame, FlowStates, Snapshots
<1>13. CASE Settle \/ MeasureAgain
  BY <1>0, <1>13 DEF Settle, MeasureAgain, Frame
<1>14. CASE Rebase
  BY <1>0, <1>14 DEF Rebase, Frame, FlowStates
<1>15. CASE Move
  BY <1>0, <1>15 DEF Move, Frame, Snapshots
<1>16. CASE Click
  BY <1>0, <1>16 DEF Click, Frame
<1> QED BY <1>1, <1>2, <1>3, <1>4, <1>5, <1>6, <1>7, <1>8, <1>9, <1>10, <1>11, <1>12, <1>13,
           <1>14, <1>15, <1>16, KeptSteps

LEMMA DevStays == ASSUME setup' = setup PROVE \A src : Dev(src)' = Dev(src)
BY DEF Dev

(* The steps that measure.                                                  *)
Measurement ==
  \/ (Baseline \/ Confirm) /\ Measure(row, Read, truth)
  \/ TakeSnapshot /\ ~Applied
  \/ Settle /\ flow.kind = "measured"
  \/ MeasureAgain /\ Measure(row, [Read EXCEPT !.price = flow.price], truth)

LEMMA Measurements ==
  ASSUME TInv, Kept, KInv, [Next]_vars, Measurement
  PROVE  /\ Measured(row, truth)
         /\ Resting /\ Resting' /\ flow'.at = "none"
         /\ bot'.at \in {"wait", "check2"} /\ (bot'.state = None \/ bot'.state = bot.state)
         /\ ~May("fees") => chain'.fee = 0 /\ snap'.fee = 0
<1>0. /\ truth \in Truths /\ Read \in States /\ Read.liq = chain.liq
      /\ chain' \in Snapshots /\ bot \in Bots
      /\ Waiting.at = "wait" /\ Waiting.state = None /\ NoFlow.at = "none"
      /\ flow.at # "none" => bot.at = "wait"
      /\ flow.liq \in Int /\ flow.price \in Int
      /\ bot.at = "snapshot" => bot.state # None
      /\ bot.state # None => bot.state \in States
      /\ ~May("fees") => chain.fee = 0 /\ (snap # None => snap.fee = 0)
                         /\ (bot.state # None => bot.state.fee = 0)
      /\ Read.fee = chain.fee
      /\ flow.at # "none" => snap # None
  BY Typed, MarketTyped, Parts DEF Waiting, NoFlow, RestTypes, MarketTypes, KInv, Frame, NoFees
<1> USE DEF still, At
<1>1. CASE (Baseline \/ Confirm) /\ Measure(row, Read, truth)
  <2>1. Resting /\ flow.at = "none" /\ flow' = flow /\ chain' = chain
    BY <1>0, <1>1 DEF Baseline, Confirm, Resting
  <2>2. /\ row \in Rows /\ Sound(row, known, truth.at + truth.paid, truth)
        /\ Opening(row, truth)
    BY <2>1, Ready
  <2>3. Measured(row, truth) /\ snap'.fee = Read.fee
    BY <1>0, <1>1, <2>1, <2>2, MeasureStep
  <2>4. bot'.at \in {"wait", "check2"} /\ (bot'.state = None \/ bot'.state = bot.state)
    BY <1>0, <1>1, BotMoves DEF Baseline, Confirm, Places
  <2> QED BY <1>0, <2>1, <2>3, <2>4 DEF Resting
<1>2. CASE TakeSnapshot /\ ~Applied
  <2>1. Resting /\ flow.at = "none" /\ flow' = flow /\ chain' = chain /\ bot.at = "snapshot"
    BY <1>0, <1>2 DEF TakeSnapshot, Resting
  <2>2. /\ row \in Rows /\ Sound(row, known, truth.at + truth.paid, truth)
        /\ Opening(row, truth)
    BY <2>1, Ready
  <2>3. bot.state \in States /\ bot.state.liq = chain'.liq
    BY <1>0, <2>1 DEF KInv, Frame
  <2>4. Measure(row, bot.state, truth)
    BY <1>2 DEF TakeSnapshot, Measure
  <2>5. Measured(row, truth) /\ snap'.fee = bot.state.fee
    BY <1>0, <2>2, <2>3, <2>4, MeasureStep
  <2>6. bot'.at = "check2" /\ bot'.state = bot.state
    BY <1>2, BotMoves DEF TakeSnapshot, Places
  <2> QED BY <1>0, <2>1, <2>3, <2>5, <2>6 DEF Resting
<1>3. CASE Settle /\ flow.kind = "measured"
  <2>1. Resting /\ flow.at = "landed" /\ flow' = NoFlow /\ chain' = chain /\ bot' = bot /\ bot.at = "wait"
    BY <1>0, <1>3 DEF Settle, Resting
  <2>2. /\ Scaled(row, 1) \in Rows
        /\ Sound(Scaled(row, 1), known, truth.at + truth.paid, truth)
        /\ Opening(Scaled(row, 1), truth) /\ Scaled(row, 1).armed = row.armed
    BY <1>3, <2>1, Ready, ScaledType, Shifts
  <2> DEFINE s == [liq |-> flow.liq + 1, price |-> flow.price, fee |-> Fees]
  <2>3. s \in States /\ s.liq = chain'.liq /\ s.fee = snap.fee
    <3>1. snap # None /\ snap \in Snapshots /\ Fees = snap.fee
      BY <1>0, <2>1, Typed DEF Fees
    <3>2. flow.liq + 1 = chain.liq
      BY <1>3, <2>1 DEF KInv, Frame
    <3> QED BY <1>0, <2>1, <3>1, <3>2 DEF States, Snapshots
  <2>4. Measure(Scaled(row, 1), s, truth)
    BY <1>3 DEF Settle, SettleMeasured
  <2> HIDE DEF s
  <2>5. Measured(Scaled(row, 1), truth) /\ snap'.fee = s.fee
    BY <1>0, <2>2, <2>3, <2>4, MeasureStep
  <2> QED BY <1>0, <2>1, <2>2, <2>3, <2>5 DEF Resting, Measured
<1>4. CASE MeasureAgain /\ Measure(row, [Read EXCEPT !.price = flow.price], truth)
  <2>1. Resting /\ flow.at = "rebased" /\ flow' = NoFlow /\ chain' = chain /\ bot' = bot /\ bot.at = "wait"
    BY <1>0, <1>4 DEF MeasureAgain, Resting
  <2>2. /\ row \in Rows /\ Sound(row, known, truth.at + truth.paid, truth)
        /\ Opening(row, truth)
    BY <2>1, Ready
  <2> DEFINE s == [Read EXCEPT !.price = flow.price]
  <2>3. s \in States /\ s.liq = chain'.liq /\ s.fee = chain.fee
    BY <1>0, <2>1 DEF States
  <2> HIDE DEF s
  <2>4. Measured(row, truth) /\ snap'.fee = s.fee
    BY <1>0, <1>4, <2>2, <2>3, MeasureStep DEF s
  <2> QED BY <1>0, <2>1, <2>3, <2>4 DEF Resting
<1> QED BY <1>1, <1>2, <1>3, <1>4 DEF Measurement

LEMMA MeasuredKeeps ==
  ASSUME TInv, Kept, KInv, [Next]_vars, Measurement
  PROVE  References' /\ Above' /\ Arming'
<1>1. /\ Measured(row, truth) /\ Resting /\ Resting' /\ flow'.at = "none"
      /\ bot'.at \in {"wait", "check2"} /\ setup' = setup
  BY Measurements, KeptSteps
<1>2. \A what : May(what)' <=> May(what)
  BY <1>1, MayStays
<1>3. row'.hwm # None /\ row'.entry # None
  BY <1>1, StopAssumption DEF Measured
<1>4. Dev(known)' = Dev(known')
  BY <1>1 DEF Dev
<1>5. Exact(row.hwm, row.entry, known, V, truth)'
  BY <1>1, <1>4 DEF Measured, Exact
<1>6. References'
  <2>1. Sound(row, known, V, truth)'
    BY <1>3, <1>5 DEF Sound
  <2>2. Opening(row, truth)'
    BY <1>1 DEF Opening, Measured
  <2>3. snap' # None /\ (V - truth.at = truth.paid - Moved)'
    <3>1. Moved' = 0
      BY <1>1 DEF Moved
    <3>2. truth'.paid \in Int
      BY RecordsTyped DEF RecordTypes, Truths
    <3>3. truth'.paid - 0 = truth'.paid
      BY <3>2
    <3> QED BY <1>1, <3>1, <3>3 DEF Measured
  <2> QED BY <1>1, <1>3, <2>1, <2>2, <2>3 DEF References
<1>7. Above'
  BY <1>1, <1>2 DEF Above, Measured, KInv
<1>8. Arming'
  BY <1>1, <1>2 DEF Arming, Measured, KInv
<1> QED BY <1>6, <1>7, <1>8

(* The steps that leave the references and the newest snapshot alone.       *)
Still == UNCHANGED <<row, known, snap, truth>>

LEMMA StillKeeps ==
  ASSUME TInv, Kept, KInv, setup' = setup, Still,
         (Resting /\ Resting') \/ bot' = bot,
         Moved' = Moved, flow'.at = "rebased" => flow.at = "rebased"
  PROVE  References' /\ Above' /\ Arming'
<1>1. /\ \A what : May(what)' <=> May(what)
      /\ Dev(known)' = Dev(known) /\ Dev("pool")' = Dev("pool")
  BY MayStays, DevStays DEF Still, Dev
<1>2. V' = V /\ row' = row /\ truth' = truth /\ snap' = snap /\ known' = known
  BY DEF Still, V
<1>3. \A r : Sound(row, known, V, truth) => Sound(row, known, V, truth)'
  BY <1>1, <1>2 DEF Sound, Exact, Open
<1>4. Opening(row, truth) => Opening(row, truth)'
  BY <1>1, <1>2 DEF Opening
<1>5. Exact(bot.hwm, bot.entry, "pool", V, truth) /\ bot' = bot => Exact(bot.hwm, bot.entry, "pool", V, truth)'
  BY <1>1, <1>2 DEF Exact
<1>6. Open(None, None, truth) => Open(None, None, truth)'
  BY <1>2 DEF Open
<1>7. Resting' => Resting
  BY DEF Resting
<1>8. ~Resting' => bot' = bot /\ ~Resting
  BY DEF Resting
<1>9. References'
  <2>1. CASE Resting'
    BY <1>1, <1>2, <1>3, <1>4, <1>7, <2>1 DEF KInv, References, Resting
  <2>2. CASE ~Resting'
    BY <1>1, <1>2, <1>5, <1>6, <1>8, <2>2 DEF KInv, References
  <2> QED BY <2>1, <2>2
<1>10. Above' /\ Arming'
  BY <1>1, <1>2, <1>7, <1>8 DEF KInv, Above, Arming
<1> QED BY <1>9, <1>10

LEMMA StillSteps ==
  ASSUME TInv, Kept, KInv, [Next]_vars,
         \/ UNCHANGED vars \/ StartTick \/ CheckBefore \/ CheckAfter \/ ReadState \/ NoSnapshot
         \/ SnapshotDue \/ Begin \/ Claim \/ Move
         \/ (Baseline \/ Confirm) /\ UNCHANGED <<row, known, snap, truth>>
  PROVE  References' /\ Above' /\ Arming'
<1>1. /\ setup' = setup /\ Waiting.at = "wait" /\ bot \in Bots
      /\ flow.at # "none" => bot.at = "wait"
      /\ chain' \in Snapshots
  BY KeptSteps, Parts, MarketTyped DEF Waiting, KInv, Frame, RestTypes, MarketTypes
<1> USE DEF still, At, Still, Moved, Sign
<1>2. CASE UNCHANGED vars \/ Move
  BY <1>1, <1>2, StillKeeps DEF vars, Move
<1>3. CASE Begin
  BY <1>1, <1>3, StillKeeps DEF Begin
<1>4. CASE StartTick \/ CheckBefore \/ CheckAfter \/ ReadState
  <2>1. Resting /\ Resting'
    BY <1>1, <1>4, BotMoves
    DEF StartTick, CheckBefore, CheckAfter, Check, ReadState, Resting
  <2> QED BY <1>1, <1>4, <2>1, StillKeeps DEF StartTick, CheckBefore, CheckAfter, Check, ReadState
<1>5. CASE NoSnapshot \/ SnapshotDue
  <2>1. Resting /\ Resting'
    BY <1>1, <1>5, BotMoves DEF NoSnapshot, SnapshotDue, Resting, Places
  <2> QED BY <1>1, <1>5, <2>1, StillKeeps DEF NoSnapshot, SnapshotDue
<1>6. CASE Claim
  <2>1. Resting /\ Resting'
    BY <1>1, <1>6, ClaimedState DEF Claim, Resting
  <2> QED BY <1>1, <1>6, <2>1, StillKeeps DEF Claim
<1>7. CASE (Baseline \/ Confirm) /\ UNCHANGED <<row, known, snap, truth>>
  <2>1. Resting /\ Resting'
    BY <1>1, <1>7, BotMoves DEF Baseline, Confirm, Resting, Places
  <2> QED BY <1>1, <1>7, <2>1, StillKeeps DEF Baseline, Confirm
<1> QED BY <1>2, <1>3, <1>4, <1>5, <1>6, <1>7

-----------------------------------------------------------------------------
(* Capital flows.                                                           *)

(* Liquidity lands: neither gap nor gain are touched.                       *)
LEMMA LandsKeeps ==
  ASSUME TInv, Kept, KInv, Lands, setup' = setup
  PROVE  References' /\ Above' /\ Arming'
<1>1. /\ truth \in Truths /\ flow \in FlowStates /\ setup \in Setups /\ row \in Rows /\ Resting
      /\ flow.at = "begun" /\ flow.kind \in setup.flows /\ ~May("net")
      /\ flow'.at = "landed" /\ flow'.kind = flow.kind
      /\ row' = row /\ known' = known /\ snap' = snap /\ bot' = bot
      /\ truth.paid \in Int /\ truth.at \in Int
  BY Typed, Parts, KeptFacts DEF Lands, KInv, Frame, RestTypes, FlowStates, Resting
<1>2. /\ truth' = [truth EXCEPT !.paid = truth.paid + Sign]
      /\ Sign \in Int /\ Sign' = Sign
  BY <1>1 DEF Lands, Paid, Sign
<1>3. /\ truth'.gap = truth.gap /\ truth'.gain = truth.gain /\ truth'.at = truth.at
      /\ truth'.earned = truth.earned /\ truth'.paid = truth.paid + Sign
  BY <1>1, <1>2 DEF Truths
<1>4. /\ \A what : May(what)' <=> May(what)
      /\ Dev(known)' = Dev(known) /\ V' = V
  BY <1>1, MayStays DEF Dev, V
<1>5. Sound(row, known, V, truth)'
  BY <1>1, <1>3, <1>4 DEF KInv, References, Sound, Exact, Open
<1>6. row.seen = None
  BY <1>1 DEF KInv, References, Opening
<1>7. (V - truth.at)' = V - truth.at /\ truth'.paid - Moved' = truth.paid - Moved
  BY <1>1, <1>2, <1>3, <1>4 DEF Moved
<1>8. References'
  BY <1>1, <1>4, <1>5, <1>6, <1>7 DEF KInv, References, Opening, Resting
<1>9. Above' /\ Arming'
  BY <1>1, <1>3, <1>4 DEF KInv, Above, Arming, Resting
<1> QED BY <1>8, <1>9

(* A row without references whose ratios stand for gap and gain.            *)
Referred(r, q, t) ==
  /\ r \in Rows /\ r.hwm = None /\ r.entry = None /\ r.seen = None /\ r.armed = q.armed
  /\ Open(r.ratio, r.eratio, t)

LEMMA Left ==
  ASSUME TInv, Kept, KInv, flow.at = "landed", flow.kind \in {"legacy", "withdraw"}
  PROVE  /\ Resting /\ ~May("rebalance") /\ ~May("fees") /\ snap \in Snapshots
         /\ Referred(Rebased(NoNet(row), flow.lp), row, Transferred(truth))
<1>1. /\ setup \in Setups /\ snap \in Snapshots /\ row \in Rows /\ truth \in Truths
      /\ flow.kind \in setup.flows /\ Resting /\ flow.lp = SnapLp
  BY Typed DEF KInv, Frame, Resting
<1>2. /\ ~May("rebalance") /\ ~May("fees") /\ ~May("click")
      /\ \A src : Dev(src) = 0
  BY <1>1, KeptFacts
<1>3. SnapLp = V /\ V \in Int
  BY <1>1, <1>2, SnapValues DEF KInv, NoFees
<1> DEFINE q == NoNet(row)
           n == Rebased(q, V)
<1>4. /\ q \in Rows /\ q.hwm = row.hwm /\ q.entry = row.entry /\ q.ratio = row.ratio
      /\ q.eratio = row.eratio /\ q.armed = row.armed /\ q.seen = None
  BY <1>1 DEF NoNet, Rows, Opt
<1>5. V \in Opt(Int)
  BY <1>3 DEF Opt
<1> HIDE DEF q
<1>6. n \in Rows
  BY <1>4, <1>5, RebasedType
<1>7. /\ n.hwm = None /\ n.entry = None /\ n.seen = None /\ n.armed = row.armed
      /\ n.ratio = IF row.hwm = None THEN row.ratio ELSE MarkRatio(V, row.hwm)
      /\ n.eratio = IF row.entry = None THEN row.eratio ELSE EntryRatio(V, row.entry)
  BY <1>4, <1>5, RebasedFields
<1> HIDE DEF n
<1>8. Sound(row, known, V, truth)
  BY <1>1 DEF KInv, References
<1>9. Open(n.ratio, n.eratio, Transferred(truth))
  <2>1. CASE row.hwm = None
    <3>1. n.ratio = row.ratio /\ n.eratio = row.eratio /\ Open(row.ratio, row.eratio, truth)
      BY <1>7, <1>8, <2>1 DEF Sound
    <3>2. row.ratio \in Opt((-Band)..0) /\ row.eratio \in Opt((-Band)..Band)
      BY <1>1 DEF Rows
    <3> QED BY <1>1, <3>1, <3>2, Unresolved
  <2>2. CASE row.hwm # None
    <3>1. row.entry # None /\ Exact(row.hwm, row.entry, known, V, truth)
      BY <1>8, <2>2 DEF Sound
    <3>2. row.hwm \in Int /\ row.entry \in Int
      BY <1>1, <2>2, <3>1 DEF Rows, Opt
    <3>3. /\ truth.gap \in Int /\ truth.gain \in Int
          /\ row.hwm - V = truth.gap /\ V - row.entry = truth.gain
      BY <1>2, <1>3, <3>1, <3>2 DEF Exact
    <3>4. truth.gap >= 0
      BY <1>2, <3>3, StopAssumption DEF KInv, Above
    <3>5. Open(MarkRatio(V, row.hwm), EntryRatio(V, row.entry), Transferred(truth))
      BY <1>1, <1>3, <3>2, <3>3, <3>4, Leaving
    <3>6. n.ratio = MarkRatio(V, row.hwm) /\ n.eratio = EntryRatio(V, row.entry)
      BY <1>7, <2>2, <3>1
    <3> QED BY <3>5, <3>6
  <2> QED BY <2>1, <2>2
<1> QED BY <1>1, <1>2, <1>3, <1>6, <1>7, <1>9 DEF Referred, n, q

LEMMA ReconciledOpen ==
  ASSUME setup \in Setups, chain \in Snapshots, NEW r, NEW q, NEW t, Referred(r, q, t)
  PROVE  Referred(Reconciled(r), q, t) /\ Reconciled(r).young = r.young
<1>1. r \in Rows /\ Dev(chain.src) - Dev(known) \in Int
  BY Rescaled DEF Referred
<1>2. Reconciled(r) = Scaled(r, Dev(chain.src) - Dev(known)) /\ Reconciled(r) \in Rows
  BY <1>1, Rescaled, ReconciledType
<1> QED BY <1>1, <1>2, Shifts DEF Referred

(* A step after which a row without references stands for gap and gain.     *)
LEMMA ReferredKeeps ==
  ASSUME TInv, Kept, KInv, setup' = setup, ~May("rebalance"), Resting, bot' = bot,
         Referred(row', row, truth'),
         truth'.earned = truth.earned, truth'.gap \in {truth.gap, None}
  PROVE  References' /\ Above' /\ Arming'
<1>1. /\ \A what : May(what)' <=> May(what)
      /\ Resting'
  BY MayStays DEF Resting
<1>2. Sound(row, known, V, truth)'
  BY DEF Referred, Sound, Open
<1>3. References'
  BY <1>1, <1>2 DEF References, Opening, Referred, Resting
<1>4. Above' /\ Arming'
  BY <1>1 DEF KInv, Above, Arming, Referred
<1> QED BY <1>3, <1>4

LEMMA RebaseKeeps ==
  ASSUME TInv, Kept, KInv, Rebase, setup' = setup
  PROVE  References' /\ Above' /\ Arming'
<1>1. /\ Resting /\ ~May("rebalance")
      /\ Referred(row', row, truth') /\ truth' = Transferred(truth) /\ bot' = bot
  BY Left DEF Rebase
<1>2. truth \in Truths
  BY Typed
<1> QED BY <1>1, <1>2, TransferredFields, ReferredKeeps

LEMMA LegacyKeeps ==
  ASSUME TInv, Kept, KInv, Settle, flow.kind = "legacy", setup' = setup
  PROVE  References' /\ Above' /\ Arming'
<1> DEFINE r == Rebased(NoNet(row), flow.lp)
<1>1. /\ Resting /\ ~May("rebalance") /\ Referred(r, row, Transferred(truth))
      /\ setup \in Setups /\ chain \in Snapshots /\ truth \in Truths
  BY Left, Typed DEF Settle
<1>2. truth' = Transferred(truth) /\ bot' = bot /\ (row' = Reconciled(r) \/ row' = r)
  BY DEF Settle, SettleLegacy, Estimate
<1> HIDE DEF r
<1>3. Referred(row', row, truth')
  BY <1>1, <1>2, ReconciledOpen
<1> QED BY <1>1, <1>2, <1>3, TransferredFields, ReferredKeeps

(* The measurement after a withdrawal fails: the ratios wait for the next.  *)
LEMMA EstimateKeeps ==
  ASSUME TInv, Kept, KInv, MeasureAgain, setup' = setup,
         Estimate(row, -1, flow.price), UNCHANGED truth
  PROVE  References' /\ Above' /\ Arming'
<1>1. /\ setup \in Setups /\ chain \in Snapshots /\ truth \in Truths
      /\ flow.at = "rebased" /\ Resting /\ row \in Rows
      /\ flow.kind \in setup.flows /\ flow.kind = "withdraw"
      /\ bot' = bot /\ (row' = Reconciled(row) \/ row' = row) /\ truth' = truth
  BY Typed DEF MeasureAgain, Estimate, KInv, Frame, Resting
<1>2. ~May("rebalance") /\ ~May("net")
  BY <1>1, KeptFacts
<1>3. Referred(row, row, truth)
  BY <1>1, <1>2 DEF KInv, References, Sound, Opening, Referred
<1>4. Referred(row', row, truth')
  BY <1>1, <1>3, ReconciledOpen
<1> QED BY <1>1, <1>2, <1>4, ReferredKeeps

LEMMA FlowsKeep ==
  ASSUME TInv, Kept, KInv, [Next]_vars, Lands \/ Settle \/ Rebase \/ MeasureAgain
  PROVE  References' /\ Above' /\ Arming'
<1>1. setup' = setup /\ flow.kind \in FlowKinds
  BY KeptSteps, Typed
<1>2. CASE Settle
  BY <1>1, <1>2, MeasuredKeeps, LegacyKeeps DEF Measurement, FlowKinds, Settle
<1>3. CASE MeasureAgain
  BY <1>1, <1>3, MeasuredKeeps, EstimateKeeps DEF Measurement, MeasureAgain
<1> QED BY <1>1, <1>2, <1>3, LandsKeeps, RebaseKeeps

-----------------------------------------------------------------------------
(* The fast check, a rebalance and a reset.                                 *)

LEMMA FilterKeeps ==
  ASSUME TInv, Kept, KInv, FastFilter, setup' = setup
  PROVE  References' /\ Above' /\ Arming'
<1>1. /\ setup \in Setups /\ chain \in Snapshots /\ known \in Sources /\ row \in Rows
      /\ bot.at = "wait" /\ flow.at = "none" /\ Resting /\ row.hwm # None /\ ~May("overlap")
      /\ row' = Reconciled(row) /\ known' = chain.src
      /\ snap' = snap /\ truth' = truth /\ flow' = flow
      /\ Resting'
      /\ snap \in Snapshots /\ V \in Int
  BY Typed, KeptFacts, BotMoves, SnapValues DEF FastFilter, At, Alone, Resting
<1> DEFINE f == Dev(chain.src) - Dev(known)
<1>2. /\ row' = Scaled(row, f) /\ f \in Int
      /\ Dev(chain.src) \in Int /\ Dev(known) \in Int
  BY <1>1, Rescaled, Deviations
<1>3. /\ \A what : May(what)' <=> May(what)
      /\ Dev(known)' = Dev(chain.src) /\ V' = V /\ Moved = 0 /\ Moved' = 0
  BY <1>1, MayStays DEF Dev, V, Moved
<1>4. /\ row.entry # None /\ Exact(row.hwm, row.entry, known, V, truth)
      /\ row.hwm \in Int /\ row.entry \in Int
  BY <1>1 DEF KInv, References, Sound, Rows, Opt
<1>5. row'.hwm = row.hwm + f /\ row'.entry = row.entry + f
  BY <1>1, <1>2, <1>4, Shifts
<1>6. row'.seen = row.seen /\ row'.armed = row.armed
  BY <1>1, <1>2, Shifts
<1>7. Exact(row.hwm, row.entry, known, V, truth)'
  BY <1>1, <1>2, <1>3, <1>4, <1>5 DEF Exact
<1>8. row'.hwm # None /\ row'.entry # None
  BY <1>2, <1>4, <1>5, StopAssumption
<1>9. Sound(row, known, V, truth)'
  BY <1>7, <1>8 DEF Sound
<1>10. References'
  BY <1>1, <1>3, <1>6, <1>8, <1>9 DEF KInv, References, Opening, Resting
<1>11. Above' /\ Arming'
  BY <1>1, <1>3, <1>6 DEF KInv, Above, Arming
<1> QED BY <1>10, <1>11

(* The bot takes the references, the new row has none.                      *)
LEMMA TakenKeeps ==
  ASSUME TInv, Kept, KInv, StartRebalance, setup' = setup
  PROVE  References' /\ Above' /\ Arming'
<1>1. /\ setup \in Setups /\ row \in Rows /\ Resting /\ ~Resting' /\ bot'.at = "closed"
      /\ bot'.hwm = row.hwm /\ bot'.entry = row.entry /\ bot'.armed = row.armed
      /\ snap' = snap /\ truth' = truth /\ May("rebalance") /\ ~row.young
  BY Typed, KeptFacts, BotMoves DEF StartRebalance, At, Resting
<1>2. /\ \A what : May(what)' <=> May(what)
      /\ V' = V /\ Dev(known) = 0 /\ Dev("pool")' = 0
  BY <1>1, KeptFacts, MayStays DEF V, Dev
<1>3. Sound(row, known, V, truth)
  BY <1>1 DEF KInv, References
<1>4. row.hwm # None => snap # None /\ Exact(bot.hwm, bot.entry, "pool", V, truth)'
  BY <1>1, <1>2, <1>3 DEF KInv, References, Sound, Exact
<1>5. row.hwm = None => Open(None, None, truth)'
  BY <1>1, <1>2, <1>3 DEF KInv, References, Sound, Open
<1>6. References'
  BY <1>1, <1>3, <1>4, <1>5 DEF References, Sound
<1>7. Above' /\ Arming'
  BY <1>1, <1>2 DEF KInv, Above, Arming
<1> QED BY <1>6, <1>7

LEMMA ReopenKeeps ==
  ASSUME TInv, Kept, KInv, Reopen, setup' = setup
  PROVE  References' /\ Above' /\ Arming'
<1>1. /\ truth \in Truths /\ ~Resting /\ ~Resting' /\ bot'.at = "reopened"
      /\ bot'.hwm = bot.hwm /\ bot'.entry = bot.entry /\ bot'.armed = bot.armed
      /\ snap' = snap /\ truth.paid \in Int
  BY Typed, BotMoves DEF Reopen, At, Resting, Places
<1>2. PICK d \in {0, -1} : row' = FreshRow(chain.liq + d) /\ truth' = Paid(truth, d)
  BY DEF Reopen
<1>3. /\ truth'.gap = truth.gap /\ truth'.gain = truth.gain /\ truth'.earned = truth.earned
      /\ row'.hwm = None /\ row'.entry = None /\ row'.seen = None /\ row'.young
  BY <1>1, <1>2 DEF Paid, Truths, FreshRow
<1>4. /\ \A what : May(what)' <=> May(what)
      /\ V' = V /\ Dev("pool")' = Dev("pool")
  BY <1>1, MayStays DEF V, Dev
<1>5. References'
  BY <1>1, <1>3, <1>4 DEF KInv, References, Exact, Open
<1>6. Above' /\ Arming'
  BY <1>1, <1>3, <1>4 DEF KInv, Above, Arming
<1> QED BY <1>5, <1>6

(* The new row inherits them as ratios to the last snapshot.                *)
LEMMA CarryKeeps ==
  ASSUME TInv, Kept, KInv, CarryOver, setup' = setup
  PROVE  References' /\ Above' /\ Arming'
<1>1. /\ truth \in Truths /\ setup \in Setups /\ row \in Rows /\ ~Resting /\ bot.at = "reopened"
      /\ Resting' /\ row.hwm = None /\ row.entry = None /\ row.seen = None /\ row.young
      /\ bot.hwm \in Opt(Int) /\ bot.entry \in Opt(Int) /\ bot.armed \in BOOLEAN
      /\ snap' = snap /\ flow' = flow /\ flow.at = "none" /\ May("rebalance")
      /\ row' = Carried(row, SnapLp, bot.hwm, bot.entry, bot.armed)
      /\ truth' = Transferred(truth)
  <2>1. bot.at = "reopened" /\ bot'.at = "baseline"
    BY BotMoves DEF CarryOver, At, Places
  <2>2. row # None /\ row \in Opt(Rows)
    BY <2>1, Parts DEF Present, RecordTypes
  <2> QED BY <2>1, <2>2, Typed DEF CarryOver, KInv, Frame, References, Resting, Opt
<1>2. /\ \A what : May(what)' <=> May(what)
      /\ \A src : Dev(src) = 0
      /\ ~May("fees") /\ ~May("click")
  BY <1>1, KeptFacts, MayStays
<1> DEFINE m == MarkRatio(SnapLp, bot.hwm)
           e == EntryRatio(SnapLp, bot.entry)
<1>3. /\ row'.hwm = None /\ row'.entry = None /\ row'.seen = None /\ row'.young
      /\ row'.armed = bot.armed /\ row'.ratio = m /\ row'.eratio = e
  BY <1>1 DEF Carried, Rows
<1>4. Open(m, e, Transferred(truth))
  <2>1. CASE bot.hwm = None
    <3>1. m = None /\ e = None
      BY <1>1, <2>1 DEF KInv, References, MarkRatio, EntryRatio
    <3>2. Open(None, None, truth)
      BY <1>1, <2>1 DEF KInv, References
    <3>3. None \in Opt((-Band)..0) /\ None \in Opt((-Band)..Band)
      BY DEF Opt
    <3> QED BY <1>1, <3>1, <3>2, <3>3, Unresolved
  <2>2. CASE bot.hwm # None
    <3>1. /\ snap # None /\ Exact(bot.hwm, bot.entry, "pool", V, truth)
          /\ bot.hwm \in Int /\ bot.entry \in Int
      BY <1>1, <2>2 DEF KInv, References, Opt
    <3>2. snap \in Snapshots
      BY <3>1, Typed
    <3>3. V \in Int /\ SnapLp = V
      BY <1>1, <1>2, <3>2, SnapValues DEF KInv, NoFees
    <3>4. /\ truth.gap \in Int /\ truth.gain \in Int
          /\ bot.hwm - SnapLp = truth.gap /\ SnapLp - bot.entry = truth.gain
      BY <1>2, <3>1, <3>3 DEF Exact
    <3>5. truth.gap >= 0
      BY <1>2, <3>4, StopAssumption DEF KInv, Above
    <3>6. SnapLp \in Int
      BY <3>3
    <3> QED BY <1>1, <3>1, <3>4, <3>5, <3>6, Leaving
  <2> QED BY <2>1, <2>2
<1> HIDE DEF m, e
<1>5. Sound(row, known, V, truth)'
  BY <1>1, <1>3, <1>4 DEF Sound, Open
<1>6. References'
  BY <1>1, <1>3, <1>5 DEF References, Opening, Resting
<1>7. truth'.earned = truth.earned /\ truth'.gap \in {truth.gap, None}
  BY <1>1, TransferredFields
<1>8. Above' /\ Arming'
  BY <1>1, <1>2, <1>3, <1>7 DEF KInv, Above, Arming
<1> QED BY <1>6, <1>8

(* A reset: mark and entry are what was asked for, or the value measured.   *)
LEMMA ResetKeeps ==
  ASSUME TInv, Kept, KInv, [Next]_vars, TakeSnapshot, Applied
  PROVE  References' /\ Above' /\ Arming' /\ Clicks'
<1> USE DEF still, At
<1>1. /\ setup \in Setups /\ chain \in Snapshots /\ known \in Sources /\ truth \in Truths
      /\ bot.state \in States /\ row \in Rows /\ Resting /\ Resting' /\ bot'.at = "check2"
      /\ flow.at = "none" /\ flow' = flow /\ click' = None /\ setup' = setup
      /\ click # None /\ May("click") /\ chain' = chain /\ chain.liq = bot.state.liq
  <2>1. bot.at = "snapshot" /\ bot'.at = "check2"
    BY BotMoves DEF TakeSnapshot, Places
  <2> QED BY <2>1, Typed, KeptSteps DEF TakeSnapshot, Applied, KInv, Clicks, Frame, Resting
<1>2. /\ \A what : May(what)' <=> May(what)
      /\ \A src : Dev(src) = 0
      /\ Dev(known)' = 0 /\ setup.flows = {} /\ ~May("rebalance")
  BY <1>1, KeptFacts, MayStays DEF Dev
<1>3. click \in Int /\ truth.paid = 0 /\ click = truth.asked
  BY <1>1, <1>2, Parts DEF RestTypes, Opt, KInv, Clicks
<1> DEFINE v == bot.state.liq + bot.state.price + bot.state.fee
           target == Min({click, v})
           q == [Reconciled(row) EXCEPT !.liq = bot.state.liq]
<1>4. v \in Int /\ Value(bot.state) = v /\ Market(bot.state, truth) = v
  <2>1. /\ bot.state.liq \in Int /\ bot.state.price \in Int /\ bot.state.fee \in Nat
        /\ Value(bot.state) = bot.state.liq + bot.state.price + Dev(chain.src) + bot.state.fee
    BY <1>1, StateTypes
  <2>2. Value(bot.state) = v
    BY <1>2, <2>1
  <2>3. Market(bot.state, truth) = v
    BY <1>1, <1>3, <2>1 DEF Market
  <2> QED BY <2>1, <2>2, <2>3
<1>5. /\ row' = ResetRow(q, target)
      /\ truth' = [truth EXCEPT !.at = v, !.earned = FALSE,
                                !.gap = Min({truth.asked - v, 0}),
                                !.gain = Max({v - truth.asked, 0})]
      /\ Written(bot.state)
  BY <1>4 DEF TakeSnapshot
<1>6. V' = v /\ snap' # None
  <2>1. snap' = [liq |-> bot.state.liq, price |-> bot.state.price, fee |-> bot.state.fee,
                 src |-> chain.src]
    BY <1>5 DEF Written
  <2>2. snap' \in Snapshots
    BY <1>1, <2>1, StateTypes
  <2> QED BY <2>1, <2>2, StopAssumption DEF V
<1> HIDE DEF v
<1>7. /\ target = (IF click <= v THEN click ELSE v)
      /\ Min({truth.asked - v, 0}) = (IF click - v <= 0 THEN click - v ELSE 0)
      /\ Max({v - truth.asked, 0}) = (IF v - click >= 0 THEN v - click ELSE 0)
  BY <1>3, <1>4, Least, Greatest
<1> HIDE DEF target
<1>8. /\ truth'.at = v /\ truth'.earned = FALSE /\ truth'.paid = 0
      /\ truth'.gap = (IF click - v <= 0 THEN click - v ELSE 0)
      /\ truth'.gain = (IF v - click >= 0 THEN v - click ELSE 0)
  BY <1>1, <1>3, <1>5, <1>7 DEF Truths
<1>9. q \in Rows /\ q.seen = row.seen
  <2>1. Reconciled(row) \in Rows /\ Reconciled(row).seen = row.seen
    BY <1>1, Rescaled, ReconciledType, Shifts
  <2> QED BY <1>1, <2>1, StateTypes DEF Rows
<1> HIDE DEF q
<1>10. /\ row'.hwm = target /\ row'.entry = target /\ row'.armed = FALSE /\ row'.seen = row.seen
  BY <1>5, <1>9 DEF ResetRow, Rows
<1>11. target \in Int /\ target # None
  BY <1>3, <1>4, <1>7, StopAssumption
<1>12. Exact(row.hwm, row.entry, known, V, truth)'
  <2>1. truth'.gap \in Int /\ truth'.gain \in Int
    BY <1>3, <1>4, <1>8
  <2>2. target - 0 - v = truth'.gap /\ v - (target - 0) = truth'.gain
    BY <1>3, <1>4, <1>7, <1>8
  <2> QED BY <1>2, <1>6, <1>10, <2>1, <2>2 DEF Exact
<1>13. References'
  <2>1. Sound(row, known, V, truth)'
    BY <1>10, <1>11, <1>12 DEF Sound
  <2>2. Opening(row, truth)'
    BY <1>1, <1>2, <1>10, <1>11 DEF KInv, References, Opening
  <2>3. (V - truth.at = truth.paid - Moved)'
    <3>1. Moved' = 0
      BY <1>1 DEF Moved
    <3> QED BY <1>4, <1>6, <1>8, <3>1
  <2> QED BY <1>1, <1>2, <1>6, <1>10, <1>11, <2>1, <2>2, <2>3 DEF References
<1>14. Above' /\ Arming'
  BY <1>1, <1>2, <1>8, <1>10 DEF Above, Arming
<1>15. Clicks'
  BY <1>1, <1>2, <1>6, <1>8 DEF Clicks
<1> QED BY <1>13, <1>14, <1>15

(* A click asks for the value on show.                                      *)
LEMMA ClickKeeps ==
  ASSUME TInv, Kept, KInv, Click, setup' = setup
  PROVE  References' /\ Above' /\ Arming' /\ Clicks'
<1>1. /\ setup \in Setups /\ row \in Opt(Rows) /\ row # None /\ snap # None /\ snap \in Snapshots
      /\ truth \in Truths
      /\ bot' = bot /\ snap' = snap /\ known' = known /\ flow' = flow /\ May("click")
      /\ bot.at # "closed"
      /\ row' = [row EXCEPT !.late = FALSE]
      /\ truth' = [truth EXCEPT !.asked = truth.at]
      /\ click' = StopValue
  BY Typed, Parts DEF Click, RecordTypes, KInv, Frame
<1>2. /\ \A what : May(what)' <=> May(what)
      /\ \A src : Dev(src) = 0
      /\ Dev(known)' = Dev(known) /\ V' = V /\ setup.flows = {} /\ ~May("rebalance")
  BY <1>1, KeptFacts, MayStays DEF Dev, V
<1>3. Resting /\ Resting' /\ Moved' = Moved
  BY <1>1, <1>2 DEF KInv, Frame, Resting, Moved, Sign
<1>4. /\ row' \in Rows
      /\ row'.hwm = row.hwm /\ row'.entry = row.entry /\ row'.ratio = row.ratio
      /\ row'.eratio = row.eratio /\ row'.seen = row.seen /\ row'.armed = row.armed
      /\ row'.young = row.young
  BY <1>1 DEF Rows, Opt
<1>5. /\ truth'.paid = truth.paid /\ truth'.at = truth.at /\ truth'.asked = truth.at
      /\ truth'.gap = truth.gap /\ truth'.gain = truth.gain /\ truth'.earned = truth.earned
  BY <1>1 DEF Truths
<1>6. Sound(row, known, V, truth)' /\ Opening(row, truth)'
  BY <1>1, <1>2, <1>3, <1>4, <1>5 DEF KInv, References, Sound, Exact, Open, Opening
<1>7. References'
  BY <1>1, <1>2, <1>3, <1>4, <1>5, <1>6 DEF KInv, References, Resting
<1>8. Above' /\ Arming'
  BY <1>1, <1>2, <1>3, <1>4, <1>5 DEF KInv, Above, Arming
<1>9. StopValue = V /\ V = truth.at /\ truth.paid = 0
  <2>1. StopValue = V + 0 /\ V \in Int
    BY <1>1, <1>2, SnapValues
  <2> QED BY <1>1, <2>1 DEF KInv, Clicks
<1>10. Clicks'
  BY <1>1, <1>2, <1>5, <1>9 DEF Clicks
<1> QED BY <1>7, <1>8, <1>10

LEMMA ReferencesStep ==
  ASSUME TInv, Kept, KInv, [Next]_vars PROVE References' /\ Above' /\ Arming'
<1>1. setup' = setup
  BY KeptSteps
<1>2. CASE Baseline \/ Confirm
  BY <1>2, MeasuredKeeps, StillSteps DEF Measurement, Baseline, Confirm
<1>3. CASE TakeSnapshot
  BY <1>3, MeasuredKeeps, ResetKeeps DEF Measurement
<1>4. CASE Settle \/ MeasureAgain \/ Lands \/ Rebase
  BY <1>4, FlowsKeep
<1>5. CASE FastFilter \/ StartRebalance \/ Reopen \/ CarryOver \/ Click
  BY <1>1, <1>5, FilterKeeps, TakenKeeps, ReopenKeeps, CarryKeeps, ClickKeeps
<1> QED BY <1>2, <1>3, <1>4, <1>5, StillSteps, KeptSteps

-----------------------------------------------------------------------------
(* Fees, clicks and the reason of a stop.                                   *)

LEMMA NoFeesStep == ASSUME TInv, Kept, KInv, [Next]_vars PROVE NoFees'
<1>0. /\ (May("fees")' <=> May("fees")) /\ setup \in Setups /\ chain \in Snapshots /\ bot \in Bots
      /\ Waiting.state = None /\ Read.fee = chain.fee
  BY KeptSteps, MayStays, Parts, Typed DEF Waiting, RestTypes, MarketTypes
<1> SUFFICES ASSUME ~May("fees")
             PROVE  /\ chain'.fee = 0
                    /\ snap' # None => snap'.fee = 0
                    /\ bot'.state # None => bot'.state.fee = 0
  BY <1>0 DEF NoFees
<1>1. /\ chain.fee = 0 /\ (snap # None => snap.fee = 0)
      /\ (bot.state # None => bot.state.fee = 0)
  BY DEF KInv, NoFees
<1> USE DEF still, At
<1>2. CASE Measurement
  BY <1>0, <1>1, <1>2, Measurements
<1>3. CASE UNCHANGED vars \/ Begin \/ Click \/ Rebase
  BY <1>0, <1>1, <1>3 DEF vars, Begin, Click, Rebase
<1>4. CASE StartTick \/ CheckBefore \/ CheckAfter \/ ReadState
  BY <1>0, <1>1, <1>4, BotMoves DEF StartTick, CheckBefore, CheckAfter, Check, ReadState
<1>5. CASE NoSnapshot \/ SnapshotDue \/ CarryOver
  BY <1>0, <1>1, <1>5, BotMoves DEF NoSnapshot, SnapshotDue, CarryOver, Places
<1>6. CASE StartRebalance \/ FastFilter
  BY <1>0, <1>1, <1>6, BotMoves DEF StartRebalance, FastFilter, Snapshots
<1>7. CASE Reopen
  BY <1>0, <1>1, <1>7, BotMoves DEF Reopen, Places, Snapshots
<1>8. CASE Claim
  <2>1. bot.state # None /\ bot.state.fee > 0
    BY <1>8 DEF Claim
  <2> QED BY <1>1, <2>1
<1>9. CASE (Baseline \/ Confirm) /\ ~Measure(row, Read, truth)
  BY <1>0, <1>1, <1>9, BotMoves DEF Baseline, Confirm, Places
<1>10. CASE TakeSnapshot /\ Applied
  <2>1. snap'.fee = bot.state.fee /\ bot.state # None
    BY <1>10, Typed DEF TakeSnapshot, Written
  <2> QED BY <1>0, <1>1, <1>10, <2>1, BotMoves DEF TakeSnapshot, Places
<1>11. CASE Lands \/ Move
  BY <1>0, <1>1, <1>11 DEF Lands, Move, Snapshots
<1>12. CASE Settle /\ flow.kind # "measured"
  <2>1. snap # None /\ (snap'.fee = snap.fee \/ snap' = snap)
    BY <1>12, Typed DEF Settle, SettleLegacy, Estimate, Written
  <2> QED BY <1>1, <1>12, <2>1 DEF Settle
<1>13. CASE MeasureAgain /\ ~Measure(row, [Read EXCEPT !.price = flow.price], truth)
  <2>1. snap # None /\ (snap'.fee = snap.fee \/ snap' = snap)
    BY <1>13, Typed DEF MeasureAgain, Estimate, Written
  <2> QED BY <1>1, <1>13, <2>1 DEF MeasureAgain
<1> QED BY <1>2, <1>3, <1>4, <1>5, <1>6, <1>7, <1>8, <1>9, <1>10, <1>11, <1>12, <1>13, KeptSteps
        DEF Measurement

LEMMA ClicksStep == ASSUME TInv, Kept, KInv, [Next]_vars PROVE Clicks'
<1>0. /\ setup' = setup /\ setup \in Setups
      /\ \A what : May(what)' <=> May(what)
  BY KeptSteps, Typed, MayStays
<1> USE DEF still, At
<1>1. CASE (TakeSnapshot /\ Applied) \/ Click
  BY <1>0, <1>1, ResetKeeps, ClickKeeps
<1>2. CASE Measurement
  <2>1. Measured(row, truth) /\ (click' = click \/ click' = None)
    BY <1>2, Measurements DEF Measurement, Baseline, Confirm, TakeSnapshot, Settle, MeasureAgain
  <2>2. truth'.at \in Int /\ V' \in Int
    <3>1. truth'.at \in Int /\ snap' \in Opt(Snapshots) /\ snap' # None
      BY <2>1, RecordsTyped DEF RecordTypes, Truths, Measured
    <3>2. snap'.liq \in Int /\ snap'.price \in Int /\ snap'.fee \in Nat
      BY <3>1 DEF Snapshots, Opt
    <3> QED BY <3>1, <3>2 DEF V
  <2>3. May("click") => V' = truth'.at
    BY <2>1, <2>2 DEF KInv, Clicks, Measured
  <2> QED BY <1>0, <2>1, <2>3 DEF KInv, Clicks, Measured
<1>3. CASE Still /\ click' = click
  BY <1>0, <1>3 DEF KInv, Clicks, Still, V
<1>4. CASE FastFilter
  BY <1>0, <1>4 DEF KInv, Clicks, V, FastFilter
<1>5. CASE ~May("click") /\ click' = click
  BY <1>0, <1>5 DEF KInv, Clicks
<1>6. (\/ UNCHANGED vars \/ StartTick \/ CheckBefore \/ CheckAfter \/ ReadState \/ NoSnapshot
       \/ SnapshotDue \/ Begin \/ Claim \/ Move) => Still /\ click' = click
  BY DEF Still, vars, StartTick, CheckBefore, CheckAfter, Check, ReadState, NoSnapshot,
     SnapshotDue, Begin, Claim, Move
<1>7. (Baseline \/ Confirm) /\ ~Measurement => Still /\ click' = click
  BY DEF Still, Baseline, Confirm, Measurement
<1>8. StartRebalance \/ Reopen \/ CarryOver => ~May("click") /\ click' = click
  BY <1>0, KeptFacts DEF StartRebalance, Reopen, CarryOver, KInv, Frame
<1>9. Lands \/ Settle \/ Rebase \/ MeasureAgain => ~May("click") /\ click' = click
  BY <1>0, KeptFacts DEF Lands, Settle, Rebase, MeasureAgain, KInv, Frame
<1> QED BY <1>1, <1>2, <1>3, <1>4, <1>5, <1>6, <1>7, <1>8, <1>9, KeptSteps DEF Measurement

LEMMA VerdictMeans ==
  ASSUME setup.deviation = 0, NEW r \in Rows, NEW v \in Int, NEW kn, NEW t,
         t.earned \in BOOLEAN,
         r.hwm # None => Exact(r.hwm, r.entry, kn, v, t),
         ~May("shown") => r.armed = t.earned
  PROVE  Verdict(r, v) = "drawdown" =>
           t.gap \in Int /\ t.gap > IF t.earned \/ May("shown") THEN Second ELSE First
<1> SUFFICES ASSUME Verdict(r, v) = "drawdown"
             PROVE  t.gap \in Int /\ t.gap > IF t.earned \/ May("shown") THEN Second ELSE First
  OBVIOUS
<1>1. r.hwm # None /\ v < r.hwm - Pct(r)
  BY DEF Verdict
<1>2. r.hwm \in Int /\ r.hwm - Dev(kn) - v = t.gap /\ t.gap \in Int /\ Dev(kn) = 0
  BY <1>1 DEF Rows, Opt, Exact, Dev
<1>3. t.gap = r.hwm - v
  BY <1>2
<1>4. Pct(r) = (IF r.armed THEN Second ELSE First) /\ First \in Nat /\ Second \in Nat /\ Second < First
  BY StopAssumption DEF Pct
<1>5. t.gap > Pct(r)
  BY <1>1, <1>2, <1>3, <1>4
<1>6. r.armed \in BOOLEAN
  BY DEF Rows
<1> QED BY <1>2, <1>4, <1>5, <1>6

LEMMA MinimumMeans == \A r, v : Verdict(r, v) = "minimum" => minimum # None
BY DEF Verdict

(* The stop fires, by the newest snapshot or by the one just written.       *)
LEMMA Fires ==
  ASSUME TInv, Kept, KInv, [Next]_vars, stopped = "no", stopped' # "no"
  PROVE  /\ (stopped' = "drawdown" /\ setup.deviation = 0) =>
              /\ truth'.gap \in Int
              /\ truth'.gap > IF truth'.earned \/ May("shown") THEN Second ELSE First
         /\ stopped' = "minimum" => minimum # None
         /\ minimum' = minimum /\ flow' = flow /\ flow.at = "none"
<1>0. truth \in Truths /\ setup \in Setups /\ chain \in Snapshots
  BY Typed
<1>1. CheckBefore \/ CheckAfter \/ (Confirm /\ Measure(row, Read, truth) /\ stopped' = Verdict(row', Value(Read)))
  BY KeptSteps DEF still, vars, StartTick, ReadState, NoSnapshot, SnapshotDue, Begin,
     StartRebalance, Reopen, CarryOver, Baseline, Claim, TakeSnapshot, FastFilter, Confirm,
     Lands, Settle, Rebase, MeasureAgain, Move, Click
<1>2. CASE CheckBefore \/ CheckAfter
  <2>1. /\ Resting /\ bot.at # "wait" /\ stopped' = Verdict(row, StopValue)
        /\ truth' = truth /\ minimum' = minimum /\ flow' = flow
    BY <1>2 DEF CheckBefore, CheckAfter, Check, Resting
  <2>2. row \in Rows /\ flow.at = "none"
    BY <2>1, Typed DEF KInv, Frame
  <2>3. CASE stopped' = "drawdown" /\ setup.deviation = 0
    <3>1. StopValue # None
      BY <2>1, <2>3 DEF Verdict
    <3>2. snap \in Snapshots
      BY <3>1, Typed DEF StopValue
    <3>3. StopValue = V + Dev(snap.src) /\ V \in Int /\ Dev(snap.src) = 0
      BY <1>0, <2>3, <3>2, SnapValues DEF Dev
    <3>4. StopValue = V
      BY <3>3
    <3>5. row.hwm # None => Exact(row.hwm, row.entry, known, V, truth)
      BY <2>1 DEF KInv, References, Sound
    <3>6. ~May("shown") => row.armed = truth.earned
      BY <2>1 DEF KInv, Arming
    <3>7. truth.earned \in BOOLEAN
      BY <1>0 DEF Truths
    <3>8. Verdict(row, V) = "drawdown"
      BY <2>1, <2>3, <3>4
    <3>9. truth.gap \in Int /\ truth.gap > IF truth.earned \/ May("shown") THEN Second ELSE First
      BY <2>2, <2>3, <3>3, <3>5, <3>6, <3>7, <3>8, VerdictMeans
    <3> QED BY <2>1, <2>2, <2>3, <3>9
  <2> QED BY <2>1, <2>2, <2>3, MinimumMeans
<1>3. CASE Confirm /\ Measure(row, Read, truth) /\ stopped' = Verdict(row', Value(Read))
  <2>1. /\ Measured(row, truth) /\ minimum' = minimum /\ flow' = flow /\ flow.at = "none"
        /\ ~May("shown") => row.armed = truth.earned
    BY <1>3, Measurements DEF Measurement, Confirm, At, KInv, Frame, Arming
  <2>2. CASE stopped' = "drawdown" /\ setup.deviation = 0
    <3>1. Value(Read) = V' /\ V' \in Int
      <4>1. Read \in States /\ Read.liq \in Int /\ Read.price \in Int /\ Read.fee \in Nat
        BY <1>0, Typed, StateTypes
      <4>2. /\ Value(Read) = Read.liq + Read.price + Dev(chain.src) + Read.fee
            /\ Dev(chain.src) = 0
        BY <1>0, <2>2, <4>1, StateTypes DEF Dev
      <4>3. V' = Read.liq + Read.price + Read.fee
        BY <1>3 DEF Measure, Written, V
      <4> QED BY <4>1, <4>2, <4>3
    <3>2. row' \in Rows /\ Exact(row'.hwm, row'.entry, known', V', truth')
      BY <2>1 DEF Measured
    <3>3. ~May("shown") => row'.armed = truth'.earned
      BY <2>1 DEF Measured
    <3>4. truth'.earned \in BOOLEAN
      BY RecordsTyped DEF RecordTypes, Truths
    <3>5. Verdict(row', V') = "drawdown"
      BY <1>3, <2>2, <3>1
    <3>6. truth'.gap \in Int /\ truth'.gap > IF truth'.earned \/ May("shown") THEN Second ELSE First
      BY <2>2, <3>1, <3>2, <3>3, <3>4, <3>5, VerdictMeans
    <3> QED BY <2>1, <2>2, <3>6
  <2> QED BY <1>3, <2>1, <2>2, MinimumMeans
<1> QED BY <1>1, <1>2, <1>3

LEMMA ReasonStep == ASSUME TInv, Kept, KInv, [Next]_vars PROVE Reason'
<1>0. /\ setup' = setup /\ setup \in Setups /\ truth \in Truths /\ flow \in FlowStates
      /\ (May("shown")' <=> May("shown"))
      /\ NoFlow.at = "none" /\ truth.paid \in Int
  BY KeptSteps, MayStays, Typed, Parts DEF RestTypes, NoFlow
<1>1. CASE UNCHANGED vars
  BY <1>0, <1>1 DEF vars, KInv, Reason
<1> SUFFICES ASSUME stopped = "no" PROVE Reason'
  BY <1>1, Halted
<1>2. (stopped' = "drawdown" /\ setup'.deviation = 0) =>
        /\ truth'.gap \in Int
        /\ truth'.gap > IF truth'.earned \/ May("shown")' THEN Second ELSE First
  BY <1>0, Fires
<1>3. stopped' = "minimum" => minimum' # None /\ flow'.at = "none"
  BY Fires
<1>4. ASSUME "withdraw" \in setup.flows, minimum' # None
      PROVE  truth'.paid >= IF flow'.kind = "withdraw" /\ flow'.at \in {"landed", "rebased"} THEN -1 ELSE 0
  <2>1. ~May("rebalance")
    BY <1>0, <1>4, KeptFacts
  <2>2. minimum # None =>
          truth.paid >= IF flow.kind = "withdraw" /\ flow.at \in {"landed", "rebased"} THEN -1 ELSE 0
    BY <1>4 DEF KInv, Reason
  <2> USE DEF still, At
  <2>3. CASE truth'.paid = truth.paid /\ minimum' = minimum /\ flow' = flow
    BY <1>4, <2>2, <2>3
  <2>4. CASE Begin
    <3>1. truth' = truth /\ minimum' = minimum /\ flow.at = "none" /\ flow'.at = "begun"
      BY <2>4 DEF Begin
    <3> QED BY <1>0, <1>4, <2>2, <3>1
  <2>5. CASE Lands
    <3>1. /\ minimum' = minimum /\ flow.at = "begun" /\ flow'.at = "landed"
          /\ flow'.kind = flow.kind /\ truth'.paid = truth.paid + Sign
      BY <1>0, <2>5 DEF Lands, FlowStates, Paid, Truths
    <3> QED BY <1>0, <1>4, <2>2, <3>1 DEF Sign
  <2>6. CASE Settle
    <3>1. minimum' = minimum /\ flow.kind # "withdraw" /\ flow' = NoFlow
      BY <2>6 DEF Settle
    <3>2. truth'.paid = truth.paid
      <4>1. CASE flow.kind = "measured"
        BY <2>6, <4>1, Measurements DEF Measurement, Measured
      <4>2. CASE flow.kind # "measured"
        BY <1>0, <2>6, <4>2, TransferredFields DEF Settle, SettleLegacy
      <4> QED BY <4>1, <4>2
    <3> QED BY <1>0, <1>4, <2>2, <3>1, <3>2
  <2>7. CASE Rebase
    <3>1. /\ minimum' = minimum /\ flow.at = "landed" /\ flow.kind = "withdraw"
          /\ flow'.at = "rebased" /\ flow'.kind = "withdraw" /\ truth'.paid = truth.paid
      BY <1>0, <2>7, TransferredFields DEF Rebase, FlowStates
    <3> QED BY <1>4, <2>2, <3>1
  <2>8. CASE MeasureAgain
    BY <1>4, <2>8 DEF MeasureAgain
  <2>9. CASE Measurement /\ ~MeasureAgain /\ ~Settle
    <3>1. truth'.paid = truth.paid /\ minimum' = minimum /\ flow' = flow
      BY <2>9, Measurements DEF Measured, Measurement, Baseline, Confirm, TakeSnapshot
    <3> QED BY <2>3, <3>1
  <2>10. CASE (Baseline \/ Confirm) /\ ~Measurement
    <3>1. truth' = truth /\ minimum' = minimum /\ flow' = flow
      BY <2>10 DEF Baseline, Confirm, Measurement
    <3> QED BY <2>3, <3>1
  <2>11. CASE TakeSnapshot /\ Applied
    <3>1. truth'.paid = truth.paid /\ minimum' = minimum /\ flow' = flow
      BY <1>0, <2>11 DEF TakeSnapshot, Truths
    <3> QED BY <2>3, <3>1
  <2>12. CASE Click
    <3>1. truth'.paid = truth.paid /\ minimum' = minimum /\ flow' = flow
      BY <1>0, <2>12 DEF Click, Truths
    <3> QED BY <2>3, <3>1
  <2>13. StartRebalance \/ Reopen \/ CarryOver => May("rebalance")
    BY DEF StartRebalance, Reopen, CarryOver, KInv, Frame
  <2>14. (\/ UNCHANGED vars \/ StartTick \/ CheckBefore \/ CheckAfter \/ ReadState \/ NoSnapshot
          \/ SnapshotDue \/ Claim \/ Move \/ FastFilter) =>
          truth' = truth /\ minimum' = minimum /\ flow' = flow
    BY DEF vars, StartTick, CheckBefore, CheckAfter, Check, ReadState, NoSnapshot, SnapshotDue,
       Claim, Move, FastFilter
  <2> QED BY <2>1, <2>3, <2>4, <2>5, <2>6, <2>7, <2>8, <2>9, <2>10, <2>11, <2>12, <2>13, <2>14,
             KeptSteps DEF Measurement
<1> QED BY <1>0, <1>2, <1>3, <1>4 DEF Reason

-----------------------------------------------------------------------------
(* The theorems.                                                            *)

Inv == TInv /\ (Kept => KInv)

LEMMA InvInit == Init => Inv
<1> SUFFICES ASSUME Init, Kept PROVE KInv
  BY TInvInit DEF Inv
<1>0. /\ TInv /\ setup \in Setups /\ flow.at = "none" /\ bot.at = "wait" /\ bot.state = None
      /\ chain.fee = 0 /\ stopped = "no" /\ click = None /\ minimum = setup.minimum
      /\ truth = [paid |-> 0, at |-> 0, gap |-> IF May("net") THEN 0 ELSE None,
                  gain |-> None, earned |-> FALSE, asked |-> 0]
  BY TInvInit DEF Init, NoFlow, Waiting
<1>1. /\ row.hwm = None /\ row.entry = None /\ row.ratio = None /\ row.eratio = None
      /\ row.armed = FALSE /\ row.seen = IF May("net") THEN 0 ELSE None
  BY DEF Init, FreshRow
<1>2. snap # None => May("net") /\ snap = OpeningSnap
  BY DEF Init
<1>3. Resting
  BY <1>0 DEF Resting
<1>4. Frame
  BY <1>0 DEF Frame
<1>5. NoFees
  BY <1>0, <1>2 DEF NoFees, OpeningSnap
<1>6. References
  <2>1. Sound(row, known, V, truth)
    BY <1>0, <1>1 DEF Sound, Open
  <2>2. Opening(row, truth)
    BY <1>0, <1>1, StopAssumption DEF Opening
  <2> QED BY <1>0, <1>1, <1>3, <2>1, <2>2 DEF References
<1>7. Above /\ Arming
  <2>1. truth.gap = (IF May("net") THEN 0 ELSE None) /\ truth.earned = FALSE
    BY <1>0
  <2>2. Above
    BY <2>1 DEF Above
  <2>3. Arming
    BY <1>1, <1>3, <2>1 DEF Arming
  <2> QED BY <2>2, <2>3
<1>8. Clicks
  <2>1. snap # None => V = 0
    BY <1>2 DEF V, OpeningSnap
  <2> QED BY <1>0, <2>1 DEF Clicks
<1>9. Reason
  BY <1>0 DEF Reason
<1> QED BY <1>4, <1>5, <1>6, <1>7, <1>8, <1>9 DEF KInv

LEMMA InvStep == Inv /\ [Next]_vars => Inv'
<1> SUFFICES ASSUME Inv, [Next]_vars PROVE Inv'
  OBVIOUS
<1>1. TInv /\ TInv' /\ (Kept' <=> Kept)
  BY TInvStep, KeptSteps, Frozen, KeptStays DEF Inv
<1>2. ASSUME Kept PROVE KInv'
  <2>1. TInv /\ KInv /\ Frame
    BY <1>2 DEF Inv, KInv
  <2> QED BY <1>2, <2>1, FrameStep, NoFeesStep, ReferencesStep, ClicksStep, ReasonStep DEF KInv
<1> QED BY <1>1, <1>2 DEF Inv

LEMMA InvMeans == ASSUME Inv PROVE ReferencesExact /\ ArmedByGain /\ NoFalseStop
<1>1. ReferencesExact
  <2> SUFFICES ASSUME Kept, row # None, snap # None
               PROVE  /\ row.hwm # None => row.hwm - Dev(known) - (StopValue - Dev(snap.src)) = truth.gap
                      /\ row.entry # None => (StopValue - Dev(snap.src)) - (row.entry - Dev(known)) = truth.gain
    BY DEF ReferencesExact
  <2>1. TInv /\ KInv /\ setup \in Setups /\ snap \in Snapshots
    BY Typed DEF Inv
  <2>2. StopValue - Dev(snap.src) = V
    <3>1. StopValue = V + Dev(snap.src) /\ V \in Int /\ Dev(snap.src) \in Int
      BY <2>1, SnapValues, Deviations
    <3> QED BY <3>1
  <2>3. CASE Resting
    BY <2>1, <2>2, <2>3 DEF KInv, References, Sound, Exact
  <2>4. CASE ~Resting
    BY <2>1, <2>4 DEF KInv, References, Frame, Resting
  <2> QED BY <2>3, <2>4
<1>2. ArmedByGain
  BY DEF ArmedByGain, Inv, KInv, Arming, Frame, Resting
<1>3. NoFalseStop
  <2> SUFFICES ASSUME Kept, setup.deviation = 0
               PROVE  CASE stopped = "drawdown" -> truth.gap > IF truth.earned \/ May("shown") THEN Second ELSE First
                        [] stopped = "minimum" -> "withdraw" \in setup.flows => truth.paid >= 0
                        [] OTHER -> TRUE
    BY DEF NoFalseStop
  <2>1. stopped = "drawdown" => truth.gap > IF truth.earned \/ May("shown") THEN Second ELSE First
    BY DEF Inv, KInv, Reason
  <2>2. stopped = "minimum" => ("withdraw" \in setup.flows => truth.paid >= 0)
    BY DEF Inv, KInv, Reason
  <2>3. CASE stopped = "drawdown"
    BY <2>1, <2>3
  <2>4. CASE stopped = "minimum"
    BY <2>2, <2>4
  <2> QED BY <2>3, <2>4
<1> QED BY <1>1, <1>2, <1>3

(* The distances between the newest measurement and the references are what *)
(* the market made of them, through any number of flows, rebalances,        *)
(* reinvested fees, resets and changes of the price source.                 *)
THEOREM Exactness == Spec => []ReferencesExact
BY InvInit, InvStep, InvMeans, PTL DEF Spec

(* Stage 2 is armed by the gain alone, for any thresholds.                  *)
THEOREM Armament == Spec => []ArmedByGain
BY InvInit, InvStep, InvMeans, PTL DEF Spec

(* The stop fires because of the market alone.                              *)
THEOREM NoFalseExit == Spec => []NoFalseStop
BY InvInit, InvStep, InvMeans, PTL DEF Spec
=============================================================================
