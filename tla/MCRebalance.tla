----------------------------- MODULE MCRebalance -----------------------------
(* TLC instances of Rebalance: pools with and without USDC, and what may    *)
(* happen to them.                                                          *)
EXTENDS Rebalance

Around(volatile, may, unseen, noFee, crashAt, events) ==
  [volatile |-> volatile, may |-> may, unseen |-> unseen, noFee |-> noFee,
   crashAt |-> crashAt, events |-> events]

NotTopFee == Awaits \ {"topFee"}

(* One group for each reason why an opening is late or a rest is left.      *)
Failing(v) == Around(v, {"burn", "fail"}, {}, {}, {}, {"fees", "exit"})
Shared(v) == Around(v, {"burn", "fail"}, {}, {}, {}, {"others", "force", "forceTopUp"})
CutOff(v) == Around(v, {"burn", "fail", "read"}, {}, {}, {}, {"forceTopUp"})
ByHand(v) == Around(v, {"fail"}, {}, {}, {}, {"manual", "force", "forceTopUp"})
Refusing(v) == Around(v, {"refuse", "burn"}, {"close"}, {"openFee", "rFee", "sweepFee"}, {}, {})
Unbooked(v) == Around(v, {"refuse"}, {"close"}, FeeAwaits \ {"topFee"}, {}, {})
Claiming(v) == Around(v, {"refuse", "fail"}, {"claim"}, {}, {}, {"fees"})
Dying(v) == Around(v, {}, {"close"}, {}, NotTopFee, {})
Blind(v) == Around(v, {}, {"open", "payIn", "topUp"}, {"topFee"}, {"price"}, {})
Busy == Around(TRUE, {"fail"}, {}, {}, {}, {"others", "meanwhile"})

Groups(v) == {Failing(v), Shared(v), CutOff(v), ByHand(v), Refusing(v), Unbooked(v),
              Claiming(v), Dying(v)}
AllCircumstances == Groups(TRUE) \cup Groups(FALSE) \cup {Blind(FALSE), Busy}

=============================================================================
