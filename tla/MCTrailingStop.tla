--------------------------- MODULE MCTrailingStop ---------------------------
(* TLC instances of TrailingStop: what happens to the position.             *)
EXTENDS TrailingStop

With(flowKinds, circumstances, deviation, floor, m, f) ==
  [flows |-> flowKinds, may |-> circumstances, deviation |-> deviation, minimum |-> floor,
   maxMoves |-> m, maxFlows |-> f]

(* Where references are promised to be exact.                               *)
Deposits == With({"measured", "legacy"}, {}, 0, None, 4, 2)
Withdrawals == With({"withdraw"}, {}, 0, 0, 4, 2)
Rebalanced == With({"measured"}, {"rebalance"}, 0, None, 4, 2)
Clicked == With({}, {"click", "fees"}, 0, None, 4, 0)
Opened == With({}, {"net", "rebalance"}, 0, None, 4, 1)
Sources == With({"measured"}, {}, 1, None, 4, 1)
(* Where they are not; what falls is sold all the same.                     *)
Shown == With({}, {"shown", "rebalance", "fees"}, 0, None, 3, 1)
Overlapping == With({"measured", "withdraw"}, {"overlap"}, 0, None, 2, 1)
Dying == With({"withdraw"}, {"die", "rebalance"}, 0, None, 2, 1)
ToppedUp == With({"legacy"}, {"topUp", "rebalance", "forced"}, 0, None, 2, 2)
AllSetups == {Deposits, Withdrawals, Rebalanced, Clicked, Opened, Sources,
              Shown, Overlapping, Dying, ToppedUp}
=============================================================================
