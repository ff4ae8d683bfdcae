------------------------------ MODULE MCTsExit ------------------------------
(* TLC instances of TsExit: positions, configurations of an exit, and what  *)
(* may happen around it.                                                    *)
EXTENDS TsExit

AllConfigs == [volatile : BOOLEAN, autoSwap : BOOLEAN, sendTo : BOOLEAN]
SendingCoins == {c \in AllConfigs : ~c.autoSwap /\ c.sendTo}

TwoAndOne == [s \in Sides |-> IF s = "A" THEN 2 ELSE 1]

(* Between the legs of closePosition() the amounts are in memory only.      *)
SafeCrashes == Awaits \ {"burn", "book"}

Around(fee, thin, crashAt, unseen, late) ==
  [fee |-> fee, thin |-> thin, crashAt |-> crashAt, unseen |-> unseen, late |-> late]

Calm == Around(0, FALSE, {}, {}, FALSE)
Harmless == Around(0, FALSE, SafeCrashes, {}, FALSE)
Thin == Around(0, TRUE, SafeCrashes, {}, TRUE)
Everything == Around(1, TRUE, Awaits, Legs, TRUE)
AllCircumstances == {Harmless, Thin, Everything}
JustCalm == {Calm}
=============================================================================
