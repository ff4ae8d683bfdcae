---------------------------- MODULE MCCronRunner ----------------------------
(* TLC instances of CronRunner.                                             *)
EXTENDS CronRunner

Calm == {"log"}
Harsh == {"kill", "gone"}
AllFaults == {Calm, {}, Harsh}
=============================================================================
