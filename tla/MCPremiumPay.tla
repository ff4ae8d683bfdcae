---------------------------- MODULE MCPremiumPay ----------------------------
(* TLC instances of PremiumPay: runs, hours and payments as model values.   *)
EXTENDS PremiumPay, TLC

Symmetry == Permutations(Payments) \cup Permutations(Hours)
=============================================================================
