------------------------------ MODULE MCTxQueue -----------------------------
(* TLC instances of TxQueue: tickets as model values.                       *)
EXTENDS TxQueue, TLC

NoFaults == {}
Symmetry == Permutations(Tickets)
=============================================================================
