---------------------------- MODULE TxSubmission ----------------------------
(***************************************************************************)
(* What submitAndConfirm() (src/core/tx-queue-client.js, doc comment of    *)
(* the function) promises its callers, without queue, polling or time: a   *)
(* call ends once, success means that the transaction is on chain, a plain *)
(* error that it never will be, and only an error marked `unconfirmed`     *)
(* leaves the fate open.                                                   *)
(***************************************************************************)
CONSTANT Calls

VARIABLES
  outcome,  \* what the caller was told
  fate      \* what becomes of the transaction

vars == <<outcome, fate>>

Outcomes == {"ok", "unconfirmed", "failed"}
Fates == {"open", "landed", "dead"}

Init ==
  /\ outcome = [c \in Calls |-> "idle"]
  /\ fate = [c \in Calls |-> "open"]

(* Fates are decided once, for any number of transactions at a time.        *)
FateStep ==
  /\ fate' \in [Calls -> Fates]
  /\ \A c \in Calls : fate[c] # "open" => fate'[c] = fate[c]

Begin(c) ==
  /\ outcome[c] = "idle"
  /\ outcome' = [outcome EXCEPT ![c] = "polling"]

Return(c) ==
  /\ outcome[c] \in {"idle", "polling"}
  /\ \E o \in Outcomes :
       /\ outcome' = [outcome EXCEPT ![c] = o]
       /\ o = "ok" => fate'[c] = "landed"
       /\ o = "failed" => fate'[c] = "dead"

Next ==
  /\ FateStep
  /\ \/ UNCHANGED outcome
     \/ \E c \in Calls : Begin(c) \/ Return(c)

Spec == Init /\ [][Next]_vars
=============================================================================
