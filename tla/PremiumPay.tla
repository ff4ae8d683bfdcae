----------------------------- MODULE PremiumPay -----------------------------
(***************************************************************************)
(* The hourly premium payment of a fork (src/core/premium/premium-pay.js): *)
(* a script started by cron six times an hour and once by POST /enable     *)
(* (src/bots/settings/routes/premium.js), the switches it obeys            *)
(* (src/lib/premium-auto-pay-store.js) and its payment log.  The           *)
(* submission of a payment is TxSubmission, the contract of                *)
(* submitAndConfirm.                                                       *)
(***************************************************************************)
EXTENDS Naturals

CONSTANTS
  Runs,          \* processes of the script that may be alive at a time
  Hours,         \* hour ids
  Payments,      \* signed payment transactions
  NoRow,         \* premium_pay_log has no row for the hour
  NoPay,         \* the run has sent nothing
  BlockhashTTL,  \* how long the chain accepts a payment, in ticks
  Grace,         \* UNCONFIRMED_GRACE_MS in ticks
  FaultSets      \* sets of failures that may occur together

(* "kill": execFile's 25 s timeout in POST /enable (or a reboot) ends a run.*)
(* "plainError": submitAndConfirm breaks its promise and throws a plain     *)
(* error for a payment that can still land, as it does when a poll of the   *)
(* queue is rejected or Nexus restarts (TxQueue, "pollThrow", "restart").   *)
ASSUME PayAssumption ==
  /\ NoRow \notin Payments /\ NoPay \notin Payments
  /\ BlockhashTTL \in Nat /\ Grace \in Nat
  /\ FaultSets \subseteq SUBSET {"kill", "plainError"}

(* 5 minutes against 60 to 90 seconds.                                      *)
ASSUME GraceAssumption == BlockhashTTL <= Grace

VARIABLES
  faults,       \* the failures of this behaviour; never changes
  enabled,      \* premium_settings.enabled
  notified,     \* premium_settings.pay_failure_notified
  row,          \* premium_pay_log: signature of the hour's row
  confirmed,    \* premium_pay_log: confirmed_at is set
  graceLeft,    \* countdown from sent_at of the row
  pc, hour,     \* per run: where it is, the hour it pays
  already,      \* per run: the row it has read
  paying,       \* per run: the payment it sends
  outcome, fate,\* per payment: TxSubmission
  payHour,      \* per payment: the hour in its memo
  validLeft     \* per payment: countdown of its blockhash

storeVars == <<enabled, notified>>
logVars == <<row, confirmed, graceLeft>>
runVars == <<pc, hour, already, paying>>
payVars == <<outcome, fate, payHour, validLeft>>
vars == <<faults, storeVars, logVars, runVars, payVars>>

Submission == INSTANCE TxSubmission WITH Calls <- Payments

Steps == {"idle", "gate", "bot", "check", "balance", "sign", "await"}

TypeOK ==
  /\ faults \in FaultSets
  /\ enabled \in BOOLEAN /\ notified \in BOOLEAN
  /\ row \in [Hours -> Payments \cup {NoRow}]
  /\ confirmed \in [Hours -> BOOLEAN]
  /\ graceLeft \in [Hours -> 0..Grace]
  /\ pc \in [Runs -> Steps]
  /\ hour \in [Runs -> Hours]
  /\ already \in [Runs -> Payments \cup {NoRow}]
  /\ paying \in [Runs -> Payments \cup {NoPay}]
  /\ outcome \in [Payments -> {"idle", "polling"} \cup Submission!Outcomes]
  /\ fate \in [Payments -> Submission!Fates]
  /\ payHour \in [Payments -> Hours]
  /\ validLeft \in [Payments -> 0..BlockhashTTL]

Init ==
  /\ faults \in FaultSets
  /\ enabled = FALSE /\ notified = FALSE
  /\ row = [h \in Hours |-> NoRow]
  /\ confirmed = [h \in Hours |-> FALSE]
  /\ graceLeft = [h \in Hours |-> 0]
  /\ pc = [r \in Runs |-> "idle"]
  /\ hour \in [Runs -> Hours]
  /\ already = [r \in Runs |-> NoRow]
  /\ paying = [r \in Runs |-> NoPay]
  /\ Submission!Init
  /\ payHour \in [Payments -> Hours]
  /\ validLeft = [p \in Payments |-> 0]

-----------------------------------------------------------------------------
(* The switches.                                                            *)

(* POST /enable.  The payment run it starts is a Begin like any other.      *)
Enable ==
  /\ enabled' = TRUE /\ notified' = FALSE
  /\ UNCHANGED <<logVars, runVars, payVars>>

(* POST /disable, a manual stop of the liquidity bot, and the version       *)
(* kill switch of the premium daemon.                                       *)
Disable ==
  /\ enabled /\ enabled' = FALSE
  /\ UNCHANGED <<notified, logVars, runVars, payVars>>

-----------------------------------------------------------------------------
(* One run of the script, split at its awaits.  A run with --hour may pay   *)
(* any hour.                                                                *)

Goto(r, step) == pc' = [pc EXCEPT ![r] = step]
End(r) == /\ Goto(r, "idle")
          /\ already' = [already EXCEPT ![r] = NoRow]
          /\ paying' = [paying EXCEPT ![r] = NoPay]
          /\ UNCHANGED hour

Begin(r) ==
  /\ pc[r] = "idle"
  /\ \E h \in Hours : hour' = [hour EXCEPT ![r] = h]
  /\ Goto(r, "gate")
  /\ UNCHANGED <<storeVars, logVars, already, paying, payVars>>

(* After reportVersionCheck(): the pricing (which may be missing), the      *)
(* user's switch, the outage pause.                                         *)
Gate(r) ==
  /\ pc[r] = "gate"
  /\ \/ enabled /\ Goto(r, "bot") /\ UNCHANGED <<hour, already, paying>>
     \/ End(r)
  /\ UNCHANGED <<storeVars, logVars, payVars>>

(* After systemctl: an inactive bot ends the run; then the row of the hour  *)
(* is read.                                                                 *)
Paid(h) == row[h] # NoRow /\ confirmed[h]
ReadLog(r) ==
  /\ pc[r] = "bot"
  /\ \/ End(r)
     \/ /\ ~Paid(hour[r])
        /\ already' = [already EXCEPT ![r] = row[hour[r]]]
        /\ Goto(r, IF row[hour[r]] = NoRow THEN "balance" ELSE "check")
        /\ UNCHANGED <<hour, paying>>
  /\ UNCHANGED <<storeVars, logVars, payVars>>

(* What getSignatureStatuses may answer about a payment (external): before  *)
(* the grace period is over the node may not know it yet.                   *)
Answers(p, h) ==
  (IF fate[p] = "landed" THEN {"confirmed"} ELSE {})
    \cup (IF fate[p] = "dead" THEN {"failed", "unknown"} ELSE {})
    \cup (IF fate[p] = "open" \/ graceLeft[h] > 0 THEN {"pending", "unknown"} ELSE {})

StillOpenNoGrace(answer, h) == answer = "pending"
StillOpen(answer, h) == answer = "pending" \/ (answer = "unknown" /\ graceLeft[h] > 0)

(* fetchSignatureOutcome() of an open row.  An error of the query ends the  *)
(* run, as does a payment that may still land.                              *)
CheckOutcome(r) ==
  LET h == hour[r] IN
  /\ pc[r] = "check"
  /\ \/ End(r) /\ UNCHANGED <<storeVars, logVars>>
     \/ \E answer \in Answers(already[r], h) :
          IF answer = "confirmed"
            THEN /\ confirmed' = [confirmed EXCEPT ![h] = TRUE]
                 /\ notified' = FALSE
                 /\ End(r) /\ UNCHANGED <<enabled, row, graceLeft>>
            ELSE IF StillOpen(answer, h)
            THEN End(r) /\ UNCHANGED <<storeVars, logVars>>
            ELSE Goto(r, "balance") /\ UNCHANGED <<storeVars, logVars, hour, already, paying>>
  /\ UNCHANGED payVars

(* After the balance query: a wallet that cannot pay switches the automatic *)
(* payment off and reports once; a missing destination or a failed query    *)
(* ends the run.                                                            *)
CheckBalance(r) ==
  /\ pc[r] = "balance"
  /\ \/ Goto(r, "sign") /\ UNCHANGED <<storeVars, hour, already, paying>>
     \/ enabled' = FALSE /\ notified' = TRUE /\ End(r)
     \/ End(r) /\ UNCHANGED storeVars
  /\ UNCHANGED <<logVars, payVars>>

(* After getLatestBlockhash(): sign, and hand over to submitAndConfirm.     *)
Send(r) ==
  /\ pc[r] = "sign"
  /\ \E p \in Payments :
       /\ Submission!Begin(p)
       /\ payHour' = [payHour EXCEPT ![p] = hour[r]]
       /\ validLeft' = [validLeft EXCEPT ![p] = BlockhashTTL]
       /\ paying' = [paying EXCEPT ![r] = p]
  /\ Goto(r, "await")
  /\ UNCHANGED <<storeVars, logVars, fate, hour, already>>

(* The upsert of the row, ON CONFLICT DO UPDATE.                            *)
WriteRow(r, conf) ==
  /\ row' = [row EXCEPT ![hour[r]] = paying[r]]
  /\ confirmed' = [confirmed EXCEPT ![hour[r]] = conf]
  /\ graceLeft' = [graceLeft EXCEPT ![hour[r]] = Grace]

(* A row is written for an open outcome too, with confirmed_at NULL.        *)
UnconfirmedForgotten(r) == UNCHANGED logVars
UnconfirmedPaid(r) == WriteRow(r, TRUE)
Unconfirmed(r) == WriteRow(r, FALSE)

(* submitAndConfirm() returned or threw.                                    *)
Returned(r) ==
  LET p == paying[r] IN
  /\ pc[r] = "await"
  /\ UNCHANGED <<enabled, fate, payHour, validLeft>>
  /\ \/ Submission!Return(p)
     \/ "plainError" \in faults /\ outcome' = [outcome EXCEPT ![p] = "failed"]
  /\ CASE outcome'[p] = "ok" -> WriteRow(r, TRUE) /\ notified' = FALSE
       [] outcome'[p] = "unconfirmed" -> Unconfirmed(r) /\ UNCHANGED notified
       [] outcome'[p] = "failed" -> notified' = TRUE /\ UNCHANGED logVars
  /\ End(r)

(* The process is killed; the payment it handed over goes on without it.    *)
Kill(r) ==
  /\ "kill" \in faults
  /\ pc[r] # "idle"
  /\ End(r)
  /\ UNCHANGED <<storeVars, logVars, payVars>>

-----------------------------------------------------------------------------
(* The chain and time (external).                                           *)

Decide(p) ==
  /\ outcome[p] # "idle" /\ fate[p] = "open"
  /\ \/ validLeft[p] > 0 /\ fate' = [fate EXCEPT ![p] = "landed"]
     \/ fate' = [fate EXCEPT ![p] = "dead"]
  /\ UNCHANGED <<storeVars, logVars, runVars, outcome, payHour, validLeft>>

Tick ==
  /\ \E p \in Payments : validLeft[p] > 0 \/ \E h \in Hours : graceLeft[h] > 0
  /\ validLeft' = [p \in Payments |-> IF validLeft[p] = 0 THEN 0 ELSE validLeft[p] - 1]
  /\ graceLeft' = [h \in Hours |-> IF graceLeft[h] = 0 THEN 0 ELSE graceLeft[h] - 1]
  /\ UNCHANGED <<storeVars, row, confirmed, runVars, outcome, fate, payHour>>

RunStep(r) ==
  \/ Gate(r) \/ ReadLog(r) \/ CheckOutcome(r) \/ CheckBalance(r) \/ Send(r) \/ Returned(r)

Next ==
  /\ UNCHANGED faults
  /\ \/ Enable \/ Disable
     \/ \E r \in Runs : Begin(r) \/ RunStep(r) \/ Kill(r)
     \/ \E p \in Payments : Decide(p)
     \/ Tick

Spec == Init /\ [][Next]_vars

-----------------------------------------------------------------------------
(* Properties.                                                              *)

(* Runs do not overlap, none is killed, submitAndConfirm keeps its promise. *)
Orderly == faults = {} /\ \A r, s \in Runs : r = s

(* No hour is paid twice, by whatever runs (routes/premium.js, line 45).    *)
NeverPaidTwice ==
  \A p, q \in Payments :
    fate[p] = "landed" /\ fate[q] = "landed" /\ payHour[p] = payHour[q] => p = q

(* An hour is paid exactly once at most, although every run may pay and     *)
(* every payment may end unconfirmed (header of premium-pay.js).            *)
AtMostOncePaid == Orderly => NeverPaidTwice

(* A payment that landed or still can is never forgotten: the log names it, *)
(* or a run is waiting for its outcome.                                     *)
Live(p) ==
  \/ fate[p] = "landed"
  \/ outcome[p] # "idle" /\ fate[p] = "open" /\ validLeft[p] > 0
LivePaymentTracked ==
  Orderly => \A p \in Payments : Live(p) =>
    \/ row[payHour[p]] = p
    \/ \E r \in Runs : pc[r] = "await" /\ paying[r] = p /\ hour[r] = payHour[p]

(* A confirmed row names a payment that is on chain: the hour counts as     *)
(* paid only if the master can see the money.                               *)
ConfirmedRowLanded == \A h \in Hours : Paid(h) => fate[row[h]] = "landed"
=============================================================================
