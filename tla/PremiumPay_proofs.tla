-------------------------- MODULE PremiumPay_proofs -------------------------
(***************************************************************************)
(* Proofs about PremiumPay, for any number of hours and payments and any   *)
(* grace period that outlives a blockhash, as long as runs do not overlap, *)
(* are not killed, and submitAndConfirm keeps its promise (Orderly).       *)
(***************************************************************************)
EXTENDS PremiumPay, TLAPS

(* A run that awaits a submission, and the payments in that state.          *)
AwaitOK ==
  /\ \A r \in Runs : pc[r] = "await" =>
       /\ paying[r] \in Payments
       /\ outcome[paying[r]] = "polling"
       /\ payHour[paying[r]] = hour[r]
  /\ \A p \in Payments : outcome[p] = "polling" =>
       \E r \in Runs : pc[r] = "await" /\ paying[r] = p
  /\ \A p \in Payments : outcome[p] = "idle" => fate[p] = "open"

(* A row names a payment of its hour; an open one cannot land once its      *)
(* grace period is over.                                                    *)
RowOK ==
  \A h \in Hours : row[h] # NoRow =>
    /\ outcome[row[h]] # "idle" /\ payHour[row[h]] = h
    /\ ~confirmed[h] => validLeft[row[h]] <= graceLeft[h]

(* A settled payment that may matter is in the log.                         *)
SettledInLog ==
  \A p \in Payments : Live(p) /\ outcome[p] # "polling" => row[payHour[p]] = p

(* A run that is going to pay has an hour without any other live payment.   *)
Clear(r) ==
  \A p \in Payments : Live(p) /\ payHour[p] = hour[r] => pc[r] = "await" /\ p = paying[r]
PayersClear == \A r \in Runs : pc[r] \in {"balance", "sign", "await"} => Clear(r)

CheckOK ==
  \A r \in Runs : pc[r] = "check" =>
    already[r] = row[hour[r]] /\ row[hour[r]] # NoRow /\ ~confirmed[hour[r]]

(* A run only waits for a payment it has sent.                              *)
AwaitsPayment == \A r \in Runs : pc[r] = "await" => paying[r] \in Payments
TInv == TypeOK /\ AwaitsPayment

Inv == AwaitOK /\ RowOK /\ SettledInLog /\ PayersClear /\ CheckOK
IInv == TypeOK /\ Inv

(* What the submission of a payment may answer.                             *)
LEMMA ReturnedCases ==
  ASSUME TInv, NEW r \in Runs, Returned(r)
  PROVE  /\ pc[r] = "await" /\ paying[r] \in Payments
         /\ outcome' = [outcome EXCEPT ![paying[r]] = outcome'[paying[r]]]
         /\ UNCHANGED <<enabled, fate, payHour, validLeft>>
         /\ End(r)
         /\ \/ /\ outcome'[paying[r]] = "ok" /\ fate[paying[r]] = "landed"
               /\ WriteRow(r, TRUE) /\ notified' = FALSE
            \/ /\ outcome'[paying[r]] = "unconfirmed"
               /\ WriteRow(r, FALSE) /\ UNCHANGED notified
            \/ /\ outcome'[paying[r]] = "failed" /\ UNCHANGED logVars /\ notified' = TRUE
               /\ faults = {} => fate[paying[r]] = "dead"
<1> DEFINE p == paying[r]
<1>1. /\ pc[r] = "await" /\ p \in Payments /\ End(r)
      /\ UNCHANGED <<enabled, fate, payHour, validLeft>>
  BY DEF Returned, TInv, AwaitsPayment
<1>2. PICK o \in Submission!Outcomes :
        /\ outcome' = [outcome EXCEPT ![p] = o]
        /\ o = "ok" => fate[p] = "landed"
        /\ o = "failed" /\ faults = {} => fate[p] = "dead"
  BY <1>1 DEF Returned, Submission!Return, Submission!Outcomes
<1>3. outcome'[p] = o
  BY <1>1, <1>2 DEF TInv, TypeOK
<1>4. CASE o = "ok"
  BY <1>1, <1>2, <1>3, <1>4 DEF Returned
<1>5. CASE o = "unconfirmed"
  BY <1>1, <1>2, <1>3, <1>5 DEF Returned, Unconfirmed
<1>6. CASE o = "failed"
  BY <1>1, <1>2, <1>3, <1>6 DEF Returned
<1> QED BY <1>2, <1>4, <1>5, <1>6 DEF Submission!Outcomes

(* Every variable keeps its type, whatever fails.                           *)
LEMMA TypeStep == TInv /\ [Next]_vars => TInv'
<1> SUFFICES ASSUME TInv, [Next]_vars PROVE TInv'
  OBVIOUS
<1>0. faults' = faults
  BY DEF Next, vars
<1> USE PayAssumption, <1>0 DEF TInv, AwaitsPayment
<1>1. CASE Enable \/ Disable
  BY <1>1 DEF Enable, Disable, TypeOK, logVars, runVars, payVars
<1>2. ASSUME NEW r \in Runs, Begin(r) \/ Gate(r) \/ Kill(r) PROVE TInv'
  BY <1>2 DEF Begin, Gate, Kill, Goto, End, TypeOK, Steps, storeVars, logVars, payVars
<1>3. ASSUME NEW r \in Runs, ReadLog(r) PROVE TInv'
  BY <1>3 DEF ReadLog, Goto, End, TypeOK, Steps, storeVars, logVars, payVars
<1>4. ASSUME NEW r \in Runs, CheckOutcome(r) PROVE TInv'
  <2>1. /\ UNCHANGED payVars /\ hour' = hour
        /\ End(r) \/ (Goto(r, "balance") /\ UNCHANGED <<already, paying>>)
    BY <1>4 DEF CheckOutcome, End
  <2>2. /\ enabled' \in BOOLEAN /\ notified' \in BOOLEAN
        /\ row' = row /\ confirmed' \in [Hours -> BOOLEAN] /\ graceLeft' = graceLeft
    <3>1. CASE UNCHANGED <<storeVars, logVars>>
      BY <3>1 DEF TypeOK, storeVars, logVars
    <3>2. CASE /\ confirmed' = [confirmed EXCEPT ![hour[r]] = TRUE]
               /\ notified' = FALSE /\ UNCHANGED <<enabled, row, graceLeft>>
      BY <3>2 DEF TypeOK
    <3> QED BY <1>4, <3>1, <3>2 DEF CheckOutcome
  <2> QED BY <2>1, <2>2 DEF TypeOK, payVars, End, Goto, Steps
<1>5. ASSUME NEW r \in Runs, CheckBalance(r) PROVE TInv'
  <2>1. /\ enabled' \in BOOLEAN /\ notified' \in BOOLEAN
        /\ (Goto(r, "sign") /\ UNCHANGED <<hour, already, paying>>) \/ End(r)
        /\ UNCHANGED <<logVars, payVars>>
    BY <1>5 DEF CheckBalance, TypeOK, storeVars
  <2> QED BY <2>1 DEF Goto, End, TypeOK, Steps, logVars, payVars
<1>6. ASSUME NEW r \in Runs, Send(r) PROVE TInv'
  <2>1. BlockhashTTL \in 0..BlockhashTTL
    OBVIOUS
  <2> QED BY <1>6, <2>1 DEF Send, Goto, TypeOK, Steps, Submission!Begin, storeVars, logVars
<1>7. ASSUME NEW r \in Runs, Returned(r) PROVE TInv'
  <2>1. /\ paying[r] \in Payments /\ End(r)
        /\ UNCHANGED <<enabled, fate, payHour, validLeft>>
        /\ outcome' = [outcome EXCEPT ![paying[r]] = outcome'[paying[r]]]
        /\ outcome'[paying[r]] \in Submission!Outcomes
        /\ notified' \in BOOLEAN
        /\ UNCHANGED logVars \/ \E c \in BOOLEAN : WriteRow(r, c)
    BY <1>7, ReturnedCases DEF TypeOK, Submission!Outcomes
  <2>2. /\ row' \in [Hours -> Payments \cup {NoRow}]
        /\ confirmed' \in [Hours -> BOOLEAN]
        /\ graceLeft' \in [Hours -> 0..Grace]
    <3>1. Grace \in 0..Grace /\ hour[r] \in Hours
      BY DEF TypeOK
    <3>2. CASE UNCHANGED logVars
      BY <3>2 DEF TypeOK, logVars
    <3>3. ASSUME NEW c \in BOOLEAN, WriteRow(r, c) PROVE <2>2!:
      BY <2>1, <3>1, <3>3 DEF TypeOK, WriteRow
    <3> QED BY <2>1, <3>2, <3>3
  <2>3. /\ pc' \in [Runs -> Steps] /\ hour' = hour
        /\ already' \in [Runs -> Payments \cup {NoRow}]
        /\ paying' \in [Runs -> Payments \cup {NoPay}]
        /\ \A s \in Runs : pc'[s] = "await" => paying'[s] \in Payments
    BY <2>1 DEF TypeOK, End, Goto, Steps
  <2>4. outcome' \in [Payments -> {"idle", "polling"} \cup Submission!Outcomes]
    BY <2>1 DEF TypeOK
  <2> QED BY <2>1, <2>2, <2>3, <2>4 DEF TypeOK
<1>8. ASSUME NEW p \in Payments, Decide(p) PROVE TInv'
  BY <1>8 DEF Decide, TypeOK, Submission!Fates, storeVars, logVars, runVars
<1>9. CASE Tick
  BY <1>9 DEF Tick, TypeOK, storeVars, runVars
<1>10. CASE UNCHANGED vars
  BY <1>10 DEF vars, storeVars, logVars, runVars, payVars, TypeOK
<1> QED
  BY <1>1, <1>2, <1>3, <1>4, <1>5, <1>6, <1>7, <1>8, <1>9, <1>10 DEF Next, RunStep

LEMMA InitTypes ==
  ASSUME Init
  PROVE  TInv
<1>1. 0 \in 0..Grace /\ 0 \in 0..BlockhashTTL
  BY PayAssumption
<1>2. /\ faults \in FaultSets /\ enabled \in BOOLEAN /\ notified \in BOOLEAN
      /\ row \in [Hours -> Payments \cup {NoRow}]
      /\ confirmed \in [Hours -> BOOLEAN]
      /\ graceLeft \in [Hours -> 0..Grace]
  BY <1>1 DEF Init
<1>3. /\ pc \in [Runs -> Steps] /\ hour \in [Runs -> Hours]
      /\ already \in [Runs -> Payments \cup {NoRow}]
      /\ paying \in [Runs -> Payments \cup {NoPay}]
      /\ AwaitsPayment
  BY DEF Init, Steps, AwaitsPayment
<1>4. /\ outcome \in [Payments -> {"idle", "polling"} \cup Submission!Outcomes]
      /\ fate \in [Payments -> Submission!Fates]
      /\ payHour \in [Payments -> Hours]
      /\ validLeft \in [Payments -> 0..BlockhashTTL]
  BY <1>1 DEF Init, Submission!Init, Submission!Fates
<1> QED BY <1>2, <1>3, <1>4 DEF TInv, TypeOK

LEMMA TInvariant == Spec => []TInv
<1> QED BY InitTypes, TypeStep, PTL DEF Spec

(* Type correctness, with killed and overlapping runs and broken promises.  *)
THEOREM Typing == Spec => []TypeOK
<1>1. TInv => TypeOK
  BY DEF TInv
<1> QED BY <1>1, TInvariant, PTL

-----------------------------------------------------------------------------
(* No hour is paid twice.                                                   *)

(* A step of a run that touches neither the payments nor the rows: what is  *)
(* left to show is about the place the run goes to.                         *)
LEMMA QuietStep ==
  ASSUME IInv, Orderly, NEW r \in Runs,
         UNCHANGED <<payVars, row, graceLeft>>,
         \A h \in Hours : ~confirmed'[h] => ~confirmed[h],
         pc[r] # "await", pc'[r] # "await",
         pc'[r] \in {"balance", "sign"} => Clear(r)',
         pc'[r] = "check" =>
           already'[r] = row[hour'[r]] /\ row[hour'[r]] # NoRow /\ ~confirmed'[hour'[r]]
  PROVE  Inv'
<1>1. \A s \in Runs : s = r
  BY DEF Orderly
<1>2. AwaitOK'
  BY <1>1 DEF IInv, Inv, AwaitOK, payVars
<1>3. RowOK'
  BY DEF IInv, Inv, RowOK, payVars
<1>4. SettledInLog'
  BY DEF IInv, Inv, SettledInLog, Live, payVars
<1>5. PayersClear'
  BY <1>1 DEF PayersClear
<1>6. CheckOK'
  BY <1>1 DEF CheckOK
<1> QED BY <1>2, <1>3, <1>4, <1>5, <1>6 DEF Inv

(* The row just read names every payment of the hour that can still land.   *)
LEMMA ReadLogStep ==
  ASSUME IInv, Orderly, NEW r \in Runs, ReadLog(r)
  PROVE  Inv'
<1>1. /\ UNCHANGED <<logVars, payVars>> /\ pc[r] = "bot" /\ r \in DOMAIN pc
      /\ \A s \in Runs : pc[s] # "await"
  BY DEF ReadLog, IInv, TypeOK, Orderly
<1>2. CASE End(r)
  <2>1. pc'[r] = "idle"
    BY <1>2 DEF End, Goto, IInv, TypeOK
  <2> QED BY <1>1, <2>1, QuietStep DEF logVars
<1>3. CASE ~End(r)
  <2>1. /\ ~Paid(hour[r]) /\ hour' = hour /\ hour[r] \in Hours
        /\ already'[r] = row[hour[r]]
        /\ pc'[r] = IF row[hour[r]] = NoRow THEN "balance" ELSE "check"
    BY <1>3 DEF ReadLog, Goto, IInv, TypeOK
  <2>2. row[hour[r]] = NoRow => Clear(r)'
    <3>1. ASSUME row[hour[r]] = NoRow, NEW p \in Payments, Live(p), payHour[p] = hour[r]
          PROVE  FALSE
      <4>1. outcome[p] # "polling"
        BY <1>1 DEF IInv, Inv, AwaitOK
      <4> QED BY <3>1, <4>1, PayAssumption DEF IInv, Inv, SettledInLog
    <3> QED BY <1>1, <2>1, <3>1 DEF Clear, Live, payVars
  <2>3. row[hour[r]] # NoRow => ~confirmed[hour[r]]
    BY <2>1 DEF Paid
  <2> QED BY <1>1, <2>1, <2>2, <2>3, QuietStep DEF logVars
<1> QED BY <1>2, <1>3

(* A run goes on to pay only if the payment in the row can land no more:    *)
(* the chain answered that it failed, or its grace period and therefore its *)
(* blockhash are over.                                                      *)
LEMMA CheckOutcomeStep ==
  ASSUME IInv, Orderly, NEW r \in Runs, CheckOutcome(r)
  PROVE  Inv'
<1> DEFINE h == hour[r]
           q == row[h]
<1>1. /\ pc[r] = "check" /\ h \in Hours /\ already[r] = q /\ q \in Payments
      /\ ~confirmed[h] /\ UNCHANGED <<payVars, row, graceLeft>>
      /\ payHour[q] = h /\ outcome[q] # "idle" /\ validLeft[q] <= graceLeft[h]
      /\ \A s \in Runs : pc[s] # "await"
  BY DEF CheckOutcome, IInv, Inv, TypeOK, CheckOK, RowOK, Orderly, storeVars, logVars
<1>2. CASE End(r)
  <2>1. pc'[r] = "idle"
    BY <1>2 DEF End, Goto, IInv, TypeOK
  <2>2. \A g \in Hours : ~confirmed'[g] => ~confirmed[g]
    BY <1>1 DEF CheckOutcome, storeVars, logVars, IInv, TypeOK
  <2> QED BY <1>1, <2>1, <2>2, QuietStep
<1>3. CASE ~End(r)
  <2>1. PICK answer \in Answers(q, h) :
          /\ answer # "confirmed" /\ ~StillOpen(answer, h)
          /\ pc' = [pc EXCEPT ![r] = "balance"] /\ hour' = hour /\ confirmed' = confirmed
    BY <1>1, <1>3 DEF CheckOutcome, Goto, logVars
  <2>2. ~Live(q)
    <3>1. answer = "failed" \/ (answer = "unknown" /\ ~(graceLeft[h] > 0))
      BY <2>1 DEF Answers, StillOpen
    <3>2. fate[q] # "landed"
      BY <2>1, <3>1, <1>1 DEF Answers
    <3>3. answer = "failed" => fate[q] = "dead"
      BY <2>1 DEF Answers
    <3>4. ~(graceLeft[h] > 0) => ~(validLeft[q] > 0)
      BY <1>1, PayAssumption DEF IInv, TypeOK
    <3> QED BY <3>1, <3>2, <3>3, <3>4 DEF Live
  <2>3. pc'[r] = "balance"
    BY <2>1 DEF IInv, TypeOK
  <2>4. Clear(r)'
    <3>1. ASSUME NEW p \in Payments, Live(p), payHour[p] = h PROVE FALSE
      <4>1. outcome[p] # "polling"
        BY <1>1 DEF IInv, Inv, AwaitOK
      <4>2. p = q
        BY <3>1, <4>1 DEF IInv, Inv, SettledInLog
      <4> QED BY <2>2, <3>1, <4>2
    <3> QED BY <1>1, <2>1, <3>1 DEF Clear, Live, payVars
  <2> QED BY <1>1, <2>1, <2>3, <2>4, QuietStep
<1> QED BY <1>2, <1>3

LEMMA SendStep ==
  ASSUME IInv, Orderly, NEW r \in Runs, Send(r)
  PROVE  Inv'
<1>1. PICK p \in Payments :
        /\ outcome[p] = "idle" /\ outcome' = [outcome EXCEPT ![p] = "polling"]
        /\ payHour' = [payHour EXCEPT ![p] = hour[r]]
        /\ validLeft' = [validLeft EXCEPT ![p] = BlockhashTTL]
        /\ paying' = [paying EXCEPT ![r] = p]
        /\ pc' = [pc EXCEPT ![r] = "await"] /\ pc[r] = "sign"
        /\ UNCHANGED <<logVars, fate, hour, already>>
  BY DEF Send, Goto, Submission!Begin
<1>2. \A s \in Runs : s = r
  BY DEF Orderly
<1>3. /\ outcome'[p] = "polling" /\ payHour'[p] = hour[r] /\ fate[p] = "open"
      /\ paying'[r] = p /\ pc'[r] = "await" /\ hour'[r] = hour[r]
      /\ \A q \in Payments \ {p} : /\ outcome'[q] = outcome[q] /\ payHour'[q] = payHour[q]
                                   /\ validLeft'[q] = validLeft[q]
                                   /\ outcome[q] # "polling"
  BY <1>1, <1>2 DEF IInv, TypeOK, Inv, AwaitOK
<1>4. AwaitOK'
  BY <1>1, <1>2, <1>3 DEF IInv, Inv, AwaitOK
<1>5. RowOK'
  <2>1. ASSUME NEW h \in Hours, row[h] # NoRow PROVE row[h] \in Payments \ {p}
    BY <1>1, <2>1 DEF IInv, Inv, TypeOK, RowOK
  <2> QED BY <1>1, <1>3, <2>1 DEF IInv, Inv, RowOK, logVars
<1>6. \A q \in Payments \ {p} : Live(q)' => Live(q)
  BY <1>1, <1>3 DEF Live
<1>7. SettledInLog'
  BY <1>1, <1>3, <1>6 DEF IInv, Inv, SettledInLog, logVars
<1>8. PayersClear'
  BY <1>1, <1>2, <1>3, <1>6 DEF IInv, Inv, PayersClear, Clear
<1>9. CheckOK'
  BY <1>2, <1>3 DEF CheckOK
<1> QED BY <1>4, <1>5, <1>7, <1>8, <1>9 DEF Inv

(* A settled payment is in the log, or it is dead.                          *)
LEMMA ReturnedStep ==
  ASSUME IInv, Orderly, NEW r \in Runs, Returned(r)
  PROVE  Inv'
<1> DEFINE p == paying[r]
           h == hour[r]
<1>1. TInv
  BY DEF IInv, Inv, TInv, AwaitOK, AwaitsPayment
<1>2. /\ pc[r] = "await" /\ p \in Payments /\ payHour[p] = h /\ h \in Hours
      /\ outcome[p] = "polling"
      /\ outcome' = [outcome EXCEPT ![p] = outcome'[p]]
      /\ UNCHANGED <<fate, payHour, validLeft>>
      /\ pc'[r] = "idle"
  <2>1. pc[r] = "await" /\ End(r)
    BY <1>1, ReturnedCases
  <2>2. pc'[r] = "idle"
    BY <2>1 DEF IInv, TypeOK, End, Goto
  <2>3. /\ outcome' = [outcome EXCEPT ![p] = outcome'[p]]
        /\ UNCHANGED <<fate, payHour, validLeft>>
    BY <1>1, ReturnedCases
  <2> QED BY <2>1, <2>2, <2>3 DEF IInv, Inv, TypeOK, AwaitOK
<1>3. /\ outcome'[p] \in {"ok", "unconfirmed", "failed"}
      /\ \/ (\E c \in BOOLEAN : WriteRow(r, c))
         \/ UNCHANGED logVars /\ fate[p] = "dead"
  BY <1>1, ReturnedCases DEF Orderly
<1>4. \A q \in Payments \ {p} : outcome'[q] = outcome[q] /\ outcome[q] # "polling"
  BY <1>2 DEF IInv, Inv, TypeOK, AwaitOK, Orderly
<1>5. \A s \in Runs : pc'[s] = "idle"
  BY <1>2 DEF Orderly
<1>6. \A q \in Payments : Live(q)' => Live(q)
  BY <1>2, <1>4 DEF Live
<1>7. AwaitOK'
  BY <1>2, <1>3, <1>4, <1>5 DEF IInv, Inv, AwaitOK
<1>8. CASE UNCHANGED logVars /\ fate[p] = "dead"
  <2>1. RowOK'
    BY <1>2, <1>3, <1>4, <1>8 DEF IInv, Inv, TypeOK, RowOK, logVars
  <2>2. ~Live(p)
    BY <1>8 DEF Live
  <2>3. SettledInLog'
    BY <1>2, <1>4, <1>6, <1>8, <2>2 DEF IInv, Inv, SettledInLog, logVars
  <2> QED BY <1>5, <1>7, <2>1, <2>3 DEF Inv, PayersClear, CheckOK
<1>9. ASSUME NEW c \in BOOLEAN, WriteRow(r, c) PROVE Inv'
  <2>1. /\ row'[h] = p /\ graceLeft'[h] = Grace
        /\ \A g \in Hours \ {h} : /\ row'[g] = row[g] /\ graceLeft'[g] = graceLeft[g]
                                  /\ confirmed'[g] = confirmed[g]
    BY <1>2, <1>9 DEF IInv, TypeOK, WriteRow
  <2>2. validLeft[p] <= Grace
    BY <1>2, PayAssumption, GraceAssumption DEF IInv, TypeOK
  <2>3. RowOK'
    <3>1. ASSUME NEW g \in Hours \ {h}, row[g] # NoRow PROVE row[g] \in Payments \ {p}
      BY <1>2, <3>1 DEF IInv, Inv, TypeOK, RowOK
    <3>2. /\ outcome'[p] # "idle" /\ payHour'[p] = h /\ validLeft'[p] <= graceLeft'[h]
      BY <1>2, <1>3, <2>1, <2>2
    <3>3. ASSUME NEW g \in Hours \ {h}, row'[g] # NoRow
          PROVE  /\ outcome'[row'[g]] # "idle" /\ payHour'[row'[g]] = g
                 /\ ~confirmed'[g] => validLeft'[row'[g]] <= graceLeft'[g]
      BY <1>2, <1>4, <2>1, <3>1, <3>3 DEF IInv, Inv, RowOK
    <3> QED BY <2>1, <3>2, <3>3 DEF RowOK
  <2>4. SettledInLog'
    <3>1. ASSUME NEW q \in Payments \ {p}, Live(q), outcome[q] # "polling", payHour[q] = h
          PROVE FALSE
      BY <1>2, <3>1 DEF IInv, Inv, PayersClear, Clear
    <3>2. ASSUME NEW q \in Payments \ {p}, Live(q)
          PROVE  payHour[q] \in Hours \ {h} /\ row[payHour[q]] = q
      BY <1>4, <3>1, <3>2 DEF IInv, Inv, TypeOK, SettledInLog
    <3> QED BY <1>2, <1>6, <2>1, <3>2 DEF SettledInLog
  <2> QED BY <1>5, <1>7, <2>3, <2>4 DEF Inv, PayersClear, CheckOK
<1> QED BY <1>3, <1>8, <1>9

(* Deciding fates and time passing only leave fewer payments live.          *)
LEMMA WorldStep ==
  ASSUME IInv, UNCHANGED <<row, confirmed, runVars, outcome, payHour>>,
         fate' \in [Payments -> Submission!Fates],
         \A p \in Payments : Live(p)' => Live(p),
         \A p \in Payments : outcome[p] = "idle" => fate'[p] = "open",
         RowOK'
  PROVE  Inv'
<1>1. AwaitOK'
  BY DEF IInv, Inv, AwaitOK, runVars
<1>2. SettledInLog'
  BY DEF IInv, Inv, SettledInLog
<1>3. PayersClear'
  BY DEF IInv, Inv, PayersClear, Clear, runVars
<1>4. CheckOK'
  BY DEF IInv, Inv, CheckOK, runVars
<1> QED BY <1>1, <1>2, <1>3, <1>4 DEF Inv

LEMMA DecideStep ==
  ASSUME IInv, NEW p \in Payments, Decide(p)
  PROVE  Inv'
<1>1. UNCHANGED <<logVars, runVars, outcome, payHour, validLeft>>
  BY DEF Decide
<1>2. /\ fate' \in [Payments -> Submission!Fates]
      /\ \A q \in Payments \ {p} : fate'[q] = fate[q]
      /\ fate'[p] = "landed" => Live(p)
      /\ fate'[p] # "open" /\ outcome[p] # "idle"
  BY DEF Decide, IInv, TypeOK, Submission!Fates, Live
<1>3. \A q \in Payments : Live(q)' => Live(q)
  BY <1>1, <1>2 DEF Live
<1>4. RowOK'
  BY <1>1 DEF IInv, Inv, RowOK, logVars
<1>5. \A q \in Payments : outcome[q] = "idle" => fate'[q] = "open"
  BY <1>2 DEF IInv, Inv, AwaitOK
<1> QED BY <1>1, <1>2, <1>3, <1>4, <1>5, WorldStep DEF logVars

LEMMA TickStep ==
  ASSUME IInv, Tick
  PROVE  Inv'
<1>1. UNCHANGED <<row, confirmed, runVars, outcome, fate, payHour>>
  BY DEF Tick
<1>2. \A p \in Payments :
        /\ validLeft[p] \in Nat
        /\ validLeft'[p] = IF validLeft[p] = 0 THEN 0 ELSE validLeft[p] - 1
  BY PayAssumption DEF Tick, IInv, TypeOK
<1>3. \A h \in Hours :
        /\ graceLeft[h] \in Nat
        /\ graceLeft'[h] = IF graceLeft[h] = 0 THEN 0 ELSE graceLeft[h] - 1
  BY PayAssumption DEF Tick, IInv, TypeOK
<1>4. \A p \in Payments : Live(p)' => Live(p)
  BY <1>1, <1>2 DEF Live
<1>5. RowOK'
  <2>1. ASSUME NEW h \in Hours, row[h] # NoRow, validLeft[row[h]] <= graceLeft[h]
        PROVE  validLeft'[row[h]] <= graceLeft'[h]
    <3>1. row[h] \in Payments
      BY <2>1 DEF IInv, TypeOK
    <3> QED BY <1>2, <1>3, <2>1, <3>1
  <2> QED BY <1>1, <2>1 DEF IInv, Inv, RowOK
<1> QED BY <1>1, <1>4, <1>5, WorldStep DEF IInv, Inv, TypeOK, AwaitOK

LEMMA PaysOnceStep ==
  ASSUME IInv, Orderly, Next
  PROVE  IInv'
<1>1. TypeOK'
  BY TypeStep DEF IInv, Inv, TInv, AwaitOK, AwaitsPayment
<1>2. ASSUME Enable \/ Disable PROVE Inv'
  BY <1>2 DEF Enable, Disable, logVars, runVars, payVars, IInv, Inv, AwaitOK, RowOK,
              SettledInLog, Live, PayersClear, Clear, CheckOK
<1>3. ASSUME NEW r \in Runs, Begin(r) \/ Gate(r) PROVE Inv'
  <2>1. /\ UNCHANGED <<logVars, payVars>>
        /\ pc[r] # "await" /\ pc'[r] \in {"idle", "gate", "bot"}
    BY <1>3 DEF Begin, Gate, Goto, End, IInv, TypeOK
  <2> QED BY <2>1, QuietStep DEF logVars
<1>4. ASSUME NEW r \in Runs, CheckBalance(r) PROVE Inv'
  <2>1. /\ UNCHANGED <<logVars, payVars, hour>> /\ pc[r] = "balance"
        /\ pc'[r] \in {"idle", "sign"} /\ \A s \in Runs : s = r
    BY <1>4 DEF CheckBalance, Goto, End, IInv, TypeOK, Orderly
  <2>2. Clear(r)'
    BY <2>1 DEF IInv, Inv, PayersClear, Clear, Live, payVars
  <2> QED BY <2>1, <2>2, QuietStep DEF logVars
<1>5. ASSUME NEW r \in Runs PROVE ~Kill(r)
  BY DEF Kill, Orderly
<1> QED
  BY <1>1, <1>2, <1>3, <1>4, <1>5, ReadLogStep, CheckOutcomeStep, SendStep,
     ReturnedStep, DecideStep, TickStep DEF Next, RunStep, IInv

LEMMA PaysOnce == Spec => [](TInv /\ (Orderly => IInv))
<1>1. ASSUME Init, Orderly PROVE IInv
  <2>1. TypeOK
    BY <1>1, InitTypes DEF TInv
  <2>2. /\ \A r \in Runs : pc[r] = "idle"
        /\ \A p \in Payments : outcome[p] = "idle" /\ fate[p] = "open"
        /\ \A h \in Hours : row[h] = NoRow
    BY <1>1 DEF Init, Submission!Init
  <2> QED BY <2>1, <2>2 DEF IInv, Inv, AwaitOK, RowOK, SettledInLog, Live, PayersClear, CheckOK
<1>2. (Orderly => IInv) /\ [Next]_vars => (Orderly => IInv)'
  <2>1. ASSUME [Next]_vars, Orderly' PROVE Orderly
    BY <2>1 DEF Next, vars, Orderly
  <2>2. ASSUME IInv, UNCHANGED vars PROVE IInv'
    BY <2>2 DEF vars, storeVars, logVars, runVars, payVars, IInv, TypeOK, Inv, AwaitOK, RowOK,
                SettledInLog, Live, PayersClear, Clear, CheckOK
  <2> QED BY <2>1, <2>2, PaysOnceStep
<1> QED BY <1>1, <1>2, TInvariant, PTL DEF Spec

(* An hour is paid at most once, whatever happens to the payment that       *)
(* settles it, if the runs are Orderly.                                     *)
THEOREM PaidOnce == Spec => []AtMostOncePaid
<1>1. ASSUME IInv PROVE NeverPaidTwice
  <2> SUFFICES ASSUME NEW p \in Payments, NEW q \in Payments,
                      fate[p] = "landed", fate[q] = "landed", payHour[p] = payHour[q]
               PROVE  p = q
    BY DEF NeverPaidTwice
  <2>1. Live(p) /\ Live(q)
    BY DEF Live
  <2>2. ASSUME NEW a \in {p, q}, outcome[a] = "polling" PROVE p = q
    <3>1. PICK r \in Runs : pc[r] = "await" /\ paying[r] = a
      BY <1>1, <2>2 DEF IInv, Inv, AwaitOK
    <3>2. hour[r] = payHour[p] /\ Clear(r)
      BY <1>1, <3>1 DEF IInv, Inv, AwaitOK, PayersClear
    <3> QED BY <2>1, <3>2 DEF Clear
  <2> QED BY <1>1, <2>1, <2>2 DEF IInv, Inv, SettledInLog
<1>2. (Orderly => IInv) => AtMostOncePaid
  BY <1>1 DEF AtMostOncePaid
<1> QED BY <1>2, PaysOnce, PTL

(* No payment that landed or can still land drops out of sight.             *)
THEOREM Tracked == Spec => []LivePaymentTracked
<1>1. (Orderly => IInv) => LivePaymentTracked
  BY DEF IInv, Inv, SettledInLog, AwaitOK, LivePaymentTracked
<1> QED BY <1>1, PaysOnce, PTL

-----------------------------------------------------------------------------
(* Confirmed rows.  Kills and broken promises cannot make a row claim what  *)
(* is not on chain; a run that checks a row must be the only one.           *)

Alone == \A r, s \in Runs : r = s
RowTrue == ConfirmedRowLanded /\ CheckOK

LEMMA RowTrueKept == ASSUME TInv, Alone, RowTrue, [Next]_vars PROVE RowTrue'
<1> USE DEF RowTrue, ConfirmedRowLanded, CheckOK, Paid
<1>1. CASE Enable \/ Disable
  BY <1>1 DEF Enable, Disable, logVars, runVars, payVars
<1>2. ASSUME NEW r \in Runs, Begin(r) \/ Gate(r) \/ Kill(r) \/ CheckBalance(r) PROVE RowTrue'
  <2>1. /\ UNCHANGED <<logVars, payVars>>
        /\ pc'[r] # "check" /\ \A s \in Runs : s = r
    BY <1>2 DEF Begin, Gate, Kill, CheckBalance, Goto, End, TInv, TypeOK, Alone
  <2> QED BY <2>1 DEF logVars, payVars
<1>3. ASSUME NEW r \in Runs, ReadLog(r) PROVE RowTrue'
  <2>1. UNCHANGED <<logVars, payVars>> /\ hour' = hour /\ \A s \in Runs : s = r
    BY <1>3 DEF ReadLog, End, Alone
  <2>2. pc'[r] = "check" => already'[r] = row[hour[r]] /\ row[hour[r]] # NoRow /\ ~Paid(hour[r])
    BY <1>3 DEF ReadLog, End, Goto, TInv, TypeOK
  <2> QED BY <2>1, <2>2 DEF logVars, payVars
<1>4. ASSUME NEW r \in Runs, CheckOutcome(r) PROVE RowTrue'
  <2> DEFINE h == hour[r]
  <2>1. /\ UNCHANGED payVars /\ row' = row /\ pc'[r] # "check"
        /\ already[r] = row[h] /\ h \in Hours /\ \A s \in Runs : s = r
    BY <1>4 DEF CheckOutcome, Goto, End, TInv, TypeOK, Alone, storeVars, logVars
  <2>2. \/ confirmed' = confirmed
        \/ fate[already[r]] = "landed" /\ confirmed' = [confirmed EXCEPT ![h] = TRUE]
    BY <1>4 DEF CheckOutcome, Answers, logVars
  <2> HIDE DEF h
  <2> QED BY <2>1, <2>2 DEF payVars, TInv, TypeOK
<1>5. ASSUME NEW r \in Runs, Send(r) PROVE RowTrue'
  <2>1. UNCHANGED <<logVars, fate>> /\ pc'[r] = "await" /\ \A s \in Runs : s = r
    BY <1>5 DEF Send, Goto, TInv, TypeOK, Alone
  <2> QED BY <2>1 DEF logVars
<1>6. ASSUME NEW r \in Runs, Returned(r) PROVE RowTrue'
  <2> DEFINE p == paying[r]
  <2>0. p \in Payments /\ fate' = fate /\ End(r)
    BY <1>6, ReturnedCases
  <2>1. /\ p \in Payments /\ fate' = fate /\ pc'[r] = "idle"
        /\ (\A s \in Runs : s = r) /\ hour[r] \in Hours
    BY <2>0 DEF End, Goto, TInv, TypeOK, Alone
  <2>2. \/ UNCHANGED logVars
        \/ WriteRow(r, FALSE)
        \/ WriteRow(r, TRUE) /\ fate[p] = "landed"
    BY <1>6, ReturnedCases DEF Unconfirmed
  <2> QED BY <2>1, <2>2 DEF WriteRow, logVars, TInv, TypeOK
<1>7. ASSUME NEW p \in Payments, Decide(p) PROVE RowTrue'
  <2>1. UNCHANGED <<logVars, runVars>> /\ fate[p] = "open"
        /\ \A q \in Payments : q # p => fate'[q] = fate[q]
    BY <1>7 DEF Decide, TInv, TypeOK
  <2> QED BY <2>1 DEF logVars, runVars, TInv, TypeOK
<1>8. CASE Tick \/ UNCHANGED vars
  BY <1>8 DEF Tick, vars, logVars, runVars, payVars
<1> QED BY <1>1, <1>2, <1>3, <1>4, <1>5, <1>6, <1>7, <1>8 DEF Next, RunStep

(* With one run at a time a confirmed row names a payment that is on chain, *)
(* whatever is killed or misreported: ConfirmedRowLanded of PremiumPay.tla. *)
THEOREM RowsTrue == Spec => [](Alone => ConfirmedRowLanded)
<1>1. Init => RowTrue
  BY DEF Init, RowTrue, ConfirmedRowLanded, CheckOK, Paid
<1>2. TInv /\ (Alone => RowTrue) /\ [Next]_vars => (Alone => RowTrue)'
  BY RowTrueKept DEF Alone
<1>3. (Alone => RowTrue) => (Alone => ConfirmedRowLanded)
  BY DEF RowTrue
<1> QED BY <1>1, <1>2, <1>3, TInvariant, PTL DEF Spec
=============================================================================
