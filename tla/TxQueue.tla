------------------------------ MODULE TxQueue ------------------------------
(***************************************************************************)
(* The transaction queue of the Nexus proxy (src/core/nexus/tx-queue.js),  *)
(* its two HTTP endpoints (src/core/nexus/server.js, /tx/submit and        *)
(* /tx/status) and the client every bot uses to reach it                   *)
(* (src/core/tx-queue-client.js).  The chain is external.                  *)
(*                                                                         *)
(* One ticket stands for one signed transaction and the one call of        *)
(* submitAndConfirm() that carries it.  Time is a set of countdowns in a   *)
(* common unit (Tick): a countdown that reached zero has elapsed.          *)
(***************************************************************************)
EXTENDS Naturals, Sequences

CONSTANTS
  Tickets,         \* signed transactions
  NoLoop,          \* loop[t]: the _processNext() call made by t's submit is over
  Between,         \* loop[t]: that call is running and holds no job
  ConfirmTimeout,  \* TX_CONFIRM_TIMEOUT_MS in ticks
  ClientTimeout,   \* CLIENT_TIMEOUT_MS in ticks
  ResultTTL,       \* RESULT_TTL_MS in ticks
  BlockhashTTL,    \* how long the chain accepts a signed transaction, in ticks
  Faults           \* which failures of the surroundings may occur

(* "pollThrow": a fetch of _confirmTransaction rejects (connection reset).  *)
(* "sendLost":  the RPC node took the transaction but its answer is lost.   *)
(* "slowSend":  that answer may take longer than a tick.                    *)
(* "httpError": /tx/status answers with a status other than 200 and 404.    *)
(* "restart":   the Nexus process dies and comes back.                      *)
FaultKinds == {"pollThrow", "sendLost", "slowSend", "httpError", "restart"}

ASSUME ConstantsAssumption ==
  /\ NoLoop \notin Tickets /\ Between \notin Tickets /\ NoLoop # Between
  /\ ConfirmTimeout \in Nat /\ ClientTimeout \in Nat
  /\ ResultTTL \in Nat /\ BlockhashTTL \in Nat
  /\ Faults \subseteq FaultKinds

(* config: 60 s to confirm, 90 s at the client, results kept for 5 minutes; *)
(* a blockhash lives for 150 slots, which the code takes as 60 to 90 s.     *)
ASSUME TimingAssumption ==
  BlockhashTTL <= ClientTimeout /\ ClientTimeout < ResultTTL

VARIABLES
  up,                  \* the Nexus process answers
  results,             \* status per ticket, "none" = not in the Map
  signature,           \* result.signature is set
  queue,               \* FIFO of waiting tickets
  processing,          \* the flag that keeps a second loop from starting
  ticketCounter,       \* number of tickets handed out since the start
  number,              \* the counter value inside the ticket id, 0 = not issued
  loop,                \* per _processNext() call: NoLoop, Between or its job
  confirmLeft,         \* countdown of _confirmTransaction
  keepLeft,            \* countdown from completedAt to the end of the TTL
  client,              \* outcome of submitAndConfirm at the bot
  lastKnownSignature,  \* the client has seen a signature
  clientLeft,          \* countdown of the client's poll loop
  chain,               \* fate of the transaction on chain
  validLeft            \* countdown of its blockhash

nexusVars == <<results, signature, queue, processing, ticketCounter, number,
               loop, confirmLeft, keepLeft>>
clientVars == <<client, lastKnownSignature, clientLeft>>
chainVars == <<chain, validLeft>>
vars == <<up, nexusVars, clientVars, chainVars>>

Completed == {"confirmed", "timeout", "failed"}
Statuses == {"none", "queued", "sending", "confirming"} \cup Completed
Outcomes == {"ok", "unconfirmed", "failed"}
Has(fault) == fault \in Faults

TypeOK ==
  /\ up \in BOOLEAN
  /\ results \in [Tickets -> Statuses]
  /\ signature \in [Tickets -> BOOLEAN]
  /\ queue \in Seq(Tickets)
  /\ processing \in BOOLEAN
  /\ ticketCounter \in Nat
  /\ number \in [Tickets -> Nat]
  /\ loop \in [Tickets -> Tickets \cup {NoLoop, Between}]
  /\ confirmLeft \in [Tickets -> 0..ConfirmTimeout]
  /\ keepLeft \in [Tickets -> 0..ResultTTL]
  /\ client \in [Tickets -> {"idle", "polling"} \cup Outcomes]
  /\ lastKnownSignature \in [Tickets -> BOOLEAN]
  /\ clientLeft \in [Tickets -> 0..ClientTimeout]
  /\ chain \in [Tickets -> {"unsent", "pending", "landed", "reverted"}]
  /\ validLeft \in [Tickets -> 0..BlockhashTTL]

Init ==
  /\ up = TRUE
  /\ results = [t \in Tickets |-> "none"]
  /\ signature = [t \in Tickets |-> FALSE]
  /\ queue = <<>>
  /\ processing = FALSE
  /\ ticketCounter = 0
  /\ number = [t \in Tickets |-> 0]
  /\ loop = [t \in Tickets |-> NoLoop]
  /\ confirmLeft = [t \in Tickets |-> 0]
  /\ keepLeft = [t \in Tickets |-> 0]
  /\ client = [t \in Tickets |-> "idle"]
  /\ lastKnownSignature = [t \in Tickets |-> FALSE]
  /\ clientLeft = [t \in Tickets |-> 0]
  /\ chain = [t \in Tickets |-> "unsent"]
  /\ validLeft = [t \in Tickets |-> 0]

-----------------------------------------------------------------------------
(* The queue.                                                               *)

IdleUnchecked == TRUE
Idle == ~processing

EnqueueFirst(q, t) == <<t>> \o q
Enqueue(q, t) == Append(q, t)

(* _processNext takes the head and runs _executeJob up to its first await:  *)
(* a ticket without a result is dropped, otherwise it becomes 'sending'.    *)
Begin(l, q, res) ==
  /\ queue' = Tail(q)
  /\ IF res[Head(q)] = "none"
       THEN results' = res /\ loop' = [loop EXCEPT ![l] = Between]
       ELSE /\ results' = [res EXCEPT ![Head(q)] = "sending"]
            /\ loop' = [loop EXCEPT ![l] = Head(q)]

(* POST /tx/submit accepted: submit() with the synchronous part of the      *)
(* _processNext() call it makes.  The client starts to poll.                *)
Submit(t) ==
  /\ up
  /\ client[t] = "idle"
  /\ ticketCounter' = ticketCounter + 1
  /\ number' = [number EXCEPT ![t] = ticketCounter + 1]
  /\ LET q == Enqueue(queue, t)
         res == [results EXCEPT ![t] = "queued"]
     IN IF Idle
          THEN processing' = TRUE /\ Begin(t, q, res)
          ELSE queue' = q /\ results' = res /\ UNCHANGED <<processing, loop>>
  /\ client' = [client EXCEPT ![t] = "polling"]
  /\ clientLeft' = [clientLeft EXCEPT ![t] = ClientTimeout]
  /\ validLeft' = [validLeft EXCEPT ![t] = BlockhashTTL]
  /\ UNCHANGED <<up, signature, confirmLeft, keepLeft, lastKnownSignature, chain>>

(* POST /tx/submit answered with 400 or 503, or Nexus not reachable: the    *)
(* client throws a plain error and nothing was queued.                      *)
Refuse(t) ==
  /\ client[t] = "idle"
  /\ client' = [client EXCEPT ![t] = "failed"]
  /\ UNCHANGED <<up, nexusVars, lastKnownSignature, clientLeft, chainVars>>

(* The head of the while loop of _processNext after an awaited job.         *)
NextJob(l) ==
  /\ up
  /\ loop[l] = Between
  /\ IF queue = <<>>
       THEN /\ processing' = FALSE
            /\ loop' = [loop EXCEPT ![l] = NoLoop]
            /\ UNCHANGED <<queue, results>>
       ELSE Begin(l, queue, results) /\ UNCHANGED processing
  /\ UNCHANGED <<up, signature, ticketCounter, number, confirmLeft, keepLeft,
                 clientVars, chainVars>>

KeepForConfirm == ConfirmTimeout
KeepFor == ResultTTL

CompleteAndLeave(l, outcome) ==
  /\ results' = [results EXCEPT ![loop[l]] = outcome]
  /\ keepLeft' = [keepLeft EXCEPT ![loop[l]] = KeepFor]
  /\ loop' = [loop EXCEPT ![l] = NoLoop]

(* The end of _executeJob: status, completedAt, and back to the while loop. *)
Complete(l, outcome) ==
  /\ results' = [results EXCEPT ![loop[l]] = outcome]
  /\ keepLeft' = [keepLeft EXCEPT ![loop[l]] = KeepFor]
  /\ loop' = [loop EXCEPT ![l] = Between]

(* Loop l is at the given step of _executeJob with its job.                 *)
At(l, step) == up /\ loop[l] \in Tickets /\ results[loop[l]] = step

(* The RPC node takes the transaction of a sendTransaction under way        *)
(* (external); the answer comes later.                                      *)
RpcAccepts(l) ==
  /\ At(l, "sending")
  /\ chain[loop[l]] = "unsent"
  /\ chain' = [chain EXCEPT ![loop[l]] = "pending"]
  /\ UNCHANGED <<up, nexusVars, clientVars, validLeft>>

(* sendTransaction answered with a signature.                               *)
SendOk(l) ==
  /\ At(l, "sending")
  /\ chain[loop[l]] # "unsent"
  /\ signature' = [signature EXCEPT ![loop[l]] = TRUE]
  /\ results' = [results EXCEPT ![loop[l]] = "confirming"]
  /\ confirmLeft' = [confirmLeft EXCEPT ![loop[l]] = ConfirmTimeout]
  /\ UNCHANGED <<up, queue, processing, ticketCounter, number, loop, keepLeft,
                 clientVars, chainVars>>

(* sendTransaction threw: HTTP error, RPC error or a rejected fetch.        *)
SendError(l) ==
  /\ At(l, "sending")
  /\ chain[loop[l]] = "unsent" \/ Has("sendLost")
  /\ Complete(l, "failed")
  /\ UNCHANGED <<up, signature, queue, processing, ticketCounter, number,
                 confirmLeft, clientVars, chainVars>>

(* What the catch block of _executeJob makes of an error.                   *)
ErrorStatusMerged(unconfirmed, t) == "failed"
ErrorStatus(unconfirmed, t) ==
  IF unconfirmed /\ signature[t] THEN "timeout" ELSE "failed"

(* One iteration of _confirmTransaction that ends it.  Iterations that go   *)
(* on (HTTP error, RPC error, no status yet, 'processed') change nothing.   *)
ConfirmResult(l) ==
  /\ At(l, "confirming")
  /\ \/ chain[loop[l]] = "landed" /\ Complete(l, "confirmed")
     \/ chain[loop[l]] = "reverted" /\ Complete(l, ErrorStatus(FALSE, loop[l]))
     \/ Has("pollThrow") /\ Complete(l, ErrorStatus(FALSE, loop[l]))
     \/ confirmLeft[loop[l]] = 0 /\ Complete(l, ErrorStatus(TRUE, loop[l]))
  /\ UNCHANGED <<up, signature, queue, processing, ticketCounter, number,
                 confirmLeft, clientVars, chainVars>>

(* _cleanup() removes every completed result whose TTL is over.             *)
ExpiredUnfinished(t) == results[t] # "none" /\ keepLeft[t] = 0
ExpiredConfirmed(t) == results[t] = "confirmed" /\ keepLeft[t] = 0
Expired(t) == results[t] \in Completed /\ keepLeft[t] = 0

Cleanup ==
  /\ up
  /\ \E t \in Tickets : Expired(t)
  /\ results' = [t \in Tickets |-> IF Expired(t) THEN "none" ELSE results[t]]
  /\ UNCHANGED <<up, signature, queue, processing, ticketCounter, number, loop,
                 confirmLeft, keepLeft, clientVars, chainVars>>

(* Nexus dies; everything of the queue is in memory.                        *)
Crash ==
  /\ Has("restart") /\ up
  /\ up' = FALSE
  /\ results' = [t \in Tickets |-> "none"]
  /\ signature' = [t \in Tickets |-> FALSE]
  /\ queue' = <<>>
  /\ processing' = FALSE
  /\ ticketCounter' = 0
  /\ number' = [t \in Tickets |-> 0]
  /\ loop' = [t \in Tickets |-> NoLoop]
  /\ confirmLeft' = [t \in Tickets |-> 0]
  /\ keepLeft' = [t \in Tickets |-> 0]
  /\ UNCHANGED <<clientVars, chainVars>>

Start == ~up /\ up' = TRUE /\ UNCHANGED <<nexusVars, clientVars, chainVars>>

-----------------------------------------------------------------------------
(* The client's poll loop.                                                  *)

(* What the loop throws when it gives up without a final status.            *)
GiveUpPlain(seen) == "failed"
GiveUp(seen) == IF seen THEN "unconfirmed" ELSE "failed"

VerdictMerged(st) ==
  CASE st = "confirmed" -> "ok"
    [] st \in {"timeout", "failed"} -> "failed"
    [] OTHER -> "polling"

(* What a status means for the call.                                        *)
Verdict(st) ==
  CASE st = "confirmed" -> "ok"
    [] st = "timeout"   -> "unconfirmed"
    [] st = "failed"    -> "failed"
    [] OTHER            -> "polling"

Settle(t, outcome) ==
  /\ client' = [client EXCEPT ![t] = outcome]
  /\ UNCHANGED clientLeft

(* The deadline is tested after an iteration and before the next sleep, so  *)
(* the loop gives up right after a poll made at or past its deadline.       *)
SettleOrGiveUp(t, verdict, seen) ==
  Settle(t, IF verdict = "polling" /\ clientLeft[t] = 0 THEN GiveUp(seen) ELSE verdict)

(* GET /tx/status answered 200.                                             *)
ClientPoll(t) ==
  /\ up
  /\ client[t] = "polling"
  /\ results[t] # "none"
  /\ LET seen == lastKnownSignature[t] \/ signature[t]
     IN /\ lastKnownSignature' = [lastKnownSignature EXCEPT ![t] = seen]
        /\ SettleOrGiveUp(t, Verdict(results[t]), seen)
  /\ UNCHANGED <<up, nexusVars, chainVars>>

(* GET /tx/status answered with another error: the loop goes on.            *)
ClientHttpError(t) ==
  /\ Has("httpError") /\ up
  /\ client[t] = "polling"
  /\ SettleOrGiveUp(t, "polling", lastKnownSignature[t])
  /\ UNCHANGED <<up, nexusVars, lastKnownSignature, chainVars>>

(* GET /tx/status answered 404.                                             *)
ClientNotFound(t) ==
  /\ up
  /\ client[t] = "polling"
  /\ results[t] = "none"
  /\ Settle(t, GiveUp(lastKnownSignature[t]))
  /\ UNCHANGED <<up, nexusVars, lastKnownSignature, chainVars>>

ClientRejectedRetries(t) == ~up /\ client[t] = "polling" /\ UNCHANGED vars

(* The fetch rejects because Nexus is down: nothing catches it, the call    *)
(* ends with the plain error.                                               *)
ClientRejected(t) ==
  /\ ~up
  /\ client[t] = "polling"
  /\ Settle(t, "failed")
  /\ UNCHANGED <<up, nexusVars, lastKnownSignature, chainVars>>

-----------------------------------------------------------------------------
(* The chain (external) and time.                                           *)

Land(t) ==
  /\ chain[t] = "pending" /\ validLeft[t] > 0
  /\ \E fate \in {"landed", "reverted"} : chain' = [chain EXCEPT ![t] = fate]
  /\ UNCHANGED <<up, nexusVars, clientVars, validLeft>>

Down(countdown) == [t \in Tickets |-> IF countdown[t] = 0 THEN 0 ELSE countdown[t] - 1]

(* A tick is much longer than a poll interval (1.5 s) and, unless "slowSend", *)
(* than an RPC call: a client past its deadline has had its last poll, and  *)
(* an accepted sendTransaction its answer, before time goes on.             *)
Tick ==
  /\ \A t \in Tickets :
       /\ client[t] = "polling" => clientLeft[t] > 0
       /\ results[t] = "sending" /\ chain[t] # "unsent" => Has("slowSend")
  /\ confirmLeft' = Down(confirmLeft)
  /\ keepLeft' = Down(keepLeft)
  /\ clientLeft' = Down(clientLeft)
  /\ validLeft' = Down(validLeft)
  /\ UNCHANGED <<up, results, signature, queue, processing, ticketCounter,
                 number, loop, client, lastKnownSignature, chain>>

LoopStep(l) == NextJob(l) \/ SendOk(l) \/ SendError(l) \/ ConfirmResult(l)
ClientStep(t) ==
  ClientPoll(t) \/ ClientHttpError(t) \/ ClientNotFound(t) \/ ClientRejected(t)

Next ==
  \/ \E t \in Tickets : \/ Submit(t) \/ Refuse(t)
                        \/ LoopStep(t) \/ ClientStep(t) \/ RpcAccepts(t) \/ Land(t)
  \/ Cleanup \/ Crash \/ Start \/ Tick

Spec == Init /\ [][Next]_vars

(* The event loop runs every ready continuation, fetch calls end, timers    *)
(* fire.  Nothing is assumed of the bots' submits, of the chain, or that    *)
(* the process is restarted.                                                *)
Fairness ==
  /\ \A t \in Tickets : WF_vars(LoopStep(t)) /\ WF_vars(ClientStep(t))
  /\ WF_vars(Cleanup) /\ WF_vars(Tick)
FairSpec == Spec /\ Fairness

-----------------------------------------------------------------------------
(* Properties.                                                              *)

(* The transaction can no longer change the chain: it reverted, or it is    *)
(* not on chain and nobody holds it any more, or its blockhash is over.     *)
Held(t) == results[t] \in {"queued", "sending"}
Dead(t) ==
  \/ chain[t] = "reverted"
  \/ chain[t] = "unsent" /\ ~Held(t)
  \/ chain[t] \in {"unsent", "pending"} /\ validLeft[t] = 0

(* tx-queue.js header, point 1: never more than one sendTransaction and     *)
(* confirmTransaction at a time, whatever submits arrive while a loop is    *)
(* between two awaits.                                                      *)
InFlight == {t \in Tickets : results[t] \in {"sending", "confirming"}}
SingleFlight == \A t, u \in InFlight : t = u

(* The queue is strictly FIFO: no ticket is started (or done) while one     *)
(* with a smaller number still waits.                                       *)
FifoOrder ==
  \A t, u \in Tickets :
    results[t] = "queued" /\ number[t] < number[u] => results[u] = "queued"

(* _cleanup never takes the result of a ticket whose job still waits or     *)
(* runs: such a job would be dropped without a trace.                       *)
OpenTicketTracked ==
  /\ \A i \in 1..Len(queue) : results[queue[i]] = "queued"
  /\ \A l \in Tickets : loop[l] \in Tickets => results[loop[l]] \in {"sending", "confirming"}

(* 'confirmed' is only reported of a transaction that is on chain, and a    *)
(* 'failed' that carries a signature only of one that reverted: a timeout   *)
(* must never merge into 'failed' (comment in _executeJob).                 *)
FailedIsFinal ==
  \A t \in Tickets :
    /\ results[t] = "confirmed" => chain[t] = "landed"
    /\ results[t] = "failed" /\ signature[t] => chain[t] = "reverted"

(* submitAndConfirm: success means landed, and an error without             *)
(* `unconfirmed` means that building a replacement is safe.                 *)
PlainErrorIsSafe ==
  \A t \in Tickets :
    /\ client[t] = "ok" => chain[t] = "landed"
    /\ client[t] = "failed" => Dead(t)

(* As long as Nexus was not restarted, a client that is still polling finds *)
(* its ticket: the results outlive the longest poll loop.                   *)
PollFindsTicket == \A t \in Tickets : client[t] = "polling" => results[t] # "none"

(* Every call of submitAndConfirm ends.                                     *)
CallEnds == \A t \in Tickets : client[t] = "polling" ~> client[t] \in Outcomes

(* Every accepted ticket gets a final status, however the ones before it    *)
(* end, unless the process dies; and its result is freed in the end.        *)
TicketDone ==
  \A t \in Tickets : results[t] = "queued" ~> results[t] \in Completed \/ ~up
ResultFreed == \A t \in Tickets : results[t] \in Completed ~> results[t] = "none"

(* The queue and its client keep the promise of submitAndConfirm.           *)
Fate(t) ==
  IF chain[t] = "landed" THEN "landed"
  ELSE IF client[t] # "idle" /\ Dead(t) THEN "dead" ELSE "open"
Promise == INSTANCE TxSubmission
             WITH Calls <- Tickets, outcome <- client, fate <- [t \in Tickets |-> Fate(t)]
KeepsPromise == Promise!Spec
=============================================================================
