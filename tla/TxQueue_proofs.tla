--------------------------- MODULE TxQueue_proofs ---------------------------
(***************************************************************************)
(* Proofs about TxQueue, for any number of tickets and any timeouts; what  *)
(* needs the absence of a fault says so.                                   *)
(***************************************************************************)
EXTENDS TxQueue, SequenceTheorems, TLAPS

(* Begin keeps the types of what it changes.                                *)
LEMMA BeginTyped ==
  ASSUME TypeOK, NEW l \in Tickets, NEW q \in Seq(Tickets), q # <<>>,
         NEW res \in [Tickets -> Statuses], Begin(l, q, res)
  PROVE  /\ queue' \in Seq(Tickets)
         /\ results' \in [Tickets -> Statuses]
         /\ loop' \in [Tickets -> Tickets \cup {NoLoop, Between}]
<1>1. Head(q) \in Tickets /\ Tail(q) \in Seq(Tickets)
  BY HeadTailProperties
<1>2. CASE res[Head(q)] = "none"
  BY <1>1, <1>2 DEF TypeOK, Begin
<1>3. CASE res[Head(q)] # "none"
  BY <1>1, <1>3 DEF TypeOK, Begin, Statuses
<1> QED BY <1>2, <1>3

(* So does Complete.                                                        *)
LEMMA CompleteTyped ==
  ASSUME TypeOK, NEW l \in Tickets, loop[l] \in Tickets, NEW o \in Completed,
         Complete(l, o)
  PROVE  /\ results' \in [Tickets -> Statuses]
         /\ keepLeft' \in [Tickets -> 0..ResultTTL]
         /\ loop' \in [Tickets -> Tickets \cup {NoLoop, Between}]
<1>1. ResultTTL \in 0..ResultTTL /\ o \in Statuses
  BY ConstantsAssumption DEF Statuses
<1> QED BY <1>1 DEF TypeOK, Complete, KeepFor

(* Every step keeps the types: one case per action.                         *)
LEMMA TypeStep == TypeOK /\ [Next]_vars => TypeOK'
<1> SUFFICES ASSUME TypeOK, [Next]_vars PROVE TypeOK'
  OBVIOUS
<1> USE ConstantsAssumption
<1>1. ASSUME NEW t \in Tickets, Submit(t) PROVE TypeOK'
  <2> DEFINE q == Enqueue(queue, t)
             res == [results EXCEPT ![t] = "queued"]
  <2>1. q \in Seq(Tickets) /\ q # <<>> /\ res \in [Tickets -> Statuses]
    <3>1. q \in Seq(Tickets) /\ q # <<>>
      <4>1. queue \in Seq(Tickets)
        BY DEF TypeOK
      <4> QED BY <4>1, AppendProperties DEF Enqueue
    <3> QED BY <3>1 DEF TypeOK, Statuses
  <2>2. /\ queue' \in Seq(Tickets)
        /\ results' \in [Tickets -> Statuses]
        /\ loop' \in [Tickets -> Tickets \cup {NoLoop, Between}]
        /\ processing' \in BOOLEAN
    <3>1. CASE Idle
      BY <1>1, <2>1, <3>1, BeginTyped DEF Submit
    <3>2. CASE ~Idle
      BY <1>1, <2>1, <3>2 DEF Submit, TypeOK
    <3> QED BY <3>1, <3>2
  <2>3. ClientTimeout \in 0..ClientTimeout /\ BlockhashTTL \in 0..BlockhashTTL
    OBVIOUS
  <2>4. /\ ticketCounter' \in Nat /\ number' \in [Tickets -> Nat]
        /\ UNCHANGED <<up, signature, confirmLeft, keepLeft, lastKnownSignature, chain>>
    BY <1>1 DEF Submit, TypeOK
  <2>5. /\ client' \in [Tickets -> {"idle", "polling"} \cup Outcomes]
        /\ clientLeft' \in [Tickets -> 0..ClientTimeout]
        /\ validLeft' \in [Tickets -> 0..BlockhashTTL]
    BY <1>1, <2>3 DEF Submit, TypeOK
  <2> QED BY <2>2, <2>4, <2>5 DEF TypeOK
<1>2. ASSUME NEW t \in Tickets, Refuse(t) PROVE TypeOK'
  BY <1>2 DEF Refuse, TypeOK, nexusVars, chainVars, Outcomes
<1>3. ASSUME NEW l \in Tickets, NextJob(l) PROVE TypeOK'
  <2>1. CASE queue = <<>>
    BY <1>3, <2>1 DEF NextJob, TypeOK, clientVars, chainVars
  <2>2. CASE queue # <<>>
    <3>1. /\ queue' \in Seq(Tickets)
          /\ results' \in [Tickets -> Statuses]
          /\ loop' \in [Tickets -> Tickets \cup {NoLoop, Between}]
      BY <1>3, <2>2, BeginTyped DEF NextJob, TypeOK
    <3> QED BY <1>3, <2>2, <3>1 DEF NextJob, TypeOK, clientVars, chainVars
  <2> QED BY <2>1, <2>2
<1>4. ASSUME NEW l \in Tickets, SendOk(l) PROVE TypeOK'
  <2>1. ConfirmTimeout \in 0..ConfirmTimeout
    OBVIOUS
  <2> QED BY <1>4, <2>1 DEF SendOk, At, TypeOK, Statuses, clientVars, chainVars
<1>5. ASSUME NEW l \in Tickets, SendError(l) PROVE TypeOK'
  <2>1. loop[l] \in Tickets /\ Complete(l, "failed") /\ "failed" \in Completed
    BY <1>5 DEF SendError, At, Completed
  <2>2. /\ results' \in [Tickets -> Statuses]
        /\ keepLeft' \in [Tickets -> 0..ResultTTL]
        /\ loop' \in [Tickets -> Tickets \cup {NoLoop, Between}]
    BY <2>1, CompleteTyped
  <2> QED BY <1>5, <2>2 DEF SendError, TypeOK, clientVars, chainVars
<1>6. ASSUME NEW l \in Tickets, ConfirmResult(l) PROVE TypeOK'
  <2>1. PICK o \in Completed : Complete(l, o)
    BY <1>6 DEF ConfirmResult, ErrorStatus, Completed
  <2>2. loop[l] \in Tickets
    BY <1>6 DEF ConfirmResult, At
  <2>3. /\ results' \in [Tickets -> Statuses]
        /\ keepLeft' \in [Tickets -> 0..ResultTTL]
        /\ loop' \in [Tickets -> Tickets \cup {NoLoop, Between}]
    BY <2>1, <2>2, CompleteTyped
  <2>4. UNCHANGED <<up, signature, queue, processing, ticketCounter, number,
                    confirmLeft, clientVars, chainVars>>
    BY <1>6 DEF ConfirmResult
  <2> QED BY <2>3, <2>4 DEF TypeOK, clientVars, chainVars
<1>7. ASSUME NEW t \in Tickets, ClientStep(t) PROVE TypeOK'
  <2>1. \A o \in {"polling"} \cup Outcomes, s \in BOOLEAN :
          SettleOrGiveUp(t, o, s) =>
            /\ client' \in [Tickets -> {"idle", "polling"} \cup Outcomes]
            /\ clientLeft' = clientLeft
    BY DEF SettleOrGiveUp, Settle, GiveUp, Outcomes, TypeOK
  <2>2. Verdict(results[t]) \in {"polling"} \cup Outcomes
    BY DEF Verdict, Outcomes
  <2>3. CASE ClientPoll(t)
    BY <2>1, <2>2, <2>3 DEF ClientPoll, TypeOK, nexusVars, chainVars
  <2>4. CASE ClientHttpError(t)
    BY <2>1, <2>4 DEF ClientHttpError, TypeOK, nexusVars, chainVars
  <2>5. CASE ClientNotFound(t) \/ ClientRejected(t)
    BY <2>5 DEF ClientNotFound, ClientRejected, Settle, GiveUp, Outcomes, TypeOK,
                nexusVars, chainVars
  <2> QED BY <1>7, <2>3, <2>4, <2>5 DEF ClientStep
<1>8. ASSUME NEW t \in Tickets, RpcAccepts(t) \/ Land(t) PROVE TypeOK'
  BY <1>8 DEF RpcAccepts, Land, At, TypeOK, nexusVars, clientVars
<1>9. CASE Cleanup
  BY <1>9 DEF Cleanup, TypeOK, Statuses, clientVars, chainVars
<1>10. CASE Crash
  <2>1. <<>> \in Seq(Tickets) /\ 0 \in 0..ConfirmTimeout /\ 0 \in 0..ResultTTL
    BY EmptySeq
  <2> QED BY <1>10, <2>1 DEF Crash, TypeOK, Statuses, clientVars, chainVars
<1>11. CASE Start
  BY <1>11 DEF Start, TypeOK, nexusVars, clientVars, chainVars
<1>12. CASE Tick
  <2>1. \A max \in Nat : \A c \in [Tickets -> 0..max] : Down(c) \in [Tickets -> 0..max]
    BY DEF Down
  <2> QED BY <1>12, <2>1 DEF Tick, TypeOK
<1>13. CASE UNCHANGED vars
  BY <1>13 DEF vars, nexusVars, clientVars, chainVars, TypeOK
<1> QED
  BY <1>1, <1>2, <1>3, <1>4, <1>5, <1>6, <1>7, <1>8, <1>9, <1>10, <1>11, <1>12,
     <1>13 DEF Next, LoopStep

(* Every variable keeps its type, whatever happens to submits, polls, RPC   *)
(* calls and the Nexus process.                                             *)
THEOREM Typing == Spec => []TypeOK
<1>1. Init => TypeOK
  <2> SUFFICES ASSUME Init PROVE TypeOK
    OBVIOUS
  <2>1. /\ <<>> \in Seq(Tickets) /\ 0 \in 0..ConfirmTimeout /\ 0 \in 0..ResultTTL
        /\ 0 \in 0..ClientTimeout /\ 0 \in 0..BlockhashTTL
    BY EmptySeq, ConstantsAssumption
  <2>2. /\ up \in BOOLEAN /\ queue \in Seq(Tickets) /\ processing \in BOOLEAN
        /\ ticketCounter \in Nat /\ number \in [Tickets -> Nat]
        /\ results \in [Tickets -> Statuses] /\ signature \in [Tickets -> BOOLEAN]
        /\ loop \in [Tickets -> Tickets \cup {NoLoop, Between}]
    BY <2>1 DEF Init, Statuses
  <2>3. /\ confirmLeft \in [Tickets -> 0..ConfirmTimeout]
        /\ keepLeft \in [Tickets -> 0..ResultTTL]
        /\ clientLeft \in [Tickets -> 0..ClientTimeout]
        /\ validLeft \in [Tickets -> 0..BlockhashTTL]
    BY <2>1 DEF Init
  <2>4. /\ client \in [Tickets -> {"idle", "polling"} \cup Outcomes]
        /\ lastKnownSignature \in [Tickets -> BOOLEAN]
        /\ chain \in [Tickets -> {"unsent", "pending", "landed", "reverted"}]
    BY DEF Init
  <2> QED BY <2>2, <2>3, <2>4 DEF TypeOK
<1> QED BY <1>1, TypeStep, PTL DEF Spec

-----------------------------------------------------------------------------
(* The inductive invariant of the queue.                                    *)

Flying == {"sending", "confirming"}

(* At most one loop, none while the flag is down, and the jobs in flight    *)
(* are exactly those a loop holds.                                          *)
OneLoop(lp, res, proc) ==
  /\ \A l, m \in Tickets : lp[l] # NoLoop /\ lp[m] # NoLoop => l = m
  /\ ~proc => \A l \in Tickets : lp[l] = NoLoop
  /\ \A l \in Tickets : lp[l] \in Tickets => res[lp[l]] \in Flying
  /\ \A t \in Tickets : res[t] \in Flying => \E l \in Tickets : lp[l] = t

(* The queue holds exactly the tickets in status 'queued', in the order of  *)
(* their numbers, and none of them is overtaken.                            *)
QueueOK(q, res, num) ==
  /\ \A i \in 1..Len(q) : res[q[i]] = "queued"
  /\ \A t \in Tickets : res[t] = "queued" => \E i \in 1..Len(q) : q[i] = t
  /\ \A i, j \in 1..Len(q) : i < j => num[q[i]] < num[q[j]]
  /\ \A t, u \in Tickets : res[t] = "queued" /\ num[t] < num[u] => res[u] = "queued"

QInv ==
  /\ OneLoop(loop, results, processing)
  /\ QueueOK(queue, results, number)
  /\ ~processing => queue = <<>>
  /\ \A t \in Tickets : number[t] <= ticketCounter
  /\ \A t \in Tickets : client[t] = "idle" => results[t] = "none"

(* Taking the head keeps the order of the rest and starts the oldest.       *)
LEMMA BeginOrder ==
  ASSUME NEW l \in Tickets, NEW q \in Seq(Tickets), q # <<>>,
         NEW res \in [Tickets -> Statuses], NEW num \in [Tickets -> Nat],
         QueueOK(q, res, num), Begin(l, q, res)
  PROVE  /\ QueueOK(queue', results', num)
         /\ Head(q) \in Tickets
         /\ results' = [res EXCEPT ![Head(q)] = "sending"]
         /\ loop' = [loop EXCEPT ![l] = Head(q)]
<1> DEFINE h == Head(q)
<1>1. /\ h \in Tickets /\ h = q[1] /\ Len(q) \in Nat /\ Len(q) >= 1
      /\ queue' \in Seq(Tickets) /\ queue' = Tail(q)
      /\ Len(queue') = Len(q) - 1 /\ Len(queue') \in Nat
      /\ \A i \in 1..Len(queue') : queue'[i] = q[i + 1]
      /\ \A i \in 1..Len(q) : q[i] \in Tickets
  BY HeadTailProperties, EmptySeq, ElementOfSeq, LenProperties DEF Begin
<1>2. res[h] = "queued"
  BY <1>1 DEF QueueOK
<1>3. /\ results' = [res EXCEPT ![h] = "sending"]
      /\ loop' = [loop EXCEPT ![l] = h]
  BY <1>2 DEF Begin
<1>4. \A i \in 1..Len(q) : i # 1 => q[i] # h /\ num[h] < num[q[i]]
  BY <1>1 DEF QueueOK
<1>5. \A i \in 1..Len(queue') : results'[queue'[i]] = "queued"
  BY <1>1, <1>3, <1>4 DEF QueueOK
<1>6. ASSUME NEW t \in Tickets, results'[t] = "queued"
      PROVE  \E i \in 1..Len(queue') : queue'[i] = t
  <2>1. t # h /\ res[t] = "queued"
    BY <1>1, <1>3, <1>6
  <2>2. PICK i \in 1..Len(q) : q[i] = t
    BY <2>1 DEF QueueOK
  <2>3. i - 1 \in 1..Len(queue') /\ queue'[i - 1] = t
    BY <1>1, <2>1, <2>2
  <2> QED BY <2>3
<1>7. \A i, j \in 1..Len(queue') : i < j => num[queue'[i]] < num[queue'[j]]
  BY <1>1 DEF QueueOK
<1>8. ASSUME NEW t \in Tickets, NEW u \in Tickets,
             results'[t] = "queued", num[t] < num[u]
      PROVE  results'[u] = "queued"
  <2>1. t # h /\ res[t] = "queued"
    BY <1>1, <1>3, <1>8
  <2>2. PICK i \in 1..Len(q) : q[i] = t
    BY <2>1 DEF QueueOK
  <2>3. num[h] < num[t]
    BY <1>1, <1>4, <2>1, <2>2
  <2>4. u # h
    BY <1>1, <1>8, <2>3
  <2> QED BY <1>3, <1>8, <2>1, <2>4 DEF QueueOK
<1> QED BY <1>1, <1>3, <1>5, <1>6, <1>7, <1>8 DEF QueueOK

(* A finished job leaves its loop between two jobs.                         *)
LEMMA CompleteStep ==
  ASSUME TypeOK, QInv, NEW l \in Tickets, loop[l] \in Tickets,
         NEW o \in Completed, Complete(l, o), client' = client,
         UNCHANGED <<queue, processing, ticketCounter, number>>
  PROVE  QInv'
<1> DEFINE j == loop[l]
<1>1. /\ results' = [results EXCEPT ![j] = o]
      /\ loop' = [loop EXCEPT ![l] = Between]
      /\ o \notin Flying /\ o # "queued" /\ o # "none"
  BY DEF Complete, Completed, Flying
<1>2. results[j] \in Flying /\ results[j] # "queued" /\ results[j] # "none"
  BY DEF QInv, OneLoop, Flying
<1>3. OneLoop(loop', results', processing')
  <2>1. /\ Between \notin Tickets /\ Between # NoLoop /\ NoLoop \notin Tickets
        /\ loop[l] # NoLoop
    BY ConstantsAssumption
  <2>2. \A m \in Tickets : m # l => loop'[m] = loop[m] /\ loop[m] = NoLoop
    BY <1>1, <2>1 DEF TypeOK, QInv, OneLoop
  <2>3. loop'[l] = Between
    BY <1>1 DEF TypeOK
  <2>4. processing
    BY <2>1 DEF QInv, OneLoop
  <2>5. \A t \in Tickets : results'[t] \notin Flying
    <3> TAKE t \in Tickets
    <3>1. CASE t = j
      BY <1>1, <3>1 DEF TypeOK
    <3>2. CASE t # j
      <4>1. results'[t] = results[t]
        BY <1>1, <3>2 DEF TypeOK
      <4>2. \A m \in Tickets : loop[m] # t
        BY <2>1, <2>2, <3>2
      <4> QED BY <4>1, <4>2 DEF QInv, OneLoop
    <3> QED BY <3>1, <3>2
  <2> QED BY <2>1, <2>2, <2>3, <2>4, <2>5 DEF OneLoop
<1>4. QueueOK(queue', results', number')
  <2>1. /\ \A i \in 1..Len(queue) : queue[i] \in Tickets
        /\ queue' = queue /\ number' = number
    BY ElementOfSeq DEF TypeOK
  <2>2. \A t \in Tickets : results'[t] = "queued" <=> results[t] = "queued"
    BY <1>1, <1>2 DEF TypeOK
  <2> QED BY <2>1, <2>2 DEF QInv, QueueOK
<1>5. \A t \in Tickets : client'[t] = "idle" => results'[t] = "none"
  BY <1>1, <1>2 DEF TypeOK, QInv
<1> QED BY <1>3, <1>4, <1>5 DEF QInv

(* A step that touches nothing of the queue keeps its invariant.            *)
LEMMA QuietStep ==
  ASSUME QInv, \A t \in Tickets : client'[t] = "idle" => client[t] = "idle",
         UNCHANGED <<results, queue, processing, ticketCounter, number, loop>>
  PROVE  QInv'
BY DEF QInv

LEMMA QStep == TypeOK /\ TypeOK' /\ QInv /\ [Next]_vars => QInv'
<1> SUFFICES ASSUME TypeOK, TypeOK', QInv, [Next]_vars PROVE QInv'
  OBVIOUS
<1>1. ASSUME NEW t \in Tickets, Submit(t) PROVE QInv'
  <2> DEFINE q == Enqueue(queue, t)
             res == [results EXCEPT ![t] = "queued"]
             num == [number EXCEPT ![t] = ticketCounter + 1]
  <2>1. /\ client[t] = "idle" /\ results[t] = "none"
        /\ number' = num /\ ticketCounter' = ticketCounter + 1
        /\ client' = [client EXCEPT ![t] = "polling"]
    BY <1>1 DEF Submit, QInv
  <2>2. /\ q \in Seq(Tickets) /\ q # <<>> /\ Len(q) = Len(queue) + 1
        /\ Len(queue) \in Nat /\ q[Len(queue) + 1] = t
        /\ \A i \in 1..Len(queue) : q[i] = queue[i] /\ queue[i] \in Tickets
    <3>1. queue \in Seq(Tickets)
      BY DEF TypeOK
    <3> QED BY <3>1, AppendProperties, ElementOfSeq, LenProperties DEF Enqueue
  <2>3. /\ res \in [Tickets -> Statuses] /\ num \in [Tickets -> Nat]
        /\ res[t] = "queued" /\ num[t] = ticketCounter + 1
        /\ \A u \in Tickets : u # t => res[u] = results[u] /\ num[u] = number[u]
    BY DEF TypeOK, Statuses
  <2>4. \A u \in Tickets : num[u] <= ticketCounter + 1 /\ (u # t => num[u] <= ticketCounter)
    <3> TAKE u \in Tickets
    <3>1. ticketCounter \in Nat /\ number[u] \in Nat /\ number[u] <= ticketCounter
      BY DEF TypeOK, QInv
    <3>2. num[u] = IF u = t THEN ticketCounter + 1 ELSE number[u]
      BY <2>3
    <3> HIDE DEF num
    <3> QED BY <3>1, <3>2
  <2>5. QueueOK(q, res, num)
    <3>1. \A i \in 1..Len(queue) : q[i] # t
      BY <2>1, <2>2 DEF QInv, QueueOK
    <3>2. \A i \in 1..Len(q) : i = Len(queue) + 1 \/ i \in 1..Len(queue)
      BY <2>2
    <3>3. \A i \in 1..Len(q) : res[q[i]] = "queued"
      BY <2>2, <2>3, <3>2 DEF QInv, QueueOK
    <3>4. \A u \in Tickets : res[u] = "queued" => \E i \in 1..Len(q) : q[i] = u
      <4> TAKE u \in Tickets
      <4> HAVE res[u] = "queued"
      <4>1. CASE u = t
        BY <2>2, <4>1
      <4>2. CASE u # t
        <5>1. PICK i \in 1..Len(queue) : queue[i] = u
          BY <2>3, <4>2 DEF QInv, QueueOK
        <5> QED BY <2>2, <5>1
      <4> QED BY <4>1, <4>2
    <3>5. \A i, j \in 1..Len(q) : i < j => num[q[i]] < num[q[j]]
      <4> TAKE i, j \in 1..Len(q)
      <4> HAVE i < j
      <4>1. i \in 1..Len(queue) /\ q[i] = queue[i] /\ q[i] # t /\ q[i] \in Tickets
        BY <2>2, <3>1
      <4>2. CASE j = Len(queue) + 1
        <5>1. num[q[i]] <= ticketCounter /\ num[q[i]] \in Nat /\ ticketCounter \in Nat
          BY <2>3, <2>4, <4>1 DEF TypeOK
        <5>2. num[q[j]] = ticketCounter + 1
          BY <2>2, <2>3, <4>2
        <5> HIDE DEF q, num
        <5> QED BY <5>1, <5>2
      <4>3. CASE j \in 1..Len(queue)
        BY <2>2, <2>3, <3>1, <4>1, <4>3 DEF QInv, QueueOK
      <4> QED BY <3>2, <4>2, <4>3
    <3>6. \A u, v \in Tickets : res[u] = "queued" /\ num[u] < num[v] => res[v] = "queued"
      <4> TAKE u, v \in Tickets
      <4> HAVE res[u] = "queued" /\ num[u] < num[v]
      <4>1. CASE v = t
        BY <2>3, <4>1
      <4>2. CASE v # t
        <5>1. u # t
          <6>1. /\ num[v] <= ticketCounter /\ num[v] \in Nat /\ ticketCounter \in Nat
                /\ num[t] = ticketCounter + 1
            BY <2>3, <2>4, <4>2 DEF TypeOK
          <6> HIDE DEF num
          <6> QED BY <6>1
        <5> QED BY <2>3, <4>2, <5>1 DEF QInv, QueueOK
      <4> QED BY <4>1, <4>2
    <3> QED BY <3>3, <3>4, <3>5, <3>6 DEF QueueOK
  <2>6. \A u \in Tickets : number'[u] <= ticketCounter'
    BY <2>1, <2>4
  <2>7. \A u \in Tickets : client'[u] = "idle" => u # t /\ results[u] = "none"
    BY <2>1 DEF TypeOK, QInv
  <2> HIDE DEF q, res, num
  <2>8. CASE Idle
    <3>1. Begin(t, q, res) /\ processing'
      BY <1>1, <2>8 DEF Submit, q, res
    <3>2. /\ QueueOK(queue', results', num)
          /\ results' = [res EXCEPT ![Head(q)] = "sending"]
          /\ loop' = [loop EXCEPT ![t] = Head(q)]
      BY <2>2, <2>3, <2>5, <3>1, BeginOrder
    <3>3. q = <<t>> /\ Head(q) = t /\ queue' = <<>> /\ \A u \in Tickets : loop[u] = NoLoop
      BY <2>8, <3>1 DEF QInv, OneLoop, Idle, Begin, q, Enqueue
    <3>4. \A u \in Tickets : results[u] \notin Flying
      BY <3>3, ConstantsAssumption DEF QInv, OneLoop
    <3>5. OneLoop(loop', results', processing')
      <4>1. \A u \in Tickets : u # t => loop'[u] = NoLoop /\ results'[u] \notin Flying
        BY <2>3, <3>2, <3>3, <3>4 DEF TypeOK
      <4>2. loop'[t] = t /\ results'[t] \in Flying
        BY <2>3, <3>2, <3>3 DEF TypeOK, Flying
      <4> QED BY <3>1, <4>1, <4>2, ConstantsAssumption DEF OneLoop
    <3>6. \A u \in Tickets : client'[u] = "idle" => results'[u] = "none"
      BY <2>3, <2>7, <3>2, <3>3
    <3> QED BY <2>1, <2>6, <3>1, <3>2, <3>5, <3>6 DEF QInv
  <2>9. CASE ~Idle
    <3>1. queue' = q /\ results' = res /\ UNCHANGED <<processing, loop>>
      BY <1>1, <2>9 DEF Submit, q, res
    <3>2. OneLoop(loop', results', processing')
      <4>1. \A u \in Tickets : results'[u] \in Flying <=> results[u] \in Flying
        BY <2>1, <2>3, <3>1 DEF Flying
      <4> QED BY <3>1, <4>1 DEF QInv, OneLoop
    <3>3. \A u \in Tickets : client'[u] = "idle" => results'[u] = "none"
      BY <2>3, <2>7, <3>1
    <3> QED BY <2>1, <2>5, <2>6, <2>9, <3>1, <3>2, <3>3 DEF QInv, Idle
  <2> QED BY <2>8, <2>9
<1>2. ASSUME NEW l \in Tickets, NextJob(l) PROVE QInv'
  <2>1. /\ loop[l] = Between
        /\ UNCHANGED <<number, ticketCounter, client>>
        /\ \A m \in Tickets : m # l => loop[m] = NoLoop
        /\ \A t \in Tickets : results[t] \notin Flying
        /\ processing
    <3>1. /\ loop[l] = Between /\ UNCHANGED <<number, ticketCounter, client>>
          /\ Between # NoLoop /\ Between \notin Tickets /\ NoLoop \notin Tickets
      BY <1>2, ConstantsAssumption DEF NextJob, clientVars
    <3> QED BY <3>1 DEF QInv, OneLoop
  <2>2. CASE queue = <<>>
    <3>1. /\ ~processing' /\ UNCHANGED <<queue, results>>
          /\ loop' = [loop EXCEPT ![l] = NoLoop]
      BY <1>2, <2>2 DEF NextJob
    <3>2. \A m \in Tickets : loop'[m] = NoLoop
      BY <2>1, <3>1 DEF TypeOK
    <3>3. OneLoop(loop', results', processing')
      BY <2>1, <3>1, <3>2, ConstantsAssumption DEF OneLoop
    <3> QED BY <2>1, <2>2, <3>1, <3>3 DEF QInv
  <2>3. CASE queue # <<>>
    <3>1. Begin(l, queue, results) /\ UNCHANGED processing
      BY <1>2, <2>3 DEF NextJob
    <3>2. /\ QueueOK(queue', results', number)
          /\ Head(queue) \in Tickets
          /\ results' = [results EXCEPT ![Head(queue)] = "sending"]
          /\ loop' = [loop EXCEPT ![l] = Head(queue)]
      BY <2>3, <3>1, BeginOrder DEF TypeOK, QInv
    <3>3. OneLoop(loop', results', processing')
      <4>1. \A m \in Tickets : m # l => loop'[m] = NoLoop
        BY <2>1, <3>2 DEF TypeOK
      <4>2. \A t \in Tickets : results'[t] \in Flying <=> t = Head(queue)
        BY <2>1, <3>2 DEF TypeOK, Flying
      <4>3. loop'[l] = Head(queue)
        BY <3>2 DEF TypeOK
      <4> QED BY <2>1, <3>1, <3>2, <4>1, <4>2, <4>3, ConstantsAssumption DEF OneLoop
    <3>4. \A t \in Tickets : client'[t] = "idle" => results'[t] = "none"
      <4>1. results[Head(queue)] = "queued"
        <5>1. Head(queue) = queue[1] /\ 1 \in 1..Len(queue)
          BY <2>3, EmptySeq DEF TypeOK
        <5> QED BY <5>1 DEF QInv, QueueOK
      <4> QED BY <2>1, <3>2, <4>1 DEF QInv, TypeOK
    <3> QED BY <2>1, <3>1, <3>2, <3>3, <3>4 DEF QInv
  <2> QED BY <2>2, <2>3
<1>3. ASSUME NEW l \in Tickets, SendOk(l) PROVE QInv'
  <2>1. /\ loop[l] \in Tickets /\ results[loop[l]] = "sending"
        /\ results' = [results EXCEPT ![loop[l]] = "confirming"]
        /\ UNCHANGED <<queue, processing, ticketCounter, number, loop, client>>
    BY <1>3 DEF SendOk, At, clientVars
  <2>2. \A t \in Tickets :
        /\ results'[t] \in Flying <=> results[t] \in Flying
        /\ results'[t] = "queued" <=> results[t] = "queued"
        /\ results'[t] = "none" <=> results[t] = "none"
    <3> TAKE t \in Tickets
    <3>1. CASE t = loop[l]
      <4>1. results[t] = "sending" /\ results'[t] = "confirming"
        BY <2>1, <3>1 DEF TypeOK
      <4> QED BY <4>1 DEF Flying
    <3>2. CASE t # loop[l]
      <4>1. results'[t] = results[t]
        BY <2>1, <3>2 DEF TypeOK
      <4> QED BY <4>1
    <3> QED BY <3>1, <3>2
  <2>3. OneLoop(loop', results', processing')
    BY <2>1, <2>2 DEF QInv, OneLoop
  <2>4. QueueOK(queue', results', number')
    <3>1. \A i \in 1..Len(queue) : queue[i] \in Tickets
      BY ElementOfSeq DEF TypeOK
    <3> QED BY <2>1, <2>2, <3>1 DEF QInv, QueueOK
  <2> QED BY <2>1, <2>2, <2>3, <2>4 DEF QInv
<1>4. ASSUME NEW l \in Tickets, SendError(l) PROVE QInv'
  BY <1>4, CompleteStep DEF SendError, At, clientVars, Completed
<1>5. ASSUME NEW l \in Tickets, ConfirmResult(l) PROVE QInv'
  <2>1. PICK o \in Completed : Complete(l, o)
    BY <1>5 DEF ConfirmResult, ErrorStatus, Completed
  <2> QED BY <1>5, <2>1, CompleteStep DEF ConfirmResult, At, clientVars
<1>6. ASSUME NEW t \in Tickets,
             Refuse(t) \/ ClientStep(t) \/ RpcAccepts(t) \/ Land(t)
      PROVE  QInv'
  <2>1. UNCHANGED <<results, queue, processing, ticketCounter, number, loop>>
    BY <1>6 DEF Refuse, ClientStep, ClientPoll, ClientHttpError, ClientNotFound,
                ClientRejected, RpcAccepts, Land, nexusVars
  <2>2. CASE Refuse(t) \/ RpcAccepts(t) \/ Land(t)
    BY <2>1, <2>2, QuietStep DEF Refuse, RpcAccepts, Land, clientVars, TypeOK
  <2>3. CASE ClientStep(t)
    <3>1. client[t] = "polling" /\ \E o : client' = [client EXCEPT ![t] = o]
      BY <2>3 DEF ClientStep, ClientPoll, ClientHttpError, ClientNotFound,
                  ClientRejected, SettleOrGiveUp, Settle
    <3>2. \A u \in Tickets : client'[u] = "idle" => client[u] = "idle" \/ u = t
      BY <3>1 DEF TypeOK
    <3>3. client'[t] # "idle"
      BY <2>3 DEF ClientStep, ClientPoll, ClientHttpError, ClientNotFound,
                  ClientRejected, SettleOrGiveUp, Settle, GiveUp, Verdict, TypeOK
    <3> QED BY <2>1, <3>2, <3>3, QuietStep
  <2> QED BY <1>6, <2>2, <2>3
<1>7. CASE Cleanup
  <2>1. /\ results' = [t \in Tickets |-> IF Expired(t) THEN "none" ELSE results[t]]
        /\ UNCHANGED <<queue, processing, ticketCounter, number, loop, client>>
    BY <1>7 DEF Cleanup, clientVars
  <2>2. \A t \in Tickets :
        /\ results'[t] \in Flying <=> results[t] \in Flying
        /\ results'[t] = "queued" <=> results[t] = "queued"
        /\ results[t] = "none" => results'[t] = "none"
    <3> TAKE t \in Tickets
    <3>1. CASE Expired(t)
      <4>1. results[t] \in Completed /\ results'[t] = "none"
        BY <2>1, <3>1 DEF Expired
      <4> QED BY <4>1 DEF Completed, Flying
    <3>2. CASE ~Expired(t)
      <4>1. results'[t] = results[t]
        BY <2>1, <3>2
      <4> QED BY <4>1
    <3> QED BY <3>1, <3>2
  <2>3. OneLoop(loop', results', processing')
    BY <2>1, <2>2 DEF QInv, OneLoop
  <2>4. QueueOK(queue', results', number')
    <3>1. \A i \in 1..Len(queue) : queue[i] \in Tickets
      BY ElementOfSeq DEF TypeOK
    <3> QED BY <2>1, <2>2, <3>1 DEF QInv, QueueOK
  <2> QED BY <2>1, <2>2, <2>3, <2>4 DEF QInv
<1>8. CASE Crash
  <2>1. /\ ~processing' /\ queue' = <<>> /\ Len(queue') = 0 /\ ticketCounter' = 0
        /\ \A t \in Tickets : results'[t] = "none" /\ number'[t] = 0 /\ loop'[t] = NoLoop
    BY <1>8, EmptySeq DEF Crash
  <2>2. OneLoop(loop', results', processing')
    BY <2>1, ConstantsAssumption DEF OneLoop, Flying
  <2>3. QueueOK(queue', results', number')
    BY <2>1 DEF QueueOK
  <2> QED BY <2>1, <2>2, <2>3 DEF QInv
<1>9. CASE Start \/ Tick \/ UNCHANGED vars
  BY <1>9, QuietStep DEF Start, Tick, vars, nexusVars, clientVars
<1> QED
  BY <1>1, <1>2, <1>3, <1>4, <1>5, <1>6, <1>7, <1>8, <1>9 DEF Next, LoopStep

LEMMA QInvariant == Spec => [](TypeOK /\ QInv)
<1>1. Init => QInv
  <2> SUFFICES ASSUME Init PROVE QInv
    OBVIOUS
  <2>1. /\ ~processing /\ queue = <<>> /\ Len(queue) = 0 /\ ticketCounter = 0
        /\ \A t \in Tickets : results[t] = "none" /\ number[t] = 0 /\ loop[t] = NoLoop
    BY EmptySeq DEF Init
  <2>2. OneLoop(loop, results, processing)
    BY <2>1, ConstantsAssumption DEF OneLoop, Flying
  <2>3. QueueOK(queue, results, number)
    BY <2>1 DEF QueueOK
  <2> QED BY <2>1, <2>2, <2>3 DEF QInv
<1>2. TypeOK /\ [Next]_vars => TypeOK'
  BY TypeStep
<1> QED BY <1>1, <1>2, QStep, Typing, PTL DEF Spec

(* Never more than one send and confirmation under way, under any faults.   *)
THEOREM OneAtATime == Spec => []SingleFlight
<1>1. TypeOK /\ QInv => SingleFlight
  <2> SUFFICES ASSUME QInv, NEW t \in InFlight, NEW u \in InFlight PROVE t = u
    BY DEF SingleFlight
  <2>1. t \in Tickets /\ u \in Tickets /\ results[t] \in Flying /\ results[u] \in Flying
    BY DEF InFlight, Flying
  <2>2. PICK l \in Tickets, m \in Tickets : loop[l] = t /\ loop[m] = u
    BY <2>1 DEF QInv, OneLoop
  <2>3. l = m
    BY <2>1, <2>2, ConstantsAssumption DEF QInv, OneLoop
  <2> QED BY <2>2, <2>3
<1> QED BY <1>1, QInvariant, PTL

(* Tickets are started in the order of their numbers, under any faults.     *)
THEOREM StrictFifo == Spec => []FifoOrder
<1>1. QInv => FifoOrder
  BY DEF QInv, QueueOK, FifoOrder
<1> QED BY <1>1, QInvariant, PTL

(* The clean-up never takes the result of an open ticket.                   *)
THEOREM OpenTicketsKept == Spec => []OpenTicketTracked
<1>1. QInv => OpenTicketTracked
  BY DEF QInv, QueueOK, OneLoop, OpenTicketTracked, Flying
<1> QED BY <1>1, QInvariant, PTL

-----------------------------------------------------------------------------
(* The statuses and the chain.                                              *)

(* A submit touches no other ticket.                                        *)
LEMMA SubmitEffect ==
  ASSUME TypeOK, QInv, NEW t \in Tickets, Submit(t)
  PROVE  /\ results'[t] \in {"queued", "sending"}
         /\ \A u \in Tickets : u # t => results'[u] = results[u]
<1> DEFINE q == Append(queue, t)
           res == [results EXCEPT ![t] = "queued"]
<1>1. CASE Idle
  <2>1. queue = <<>> /\ Head(q) = t
    BY <1>1, AppendProperties, HeadTailProperties, EmptySeq DEF Idle, QInv, TypeOK
  <2>2. Begin(t, q, res)
    BY <1>1 DEF Submit, Enqueue
  <2>3. results' = res \/ results' = [res EXCEPT ![t] = "sending"]
    BY <2>1, <2>2 DEF Begin
  <2> QED BY <2>3 DEF TypeOK
<1>2. CASE ~Idle
  <2>1. results' = res
    BY <1>2 DEF Submit
  <2> QED BY <2>1 DEF TypeOK
<1> QED BY <1>1, <1>2

(* The head of the loop starts a ticket that waits, if it does anything.    *)
LEMMA NextJobEffect ==
  ASSUME TypeOK, QInv, NEW l \in Tickets, NextJob(l)
  PROVE  \A u \in Tickets :
           results'[u] = results[u] \/ (results[u] = "queued" /\ results'[u] = "sending")
<1>1. CASE queue = <<>>
  BY <1>1 DEF NextJob
<1>2. CASE queue # <<>>
  <2>1. Begin(l, queue, results)
    BY <1>2 DEF NextJob
  <2>2. results[Head(queue)] = "queued"
    BY <1>2, HeadTailProperties, EmptySeq, LenProperties DEF TypeOK, QInv, QueueOK
  <2>3. results' = [results EXCEPT ![Head(queue)] = "sending"]
    BY <2>1, <2>2 DEF Begin
  <2> QED BY <2>2, <2>3 DEF TypeOK
<1> QED BY <1>1, <1>2

(* A signature is known only of a ticket whose send has been answered.      *)
Certain(t) ==
  /\ client[t] = "idle" => ~signature[t]
  /\ signature[t] => results[t] \notin {"queued", "sending"}
  /\ results[t] = "confirmed" => chain[t] = "landed"
  /\ results[t] = "failed" /\ signature[t] => chain[t] = "reverted"

LEMMA CertainKept ==
  ASSUME ~Has("pollThrow"), TypeOK, QInv, \A t \in Tickets : Certain(t), [Next]_vars
  PROVE  \A t \in Tickets : Certain(t)'
<1> USE DEF Certain
<1>1. CASE UNCHANGED vars
  BY <1>1 DEF vars, nexusVars, clientVars, chainVars
<1>2. ASSUME NEW t \in Tickets, Submit(t) PROVE \A u \in Tickets : Certain(u)'
  <2>1. /\ client[t] = "idle" /\ client' = [client EXCEPT ![t] = "polling"]
        /\ UNCHANGED <<signature, chain>>
    BY <1>2 DEF Submit
  <2>2. SUFFICES ASSUME NEW u \in Tickets PROVE Certain(u)'
    OBVIOUS
  <2>3. CASE u = t
    BY <1>2, <2>1, <2>3, SubmitEffect DEF TypeOK
  <2>4. CASE u # t
    BY <1>2, <2>1, <2>4, SubmitEffect DEF TypeOK
  <2> QED BY <2>3, <2>4
<1>3. ASSUME NEW t \in Tickets, Refuse(t) PROVE \A u \in Tickets : Certain(u)'
  BY <1>3 DEF Refuse, nexusVars, chainVars, TypeOK
<1>4. ASSUME NEW l \in Tickets, NextJob(l) PROVE \A u \in Tickets : Certain(u)'
  <2>1. UNCHANGED <<signature, client, chain>>
    BY <1>4 DEF NextJob, clientVars, chainVars
  <2> QED BY <1>4, <2>1, NextJobEffect
<1>5. ASSUME NEW l \in Tickets, SendOk(l) PROVE \A u \in Tickets : Certain(u)'
  <2> DEFINE j == loop[l]
  <2>1. /\ j \in Tickets /\ results[j] = "sending"
        /\ signature' = [signature EXCEPT ![j] = TRUE]
        /\ results' = [results EXCEPT ![j] = "confirming"]
        /\ UNCHANGED <<client, chain>>
    BY <1>5 DEF SendOk, At, clientVars, chainVars
  <2>2. client[j] # "idle"
    BY <2>1 DEF QInv
  <2> QED BY <2>1, <2>2 DEF TypeOK
<1>6. ASSUME NEW l \in Tickets, SendError(l) PROVE \A u \in Tickets : Certain(u)'
  <2> DEFINE j == loop[l]
  <2>1. /\ j \in Tickets /\ results[j] = "sending"
        /\ results' = [results EXCEPT ![j] = "failed"]
        /\ UNCHANGED <<client, chain, signature>>
    BY <1>6 DEF SendError, At, Complete, clientVars, chainVars
  <2> QED BY <2>1 DEF TypeOK
<1>7. ASSUME NEW l \in Tickets, ConfirmResult(l) PROVE \A u \in Tickets : Certain(u)'
  <2> DEFINE j == loop[l]
  <2>1. j \in Tickets /\ results[j] = "confirming" /\ UNCHANGED <<client, chain, signature>>
    BY <1>7 DEF ConfirmResult, At, clientVars, chainVars
  <2>2. \/ chain[j] = "landed" /\ results' = [results EXCEPT ![j] = "confirmed"]
        \/ chain[j] = "reverted" /\ results' = [results EXCEPT ![j] = "failed"]
        \/ signature[j] /\ results' = [results EXCEPT ![j] = "timeout"]
        \/ ~signature[j] /\ results' = [results EXCEPT ![j] = "failed"]
    BY <1>7 DEF ConfirmResult, Complete, ErrorStatus
  <2> QED BY <2>1, <2>2 DEF TypeOK
<1>8. ASSUME NEW t \in Tickets, ClientStep(t) PROVE \A u \in Tickets : Certain(u)'
  <2>1. UNCHANGED <<results, signature, chain>>
    BY <1>8 DEF ClientStep, ClientPoll, ClientHttpError, ClientNotFound, ClientRejected, nexusVars, chainVars
  <2>2. /\ client[t] = "polling"
        /\ \A u \in Tickets : u # t => client'[u] = client[u]
    BY <1>8 DEF ClientStep, ClientPoll, ClientHttpError, ClientNotFound, ClientRejected,
                SettleOrGiveUp, Settle, TypeOK
  <2>3. client'[t] # "idle"
    BY <1>8, <2>2 DEF ClientStep, ClientPoll, ClientHttpError, ClientNotFound, ClientRejected,
                SettleOrGiveUp, Settle, TypeOK, GiveUp, Verdict
  <2> QED BY <2>1, <2>2, <2>3
<1>9. ASSUME NEW t \in Tickets, RpcAccepts(t) \/ Land(t) PROVE \A u \in Tickets : Certain(u)'
  <2>1. UNCHANGED <<results, signature, client>>
    BY <1>9 DEF RpcAccepts, Land, nexusVars, clientVars
  <2>2. \A u \in Tickets : chain[u] \in {"landed", "reverted"} => chain'[u] = chain[u]
    BY <1>9 DEF RpcAccepts, Land, TypeOK
  <2> QED BY <2>1, <2>2
<1>10. CASE Cleanup
  BY <1>10 DEF Cleanup, Expired, clientVars, chainVars
<1>11. CASE Crash
  BY <1>11 DEF Crash
<1>12. CASE Start \/ Tick
  BY <1>12 DEF Start, Tick, nexusVars, clientVars, chainVars
<1> QED BY <1>1, <1>2, <1>3, <1>4, <1>5, <1>6, <1>7, <1>8, <1>9, <1>10, <1>11, <1>12 DEF Next, LoopStep

(* As long as no fetch of the confirmation rejects, "confirmed" and a       *)
(* "failed" with a signature are the truth about the chain, whatever else   *)
(* fails: FailedIsFinal of TxQueue.tla.                                     *)
THEOREM StatusTrue == Spec => [](~Has("pollThrow") => FailedIsFinal)
<1> DEFINE I == ~Has("pollThrow") => \A t \in Tickets : Certain(t)
<1>1. Init => I
  BY DEF Init, Certain
<1>2. TypeOK /\ QInv /\ I /\ [Next]_vars => I'
  BY CertainKept DEF Has
<1>3. I => (~Has("pollThrow") => FailedIsFinal)
  BY DEF Certain, FailedIsFinal
<1> HIDE DEF I
<1> QED BY <1>1, <1>2, <1>3, QInvariant, PTL DEF Spec

-----------------------------------------------------------------------------
(* The client finds its ticket: a result is kept for longer than the poll   *)
(* loop that is still to come (TimingAssumption).                           *)

Found(t) ==
  client[t] = "polling" =>
    results[t] # "none" /\ (results[t] \in Completed => clientLeft[t] < keepLeft[t])

LEMMA CompleteFound ==
  ASSUME TypeOK, NEW l \in Tickets, loop[l] \in Tickets, NEW o \in Completed, Complete(l, o),
         UNCHANGED <<client, clientLeft>>, \A t \in Tickets : Found(t)
  PROVE  \A t \in Tickets : Found(t)'
<1>1. \A t \in Tickets : clientLeft[t] < ResultTTL
  <2> TAKE t \in Tickets
  <2>1. clientLeft[t] \in 0..ClientTimeout
    BY DEF TypeOK
  <2> QED BY <2>1, ConstantsAssumption, TimingAssumption
<1>2. \A t \in Tickets : IF t = loop[l] THEN results'[t] = o /\ keepLeft'[t] = ResultTTL
                         ELSE results'[t] = results[t] /\ keepLeft'[t] = keepLeft[t]
  BY DEF Complete, TypeOK, KeepFor
<1> QED BY <1>1, <1>2 DEF Found, Completed

LEMMA FoundKept ==
  ASSUME ~Has("restart"), TypeOK, QInv, \A t \in Tickets : Found(t), [Next]_vars
  PROVE  \A t \in Tickets : Found(t)'
<1>1. CASE UNCHANGED vars
  BY <1>1 DEF vars, nexusVars, clientVars, Found
<1>2. ASSUME NEW t \in Tickets, Submit(t) PROVE \A u \in Tickets : Found(u)'
  <2>1. /\ \A u \in Tickets : u # t => client'[u] = client[u] /\ clientLeft'[u] = clientLeft[u]
        /\ keepLeft' = keepLeft
    BY <1>2 DEF Submit, TypeOK
  <2> QED BY <1>2, <2>1, SubmitEffect DEF Found, Completed
<1>3. ASSUME NEW t \in Tickets, Refuse(t) PROVE \A u \in Tickets : Found(u)'
  BY <1>3 DEF Refuse, nexusVars, TypeOK, Found
<1>4. ASSUME NEW l \in Tickets, NextJob(l) PROVE \A u \in Tickets : Found(u)'
  <2>1. UNCHANGED <<client, clientLeft, keepLeft>>
    BY <1>4 DEF NextJob, clientVars
  <2> QED BY <1>4, <2>1, NextJobEffect DEF Found, Completed
<1>5. ASSUME NEW l \in Tickets, SendOk(l) PROVE \A u \in Tickets : Found(u)'
  <2>1. /\ results' = [results EXCEPT ![loop[l]] = "confirming"]
        /\ UNCHANGED <<client, clientLeft, keepLeft>>
    BY <1>5 DEF SendOk, clientVars
  <2> QED BY <2>1 DEF TypeOK, Found, Completed
<1>6. ASSUME NEW l \in Tickets, SendError(l) \/ ConfirmResult(l)
      PROVE  \A u \in Tickets : Found(u)'
  <2>1. loop[l] \in Tickets /\ UNCHANGED <<client, clientLeft>>
    BY <1>6 DEF SendError, ConfirmResult, At, clientVars
  <2>2. \E o \in Completed : Complete(l, o)
    BY <1>6 DEF SendError, ConfirmResult, ErrorStatus, Completed
  <2> QED BY <2>1, <2>2, CompleteFound
<1>7. ASSUME NEW t \in Tickets, ClientStep(t) PROVE \A u \in Tickets : Found(u)'
  <2>1. UNCHANGED <<results, keepLeft, clientLeft>>
    BY <1>7 DEF ClientStep, ClientPoll, ClientHttpError, ClientNotFound, ClientRejected,
                SettleOrGiveUp, Settle, nexusVars
  <2>2. \A u \in Tickets : client'[u] = "polling" => client[u] = "polling"
    BY <1>7 DEF ClientStep, ClientPoll, ClientHttpError, ClientNotFound, ClientRejected,
                SettleOrGiveUp, Settle, TypeOK
  <2> QED BY <2>1, <2>2 DEF Found
<1>8. ASSUME NEW t \in Tickets, RpcAccepts(t) \/ Land(t) PROVE \A u \in Tickets : Found(u)'
  BY <1>8 DEF RpcAccepts, Land, nexusVars, clientVars, Found
<1>9. CASE Cleanup
  <2>1. UNCHANGED <<client, clientLeft, keepLeft>>
    BY <1>9 DEF Cleanup, clientVars
  <2>2. \A u \in Tickets : client[u] = "polling" => ~Expired(u)
    <3> TAKE u \in Tickets
    <3>1. clientLeft[u] \in Nat /\ keepLeft[u] \in Nat
      BY ConstantsAssumption DEF TypeOK
    <3> QED BY <3>1 DEF Expired, Found
  <2>3. \A u \in Tickets : results'[u] = IF Expired(u) THEN "none" ELSE results[u]
    BY <1>9 DEF Cleanup
  <2> QED BY <2>1, <2>2, <2>3 DEF Found
<1>10. CASE Crash
  BY <1>10 DEF Crash
<1>11. CASE Start
  BY <1>11 DEF Start, nexusVars, clientVars, Found
<1>12. CASE Tick
  <2>1. UNCHANGED <<client, results>>
    BY <1>12 DEF Tick
  <2>2. \A u \in Tickets : client[u] = "polling" => clientLeft[u] > 0
    BY <1>12 DEF Tick
  <2>3. \A u \in Tickets : /\ clientLeft'[u] = IF clientLeft[u] = 0 THEN 0 ELSE clientLeft[u] - 1
                          /\ keepLeft'[u] = IF keepLeft[u] = 0 THEN 0 ELSE keepLeft[u] - 1
    BY <1>12 DEF Tick, Down
  <2>4. \A u \in Tickets : clientLeft[u] \in Nat /\ keepLeft[u] \in Nat
    BY ConstantsAssumption DEF TypeOK
  <2> QED BY <2>1, <2>2, <2>3, <2>4 DEF Found
<1> QED BY <1>1, <1>2, <1>3, <1>4, <1>5, <1>6, <1>7, <1>8, <1>9, <1>10, <1>11, <1>12 DEF Next, LoopStep

(* Without a restart of Nexus a polling client finds its ticket, for any    *)
(* timeouts that keep the TimingAssumption: PollFindsTicket of TxQueue.tla. *)
THEOREM TicketFound == Spec => [](~Has("restart") => PollFindsTicket)
<1> DEFINE I == ~Has("restart") => \A t \in Tickets : Found(t)
<1>1. Init => I
  BY DEF Init, Found
<1>2. TypeOK /\ QInv /\ I /\ [Next]_vars => I'
  BY FoundKept DEF Has
<1>3. I => (~Has("restart") => PollFindsTicket)
  BY DEF Found, PollFindsTicket
<1> HIDE DEF I
<1> QED BY <1>1, <1>2, <1>3, QInvariant, PTL DEF Spec

-----------------------------------------------------------------------------
(* The promise of submitAndConfirm.  Without a fault, the age of a          *)
(* transaction never exceeds that of the call that carries it, and nothing  *)
(* that is not on its way to the chain has reached it.                      *)

Faithful(t) ==
  /\ client[t] = "idle" \/ results[t] = "queued" => chain[t] = "unsent"
  /\ results[t] = "confirming" => signature[t] /\ chain[t] # "unsent"
  /\ results[t] = "failed" /\ ~signature[t] => chain[t] = "unsent"
  /\ client[t] = "polling" => validLeft[t] <= clientLeft[t]
  /\ results[t] = "sending" /\ chain[t] \in {"landed", "reverted"} => validLeft[t] > 0
  /\ client[t] = "ok" => chain[t] = "landed"
  /\ client[t] = "failed" => Dead(t)

SInv ==
  /\ up
  /\ \A t \in Tickets : Certain(t)
  /\ \A t \in Tickets : Found(t)
  /\ \A t \in Tickets : Faithful(t)

(* What a poll may tell the call.                                           *)
LEMMA PollTruth ==
  ASSUME TypeOK, SInv, NEW t \in Tickets, ClientPoll(t)
  PROVE  \/ client'[t] \in {"polling", "unconfirmed"}
         \/ client'[t] = "ok" /\ chain[t] = "landed"
         \/ client'[t] = "failed" /\ Dead(t)
<1>1. /\ results[t] \in Statuses /\ client[t] = "polling"
      /\ Certain(t) /\ Found(t) /\ Faithful(t)
      /\ validLeft[t] \in Nat /\ clientLeft[t] \in Nat
      /\ chain[t] \in {"unsent", "pending", "landed", "reverted"}
  BY ConstantsAssumption DEF TypeOK, SInv, ClientPoll
<1>2. PICK seen \in BOOLEAN :
        /\ signature[t] => seen
        /\ client'[t] = IF Verdict(results[t]) = "polling" /\ clientLeft[t] = 0
                          THEN GiveUp(seen) ELSE Verdict(results[t])
  <2>1. lastKnownSignature[t] \/ signature[t] \in BOOLEAN
    BY DEF TypeOK
  <2> QED BY <2>1 DEF ClientPoll, SettleOrGiveUp, Settle, TypeOK
<1>3. CASE results[t] = "confirmed"
  BY <1>1, <1>2, <1>3 DEF Verdict, Certain
<1>4. CASE results[t] = "timeout"
  BY <1>1, <1>2, <1>4 DEF Verdict
<1>5. CASE results[t] = "failed"
  BY <1>1, <1>2, <1>5 DEF Verdict, Certain, Faithful, Dead, Held
<1>6. CASE results[t] \in {"queued", "sending", "confirming"}
  <2>1. Verdict(results[t]) = "polling"
    BY <1>6 DEF Verdict
  <2>2. CASE clientLeft[t] # 0 \/ seen
    BY <1>2, <2>1, <2>2 DEF GiveUp
  <2>3. CASE clientLeft[t] = 0 /\ ~seen
    <3>1. client'[t] = "failed" /\ validLeft[t] = 0 /\ results[t] # "confirming"
      BY <1>1, <1>2, <2>1, <2>3 DEF GiveUp, Faithful
    <3> QED BY <1>1, <1>6, <3>1 DEF Faithful, Dead
  <2> QED BY <2>2, <2>3
<1> QED BY <1>1, <1>3, <1>4, <1>5, <1>6 DEF Found, Statuses, Completed

LEMMA FaithfulKept ==
  ASSUME Faults = {}, TypeOK, QInv, SInv, [Next]_vars
  PROVE  \A t \in Tickets : Faithful(t)'
<1> USE DEF Faithful, Dead, Held
<1>0. /\ \A t \in Tickets : Certain(t) /\ Found(t) /\ Faithful(t)
      /\ up /\ \A f \in FaultKinds : ~Has(f)
  BY DEF SInv, Has
<1>1. CASE UNCHANGED vars
  BY <1>0, <1>1 DEF vars, nexusVars, clientVars, chainVars
<1>2. ASSUME NEW t \in Tickets, Submit(t) PROVE \A u \in Tickets : Faithful(u)'
  <2>1. /\ \A u \in Tickets : u # t => /\ client'[u] = client[u] /\ clientLeft'[u] = clientLeft[u]
                                      /\ validLeft'[u] = validLeft[u]
        /\ client'[t] = "polling" /\ clientLeft'[t] = ClientTimeout /\ validLeft'[t] = BlockhashTTL
        /\ client[t] = "idle" /\ UNCHANGED <<signature, chain>>
    BY <1>2 DEF Submit, TypeOK
  <2>2. BlockhashTTL <= ClientTimeout
    BY TimingAssumption
  <2> QED BY <1>0, <1>2, <2>1, <2>2, SubmitEffect
<1>3. ASSUME NEW t \in Tickets, Refuse(t) PROVE \A u \in Tickets : Faithful(u)'
  <2>1. /\ client[t] = "idle" /\ client' = [client EXCEPT ![t] = "failed"]
        /\ UNCHANGED <<results, signature, chain, validLeft, clientLeft>>
    BY <1>3 DEF Refuse, nexusVars, chainVars
  <2>2. results[t] = "none"
    BY <2>1 DEF QInv
  <2> QED BY <1>0, <2>1, <2>2 DEF TypeOK
<1>4. ASSUME NEW l \in Tickets, NextJob(l) PROVE \A u \in Tickets : Faithful(u)'
  <2>1. UNCHANGED <<signature, client, clientLeft, chain, validLeft>>
    BY <1>4 DEF NextJob, clientVars, chainVars
  <2> QED BY <1>0, <1>4, <2>1, NextJobEffect
<1>5. ASSUME NEW l \in Tickets, SendOk(l) PROVE \A u \in Tickets : Faithful(u)'
  <2> DEFINE j == loop[l]
  <2>1. /\ j \in Tickets /\ results[j] = "sending" /\ chain[j] # "unsent"
        /\ signature' = [signature EXCEPT ![j] = TRUE]
        /\ results' = [results EXCEPT ![j] = "confirming"]
        /\ UNCHANGED <<client, clientLeft, chain, validLeft>>
    BY <1>5 DEF SendOk, At, clientVars, chainVars
  <2> HIDE DEF j
  <2> QED BY <1>0, <2>1 DEF TypeOK
<1>6. ASSUME NEW l \in Tickets, SendError(l) PROVE \A u \in Tickets : Faithful(u)'
  <2> DEFINE j == loop[l]
  <2>1. /\ j \in Tickets /\ results[j] = "sending" /\ chain[j] = "unsent"
        /\ results' = [results EXCEPT ![j] = "failed"]
        /\ UNCHANGED <<client, clientLeft, chain, validLeft, signature>>
    BY <1>0, <1>6 DEF SendError, At, Complete, clientVars, chainVars, FaultKinds
  <2> HIDE DEF j
  <2> QED BY <1>0, <2>1 DEF TypeOK
<1>7. ASSUME NEW l \in Tickets, ConfirmResult(l) PROVE \A u \in Tickets : Faithful(u)'
  <2> DEFINE j == loop[l]
  <2>1. /\ j \in Tickets /\ results[j] = "confirming" /\ signature[j]
        /\ UNCHANGED <<client, clientLeft, chain, validLeft, signature>>
    BY <1>0, <1>7 DEF ConfirmResult, At, clientVars, chainVars
  <2>2. \E o \in Completed : results' = [results EXCEPT ![j] = o]
    BY <1>7 DEF ConfirmResult, Complete, ErrorStatus, Completed
  <2> HIDE DEF j
  <2> QED BY <1>0, <2>1, <2>2 DEF TypeOK, Completed
<1>8. ASSUME NEW t \in Tickets, ClientStep(t) PROVE \A u \in Tickets : Faithful(u)'
  <2>1. ClientPoll(t)
    BY <1>0, <1>8 DEF ClientStep, ClientHttpError, ClientNotFound, ClientRejected, Found, FaultKinds
  <2>2. /\ UNCHANGED <<results, signature, chain, validLeft, clientLeft>>
        /\ \A u \in Tickets : u # t => client'[u] = client[u]
        /\ client[t] = "polling"
    BY <2>1 DEF ClientPoll, SettleOrGiveUp, Settle, nexusVars, chainVars, TypeOK
  <2>3. \/ client'[t] \in {"polling", "unconfirmed"}
        \/ client'[t] = "ok" /\ chain[t] = "landed"
        \/ client'[t] = "failed" /\ Dead(t)
    BY <2>1, PollTruth
  <2> QED BY <1>0, <2>2, <2>3
<1>9. ASSUME NEW l \in Tickets, RpcAccepts(l) PROVE \A u \in Tickets : Faithful(u)'
  <2> DEFINE j == loop[l]
  <2>1. /\ j \in Tickets /\ results[j] = "sending" /\ chain[j] = "unsent"
        /\ chain' = [chain EXCEPT ![j] = "pending"]
        /\ UNCHANGED <<results, client, clientLeft, validLeft, signature>>
    BY <1>9 DEF RpcAccepts, At, clientVars, nexusVars
  <2>2. client[j] # "idle"
    BY <2>1 DEF QInv
  <2> HIDE DEF j
  <2> QED BY <1>0, <2>1, <2>2 DEF TypeOK
<1>10. ASSUME NEW t \in Tickets, Land(t) PROVE \A u \in Tickets : Faithful(u)'
  <2>1. /\ chain[t] = "pending" /\ validLeft[t] > 0
        /\ chain'[t] \in {"landed", "reverted"} /\ \A u \in Tickets : u # t => chain'[u] = chain[u]
        /\ UNCHANGED <<results, client, clientLeft, validLeft, signature>>
    BY <1>10 DEF Land, clientVars, nexusVars, TypeOK
  <2>2. validLeft[t] # 0
    BY <2>1
  <2> QED BY <1>0, <2>1, <2>2
<1>11. CASE Cleanup
  <2>1. UNCHANGED <<client, clientLeft, chain, validLeft, signature>>
    BY <1>11 DEF Cleanup, clientVars, chainVars
  <2>2. \A u \in Tickets : results'[u] = results[u] \/ results'[u] = "none"
    BY <1>11 DEF Cleanup
  <2> QED BY <1>0, <2>1, <2>2
<1>12. CASE Tick
  <2>1. UNCHANGED <<client, chain, signature, results>>
    BY <1>12 DEF Tick
  <2>2. \A u \in Tickets : /\ client[u] = "polling" => clientLeft[u] > 0
                          /\ results[u] = "sending" => chain[u] = "unsent"
    BY <1>0, <1>12 DEF Tick, FaultKinds
  <2>3. \A u \in Tickets : /\ clientLeft'[u] = IF clientLeft[u] = 0 THEN 0 ELSE clientLeft[u] - 1
                          /\ validLeft'[u] = IF validLeft[u] = 0 THEN 0 ELSE validLeft[u] - 1
    BY <1>12 DEF Tick, Down
  <2>4. \A u \in Tickets : clientLeft[u] \in Nat /\ validLeft[u] \in Nat
    BY ConstantsAssumption DEF TypeOK
  <2> QED BY <1>0, <2>1, <2>2, <2>3, <2>4
<1>13. ~Crash /\ ~Start
  BY <1>0 DEF Crash, Start, FaultKinds
<1> QED BY <1>1, <1>2, <1>3, <1>4, <1>5, <1>6, <1>7, <1>8, <1>9, <1>10, <1>11, <1>12, <1>13 DEF Next, LoopStep

LEMMA SKept == ASSUME Faults = {}, TypeOK, QInv, SInv, [Next]_vars PROVE SInv'
<1>1. \A f \in FaultKinds : ~Has(f)
  BY DEF Has
<1>2. up'
  BY <1>1 DEF SInv, Next, vars, Submit, Refuse, LoopStep, NextJob, SendOk, SendError, ConfirmResult,
              ClientStep, ClientPoll, ClientHttpError, ClientNotFound, ClientRejected, RpcAccepts, Land,
              Cleanup, Crash, Start, Tick, FaultKinds
<1> QED BY <1>1, <1>2, CertainKept, FoundKept, FaithfulKept DEF SInv, FaultKinds

LEMMA SInvariant == Spec => [](TypeOK /\ QInv /\ (Faults = {} => SInv))
<1>1. Init => SInv
  BY DEF Init, SInv, Certain, Found, Faithful
<1>2. TypeOK /\ QInv /\ (Faults = {} => SInv) /\ [Next]_vars => (Faults = {} => SInv)'
  BY SKept
<1> QED BY <1>1, <1>2, QInvariant, PTL DEF Spec

(* Without faults of the surroundings a success is on chain and a plain     *)
(* error means a transaction that never will be, also when sends fail,      *)
(* transactions revert, land late or never: PlainErrorIsSafe of TxQueue.tla.*)
THEOREM ErrorsTrue == Spec => [](Faults = {} => PlainErrorIsSafe)
<1>1. SInv => PlainErrorIsSafe
  BY DEF SInv, Faithful, PlainErrorIsSafe
<1> QED BY <1>1, SInvariant, PTL

-----------------------------------------------------------------------------
(* The queue and its client implement TxSubmission.                         *)

(* What a step may do to a ticket that was submitted.                       *)
Settling(t) ==
  client[t] # "idle" =>
    /\ client'[t] # "idle"
    /\ Held(t)' => Held(t)
    /\ validLeft[t] = 0 => validLeft'[t] = 0
    /\ \/ chain'[t] = chain[t]
       \/ chain[t] = "unsent" /\ Held(t) /\ chain'[t] = "pending"
       \/ chain[t] = "pending" /\ validLeft[t] # 0

LEMMA Settles ==
  ASSUME Faults = {}, TypeOK, QInv, SInv, [Next]_vars
  PROVE  \A t \in Tickets : Settling(t)
<1> USE DEF Settling, Held
<1>0. /\ up /\ \A f \in FaultKinds : ~Has(f)
      /\ \A t \in Tickets : Found(t)
  BY DEF SInv, Has
<1>1. CASE UNCHANGED vars
  BY <1>1 DEF vars, nexusVars, clientVars, chainVars
<1>2. ASSUME NEW u \in Tickets, Submit(u) PROVE \A t \in Tickets : Settling(t)
  <2>1. /\ \A t \in Tickets : t # u => client'[t] = client[t] /\ validLeft'[t] = validLeft[t]
        /\ client[u] = "idle" /\ chain' = chain
    BY <1>2 DEF Submit, TypeOK
  <2> QED BY <1>2, <2>1, SubmitEffect
<1>3. ASSUME NEW u \in Tickets, Refuse(u) PROVE \A t \in Tickets : Settling(t)
  BY <1>3 DEF Refuse, nexusVars, chainVars, TypeOK
<1>4. ASSUME NEW l \in Tickets, NextJob(l) PROVE \A t \in Tickets : Settling(t)
  <2>1. UNCHANGED <<client, chain, validLeft>>
    BY <1>4 DEF NextJob, clientVars, chainVars
  <2> QED BY <1>4, <2>1, NextJobEffect
<1>5. ASSUME NEW l \in Tickets, SendOk(l) \/ SendError(l) \/ ConfirmResult(l)
      PROVE  \A t \in Tickets : Settling(t)
  <2>1. UNCHANGED <<client, chain, validLeft>>
    BY <1>5 DEF SendOk, SendError, ConfirmResult, clientVars, chainVars
  <2>2. \E o \in Completed \cup {"confirming"} : results' = [results EXCEPT ![loop[l]] = o]
    BY <1>5 DEF SendOk, SendError, ConfirmResult, Complete, ErrorStatus, Completed
  <2> QED BY <2>1, <2>2 DEF TypeOK, Completed
<1>6. ASSUME NEW u \in Tickets, ClientPoll(u) PROVE \A t \in Tickets : Settling(t)
  <2>1. /\ UNCHANGED <<results, chain, validLeft>>
        /\ \A t \in Tickets : t # u => client'[t] = client[t]
    BY <1>6 DEF ClientPoll, SettleOrGiveUp, Settle, nexusVars, chainVars, TypeOK
  <2>2. client'[u] # "idle"
    BY <1>6, PollTruth
  <2> QED BY <2>1, <2>2
<1>7. ASSUME NEW l \in Tickets, RpcAccepts(l) PROVE \A t \in Tickets : Settling(t)
  BY <1>7 DEF RpcAccepts, At, nexusVars, clientVars, TypeOK
<1>8. ASSUME NEW u \in Tickets, Land(u) PROVE \A t \in Tickets : Settling(t)
  <2>1. /\ chain[u] = "pending" /\ validLeft[u] # 0
        /\ \A t \in Tickets : t # u => chain'[t] = chain[t]
        /\ UNCHANGED <<results, client, validLeft>>
    BY <1>8 DEF Land, nexusVars, clientVars, TypeOK
  <2> QED BY <2>1
<1>9. CASE Cleanup
  BY <1>9 DEF Cleanup, clientVars, chainVars
<1>10. CASE Tick
  BY <1>10 DEF Tick, Down
<1>11. /\ ~Crash /\ ~Start
       /\ \A t \in Tickets : ~ClientHttpError(t) /\ ~ClientNotFound(t) /\ ~ClientRejected(t)
  BY <1>0 DEF Crash, Start, ClientHttpError, ClientNotFound, ClientRejected, Found, FaultKinds
<1> QED BY <1>1, <1>2, <1>3, <1>4, <1>5, <1>6, <1>7, <1>8, <1>9, <1>10, <1>11 DEF Next, LoopStep, ClientStep

(* The fate of a transaction is decided once.                               *)
LEMMA FatesStay ==
  ASSUME Faults = {}, TypeOK, QInv, SInv, [Next]_vars
  PROVE  Promise!FateStep
<1>1. ASSUME NEW t \in Tickets, Fate(t) # "open" PROVE Fate(t)' = Fate(t)
  <2>1. Settling(t)
    BY Settles
  <2>2. client[t] # "idle"
    BY <1>1 DEF Fate, SInv, Faithful
  <2>3. CASE chain[t] = "landed"
    BY <2>1, <2>2, <2>3 DEF Settling, Fate
  <2>4. CASE chain[t] # "landed"
    <3>1. Dead(t) /\ Fate(t) = "dead"
      BY <1>1, <2>4 DEF Fate
    <3>2. Dead(t)' /\ chain'[t] # "landed"
      BY <2>1, <2>2, <2>4, <3>1 DEF Settling, Dead
    <3> QED BY <2>1, <2>2, <3>1, <3>2 DEF Settling, Fate
  <2> QED BY <2>3, <2>4
<1>2. \A t \in Tickets : Fate(t)' \in Promise!Fates
  BY DEF Fate, Promise!Fates
<1> QED BY <1>1, <1>2 DEF Promise!FateStep

LEMMA PromiseStep ==
  ASSUME Faults = {}, TypeOK, QInv, SInv, [Next]_vars
  PROVE  Promise!Next
<1>1. Promise!FateStep
  BY FatesStay
<1>2. client' = client \/ \E t \in Tickets : Promise!Begin(t) \/ Promise!Return(t)
  <2>0. SInv' /\ up /\ (\A f \in FaultKinds : ~Has(f)) /\ \A t \in Tickets : Found(t)
    BY SKept DEF SInv, Has
  <2>1. ASSUME NEW t \in Tickets, Submit(t) PROVE Promise!Begin(t)
    BY <2>1 DEF Submit, Promise!Begin
  <2>2. ASSUME NEW t \in Tickets, Refuse(t) PROVE Promise!Return(t)
    <3>1. client[t] = "idle" /\ client' = [client EXCEPT ![t] = "failed"] /\ client'[t] = "failed"
      BY <2>2 DEF Refuse, TypeOK
    <3>2. Dead(t)'
      BY <2>0, <3>1 DEF SInv, Faithful
    <3>3. Fate(t)' = "dead"
      BY <3>1, <3>2 DEF Fate, Dead
    <3> QED BY <3>1, <3>3 DEF Promise!Return, Promise!Outcomes
  <2>3. ASSUME NEW t \in Tickets, ClientPoll(t) PROVE client' = client \/ Promise!Return(t)
    <3>1. client[t] = "polling" /\ \E o : client' = [client EXCEPT ![t] = o]
      BY <2>3 DEF ClientPoll, SettleOrGiveUp, Settle
    <3>2. client' = [client EXCEPT ![t] = client'[t]]
      BY <3>1 DEF TypeOK
    <3>3. client'[t] \in {"polling", "unconfirmed", "ok", "failed"}
      BY <2>3, PollTruth
    <3>4. CASE client'[t] = "polling"
      BY <3>1, <3>2, <3>4 DEF TypeOK
    <3>5. CASE client'[t] = "unconfirmed"
      BY <3>1, <3>2, <3>5 DEF Promise!Return, Promise!Outcomes
    <3>6. CASE client'[t] = "ok"
      <4>1. Fate(t)' = "landed"
        BY <2>0, <3>6 DEF SInv, Faithful, Fate
      <4> QED BY <3>1, <3>2, <3>6, <4>1 DEF Promise!Return, Promise!Outcomes
    <3>7. CASE client'[t] = "failed"
      <4>1. Dead(t)'
        BY <2>0, <3>7 DEF SInv, Faithful
      <4>2. Fate(t)' = "dead"
        BY <3>7, <4>1 DEF Fate, Dead
      <4> QED BY <3>1, <3>2, <3>7, <4>2 DEF Promise!Return, Promise!Outcomes
    <3> QED BY <3>3, <3>4, <3>5, <3>6, <3>7
  <2>4. \A t \in Tickets : ~ClientHttpError(t) /\ ~ClientNotFound(t) /\ ~ClientRejected(t)
    BY <2>0 DEF ClientHttpError, ClientNotFound, ClientRejected, Found, FaultKinds
  <2>5. ASSUME NEW l \in Tickets, LoopStep(l) \/ RpcAccepts(l) \/ Land(l) PROVE client' = client
    BY <2>5 DEF LoopStep, NextJob, SendOk, SendError, ConfirmResult, RpcAccepts, Land, clientVars
  <2>6. CASE UNCHANGED vars \/ Cleanup \/ Crash \/ Start \/ Tick
    BY <2>6 DEF vars, Cleanup, Crash, Start, Tick, clientVars
  <2> QED BY <2>1, <2>2, <2>3, <2>4, <2>5, <2>6 DEF Next, ClientStep
<1> QED BY <1>1, <1>2 DEF Promise!Next

(* Without faults of the surroundings every behaviour of queue and client   *)
(* is one that submitAndConfirm promises: KeepsPromise of TxQueue.tla.      *)
THEOREM PromiseKept == (Faults = {}) => (Spec => KeepsPromise)
<1> SUFFICES ASSUME Faults = {} PROVE Spec => KeepsPromise
  OBVIOUS
<1>1. Init => Promise!Init
  BY DEF Init, Promise!Init, Fate, Dead, Held
<1>2. (TypeOK /\ QInv /\ (Faults = {} => SInv)) /\ [Next]_vars => [Promise!Next]_(Promise!vars)
  BY PromiseStep
<1> QED BY <1>1, <1>2, SInvariant, PTL DEF Spec, KeepsPromise, Promise!Spec
=============================================================================
