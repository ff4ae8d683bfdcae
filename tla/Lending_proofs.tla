--------------------------- MODULE Lending_proofs ---------------------------
(* Theorems about Lending, for any settings, funds, events and bounds:      *)
(* types, whatever overlaps, fails or restarts; and the row that follows    *)
(* the money as long as nobody else is at work.                             *)
EXTENDS Lending, TLAPS

-----------------------------------------------------------------------------
(* Types.                                                                   *)

Labels == {"idle", "query", "apply", "exit", "withdraw", "book", "send", "topup",
           "deploy", "deposit", "credit"}
JobStates == [pc : {"none", "work", "book", "deposit", "credit"}, kind : Kinds,
              pos : Nat, amt : Nat]

MoneyTypes == wallet \in Nat /\ chain \in Nat /\ lag \in Int /\ lag >= NoLag
BookTypes ==
  /\ booked \in Int /\ recent \in Nat
  /\ zero \in {0, 1} /\ reappear \in {0, 1}
  /\ base \in Int /\ base >= NoBase
FlagTypes ==
  /\ open \in BOOLEAN /\ enabled \in BOOLEAN /\ lock \in BOOLEAN /\ captured \in BOOLEAN
  /\ health \in Healths /\ guard \in {"tvl", "liquidity"}
TaskTypes ==
  /\ pc \in [Tasks -> Labels] /\ read \in [Tasks -> Nat]
  /\ seen \in [Tasks -> Nat] /\ amount \in [Tasks -> Nat]
JobTypes ==
  /\ job \in JobStates /\ income \in Nat /\ jobs \in Nat /\ restarts \in Nat

TInv == TypeOK /\ lag >= NoLag

LEMMA Parts ==
  TInv <=> setup \in Setups /\ MoneyTypes /\ BookTypes /\ FlagTypes /\ TaskTypes /\ JobTypes
BY DEF TInv, TypeOK, MoneyTypes, BookTypes, FlagTypes, TaskTypes, JobTypes, Labels, JobStates

LEMMA SetupTypes ==
  ASSUME setup \in Setups
  PROVE  /\ setup.lying \in Int /\ setup.lying >= NoBase /\ setup.funds \in Nat
         /\ setup.cap \in Nat /\ Lying \in Nat /\ AllFunds \in Nat
         /\ setup.running \subseteq Tasks /\ setup.turns \subseteq Healths
         /\ setup.jobs \subseteq Kinds
<1>1. /\ setup.lying \in Int /\ setup.lying >= NoBase /\ setup.funds \in Nat
      /\ setup.cap \in Nat
      /\ setup.running \subseteq Tasks /\ setup.turns \subseteq Healths
      /\ setup.jobs \subseteq Kinds
  BY LendingAssumption
<1>2. Lying \in Nat
  BY <1>1 DEF Lying, NoBase
<1> QED BY <1>1, <1>2 DEF AllFunds

(* What the steps are made of.                                              *)
LEMMA FlowTypes ==
  ASSUME MoneyTypes, NEW n \in Int, Flow(n) PROVE MoneyTypes'
BY DEF MoneyTypes, Flow, NoLag

LEMMA LostTypes ==
  ASSUME MoneyTypes, NEW n \in Int, Lost(n) PROVE MoneyTypes'
BY FlowTypes DEF Lost, money, MoneyTypes

LEMMA ReportTypes == ASSUME MoneyTypes PROVE Reports \subseteq Nat
BY DEF MoneyTypes, Reports, NoLag

LEMMA PlannedTypes ==
  ASSUME setup \in Setups, BookTypes, TaskTypes, NEW t \in Tasks, NewFunds(t) >= 1
  PROVE  Planned(t) \in Nat /\ Planned(t) >= 1
<1>1. NewFunds(t) \in Int /\ setup.cap \in Nat
  BY SetupTypes DEF NewFunds, BookTypes, TaskTypes
<1> QED BY <1>1 DEF Planned, Least

LEMMA CreditTypes ==
  ASSUME setup \in Setups, BookTypes, FlagTypes, NEW n \in Nat, Credit(n)
  PROVE  booked' \in Int /\ recent' \in Nat /\ open' \in BOOLEAN
BY SetupTypes DEF Credit, BookTypes, Least

LEMMA GotoTypes ==
  ASSUME TaskTypes, NEW t \in Tasks, NEW l \in Labels, Goto(t, l)
  PROVE  pc' \in [Tasks -> Labels]
BY DEF TaskTypes, Goto

LEMMA LeaveTypes ==
  ASSUME TaskTypes, NEW t \in Tasks, Leave(t) PROVE TaskTypes'
<1>1. pc' \in [Tasks -> Labels]
  BY GotoTypes DEF Leave, Labels
<1> QED BY <1>1 DEF Leave, TaskTypes

LEMMA TypeStep == TInv /\ [Next]_vars => TInv'
<1> SUFFICES ASSUME TInv, [Next]_vars PROVE TInv'
  OBVIOUS
<1>p. /\ setup' \in Setups /\ MoneyTypes' /\ BookTypes'
      /\ FlagTypes' /\ TaskTypes' /\ JobTypes'
      => TInv'
  BY DEF TInv, TypeOK, MoneyTypes, BookTypes, FlagTypes, TaskTypes, JobTypes, Labels, JobStates
<1>a. setup \in Setups /\ MoneyTypes /\ BookTypes /\ FlagTypes /\ TaskTypes /\ JobTypes
  BY Parts
<1>m. UNCHANGED money => MoneyTypes'
  BY <1>a DEF money, MoneyTypes
<1>b. UNCHANGED <<booked, recent, streaks, base>> => BookTypes'
  BY <1>a DEF streaks, BookTypes
<1>f. UNCHANGED <<open, pool, lock, exitVars>> => FlagTypes'
  BY <1>a DEF pool, exitVars, FlagTypes
<1>t. UNCHANGED taskVars => TaskTypes'
  BY <1>a DEF taskVars, TaskTypes
<1>j. UNCHANGED <<job, jobs, income, restarts>> => JobTypes'
  BY <1>a DEF JobTypes
<1>g. ASSUME NEW t \in Tasks, NEW l \in Labels, Goto(t, l), UNCHANGED <<read, seen, amount>>
      PROVE  TaskTypes'
  BY <1>g, <1>a, GotoTypes DEF TaskTypes
<1>l. ASSUME NEW t \in Tasks, Leave(t) PROVE TaskTypes'
  BY <1>l, <1>a, LeaveTypes
<1>i. \A t \in Tasks : amount[t] \in Nat /\ seen[t] \in Nat /\ read[t] \in Nat /\ chain \in Nat
  BY <1>a DEF TaskTypes, MoneyTypes
<1> USE <1>a DEF books, jobVars, outside
(* The steps of a task. *)
<1>1. ASSUME NEW t \in Tasks, Begin(t) \/ Query(t) \/ QueryFails(t) PROVE TInv'
  <2>1. /\ setup' \in Setups /\ BookTypes' /\ FlagTypes' /\ JobTypes' /\ MoneyTypes'
    BY <1>1, <1>m, <1>b, <1>f, <1>j DEF Begin, Query, QueryFails, MoneyTypes, NoLag
  <2>2. TaskTypes'
    <3>1. CASE Begin(t)
      BY <3>1, GotoTypes DEF Begin, TaskTypes, MoneyTypes, Labels
    <3>2. CASE Query(t)
      BY <3>2, GotoTypes, ReportTypes DEF Query, TaskTypes, Labels
    <3>3. CASE QueryFails(t)
      BY <3>3, <1>g DEF QueryFails, AfterSnapshot, Labels
    <3> QED BY <1>1, <3>1, <3>2, <3>3
  <2> QED BY <2>1, <2>2, <1>p
<1>2. ASSUME NEW t \in Tasks, Apply(t) PROVE TInv'
  <2>1. /\ setup' \in Setups /\ JobTypes' /\ MoneyTypes'
    BY <1>2, <1>m, <1>j DEF Apply
  <2>2. TaskTypes'
    BY <1>2, GotoTypes DEF Apply, AfterSnapshot, TaskTypes, Labels
  <2>3. BookTypes'
    BY <1>2, <1>i DEF Apply, SeesNothing, SeesUnbooked, SeesBooked, CloseRow, BookTypes
  <2>4. open' \in BOOLEAN /\ captured' \in BOOLEAN
    BY <1>2 DEF Apply, SeesNothing, SeesUnbooked, SeesBooked, CloseRow, FlagTypes
  <2>5. FlagTypes'
    BY <1>2, <2>4 DEF Apply, FlagTypes, pool
  <2> QED BY <2>1, <2>2, <2>3, <2>5, <1>p
<1>3. ASSUME NEW t \in Tasks, ExitSkipped(t) PROVE TInv'
  <2>1. enabled' \in BOOLEAN
    BY <1>3 DEF ExitSkipped
  <2> QED BY <1>3, <2>1, <1>m, <1>b, <1>j, <1>g, <1>p DEF ExitSkipped, FlagTypes, exitVars, Labels
<1>4. ASSUME NEW t \in Tasks, ExitDue(t) PROVE TInv'
  BY <1>4, <1>m, <1>b, <1>j, <1>g, <1>p DEF ExitDue, FlagTypes, pool, Labels
<1>5. ASSUME NEW t \in Tasks, Withdraw(t) PROVE TInv'
  <2>1. MoneyTypes'
    BY <1>5, <1>i, FlowTypes DEF Withdraw
  <2>2. TaskTypes'
    BY <1>5, <1>i, GotoTypes DEF Withdraw, TaskTypes, Labels
  <2> QED BY <1>5, <2>1, <2>2, <1>b, <1>f, <1>j, <1>p DEF Withdraw
<1>6. ASSUME NEW t \in Tasks, WithdrawFails(t) PROVE TInv'
  <2>1. MoneyTypes'
    BY <1>6, <1>i, LostTypes DEF WithdrawFails
  <2> QED BY <1>6, <2>1, <1>b, <1>j, <1>g, <1>p DEF WithdrawFails, FlagTypes, pool, Labels
<1>7. ASSUME NEW t \in Tasks, BookExit(t) PROVE TInv'
  <2>1. BookTypes'
    BY <1>7 DEF BookExit, CloseRow, BookTypes, streaks
  <2>2. open' \in BOOLEAN /\ captured' \in BOOLEAN /\ enabled' \in BOOLEAN
    BY <1>7 DEF BookExit, CloseRow, FlagTypes
  <2> QED BY <1>7, <2>1, <2>2, <1>m, <1>j, <1>g, <1>p DEF BookExit, FlagTypes, Labels
<1>8. ASSUME NEW t \in Tasks, Send(t) PROVE TInv'
  <2>1. MoneyTypes'
    BY <1>8, <1>i DEF Send, MoneyTypes, Least
  <2>2. TaskTypes'
    BY <1>8, GotoTypes DEF Send, TaskTypes, Labels
  <2> QED BY <1>8, <2>1, <2>2, <1>b, <1>f, <1>j, <1>p DEF Send
<1>9. ASSUME NEW t \in Tasks, TopUp(t) PROVE TInv'
  <2>1. MoneyTypes'
    BY <1>9 DEF TopUp, MoneyTypes
  <2> QED BY <1>9, <2>1, <1>b, <1>f, <1>j, <1>g, <1>p DEF TopUp, Labels
<1>10. ASSUME NEW t \in Tasks, DeployPaused(t) PROVE TInv'
  BY <1>10, <1>m, <1>b, <1>f, <1>j, <1>l, <1>p DEF DeployPaused
<1>11. ASSUME NEW t \in Tasks, NothingNew(t) PROVE TInv'
  <2>1. BookTypes'
    BY <1>11, <1>i DEF NothingNew, BookTypes, streaks, NoBase
  <2> QED BY <1>11, <2>1, <1>m, <1>f, <1>j, <1>l, <1>p DEF NothingNew
<1>12. ASSUME NEW t \in Tasks, FindFunds(t) PROVE TInv'
  <2>1. Planned(t) \in Nat
    BY <1>12, PlannedTypes DEF FindFunds
  <2>2. BookTypes'
    BY <1>12, <2>1 DEF FindFunds, BookTypes, streaks, NoBase
  <2>3. TaskTypes'
    BY <1>12, <2>1, <1>l, GotoTypes DEF FindFunds, TaskTypes, Labels
  <2> QED BY <1>12, <2>2, <2>3, <1>m, <1>f, <1>j, <1>p DEF FindFunds
<1>13. ASSUME NEW t \in Tasks, Deposit(t) PROVE TInv'
  <2>1. MoneyTypes'
    BY <1>13, <1>i, FlowTypes DEF Deposit
  <2> QED BY <1>13, <2>1, <1>b, <1>f, <1>j, <1>g, <1>p DEF Deposit, Labels
<1>14. ASSUME NEW t \in Tasks, DepositFails(t) PROVE TInv'
  <2>1. MoneyTypes'
    BY <1>14, <1>i, <1>m, LostTypes DEF DepositFails
  <2> QED BY <1>14, <2>1, <1>b, <1>f, <1>j, <1>l, <1>p DEF DepositFails
<1>15. ASSUME NEW t \in Tasks, BookDeposit(t) PROVE TInv'
  <2>1. booked' \in Int /\ recent' \in Nat /\ open' \in BOOLEAN
    BY <1>15, <1>i, CreditTypes DEF BookDeposit
  <2>2. BookTypes' /\ FlagTypes'
    BY <1>15, <2>1 DEF BookDeposit, BookTypes, FlagTypes, streaks, pool, exitVars
  <2> QED BY <1>15, <2>2, <1>m, <1>j, <1>l, <1>p DEF BookDeposit
(* The manual jobs. *)
<1>16. ASSUME NEW k \in Kinds, JobBegin(k) PROVE TInv'
  <2>1. job' \in JobStates
    BY <1>16, ReportTypes DEF JobBegin, JobStates
  <2> QED BY <1>16, <2>1, <1>b, <1>t, <1>p DEF JobBegin, MoneyTypes, NoLag, FlagTypes, pool,
         exitVars, JobTypes
<1>k. job.pos \in Nat /\ job.amt \in Nat
  BY DEF JobTypes, JobStates
<1>e. NoJob \in JobStates
  BY DEF NoJob, JobStates, Kinds
<1>17. CASE JobWithdraw \/ JobDeposit
  <2>1. PICK n \in Nat, c \in {"book", "credit"} :
          /\ Flow(-n) \/ Flow(n)
          /\ job' = [job EXCEPT !.pc = c, !.amt = n]
    <3>1. 1..chain \subseteq Nat /\ 1..wallet \subseteq Nat
      BY DEF MoneyTypes
    <3> QED BY <1>17, <3>1 DEF JobWithdraw, JobDeposit
  <2>2. MoneyTypes'
    BY <2>1, FlowTypes
  <2>3. job' \in JobStates
    BY <2>1 DEF JobTypes, JobStates
  <2> QED BY <1>17, <2>2, <2>3, <1>b, <1>f, <1>t, <1>p DEF JobWithdraw, JobDeposit, JobTypes
<1>18. CASE JobBook
  <2>1. job' \in JobStates /\ lock' \in BOOLEAN
    BY <1>18, <1>e DEF JobBook, JobEnds, JobTypes, JobStates, FlagTypes
  <2>2. open' \in BOOLEAN /\ captured' \in BOOLEAN
    <3>1. (open' = FALSE /\ captured' = FALSE) \/ UNCHANGED <<open, captured>>
      BY <1>18 DEF JobBook, CloseRow
    <3> QED BY <3>1 DEF FlagTypes
  <2>3. BookTypes'
    BY <1>18, <1>k DEF JobBook, CloseRow, BookTypes, streaks
  <2> QED BY <1>18, <2>1, <2>2, <2>3, <1>m, <1>t, <1>p DEF JobBook, FlagTypes, pool, JobTypes
<1>19. CASE JobMovesOn
  <2>1. MoneyTypes'
    BY <1>19, <1>k DEF JobMovesOn, MoneyTypes
  <2> QED BY <1>19, <2>1, <1>e, <1>b, <1>t, <1>p DEF JobMovesOn, JobEnds, FlagTypes, pool, exitVars,
         JobTypes
<1>20. CASE JobBookDeposit
  <2>1. booked' \in Int /\ recent' \in Nat /\ open' \in BOOLEAN
    BY <1>20, <1>k, CreditTypes DEF JobBookDeposit
  <2>2. BookTypes' /\ FlagTypes'
    BY <1>20, <2>1 DEF JobBookDeposit, JobEnds, BookTypes, FlagTypes, streaks, pool, exitVars
  <2> QED BY <1>20, <2>2, <1>e, <1>m, <1>t, <1>p DEF JobBookDeposit, JobEnds, JobTypes
<1>21. CASE JobFails \/ JobDies
  <2>1. lock' \in BOOLEAN /\ job' = NoJob
    BY <1>21 DEF JobFails, JobDies, JobEnds
  <2>2. MoneyTypes'
    <3>1. 1..chain \subseteq Nat /\ 1..wallet \subseteq Nat
      BY DEF MoneyTypes
    <3>2. UNCHANGED money \/ \E n \in Nat : Flow(-n) \/ Flow(n)
      BY <1>21, <3>1 DEF JobFails, JobDies, JobLost
    <3> QED BY <3>2, <1>m, FlowTypes
  <2> QED BY <1>21, <2>1, <2>2, <1>e, <1>b, <1>t, <1>p DEF JobFails, JobDies, FlagTypes, pool,
         exitVars, JobTypes
(* The world outside. *)
<1>22. ASSUME NEW n \in 1..setup.funds, Arrive(n) PROVE TInv'
  <2>1. n \in Nat
    BY SetupTypes
  <2>2. MoneyTypes' /\ income' \in Nat
    BY <1>22, <2>1 DEF Arrive, MoneyTypes, JobTypes
  <2> QED BY <1>22, <2>2, <1>b, <1>f, <1>t, <1>p DEF Arrive, JobTypes
<1>23. ASSUME NEW h \in Healths, Measured(h) PROVE TInv'
  BY <1>23, <1>m, <1>b, <1>t, <1>j, <1>p DEF Measured, FlagTypes, exitVars
<1>24. CASE DayPasses
  BY <1>24, <1>m, <1>f, <1>t, <1>j, <1>p DEF DayPasses, BookTypes, streaks
<1>25. CASE UserEnables \/ UserDisables
  <2>1. enabled' \in BOOLEAN /\ health' \in Healths
    BY <1>25 DEF UserEnables, UserDisables, FlagTypes, Healths
  <2> QED BY <1>25, <2>1, <1>m, <1>b, <1>t, <1>j, <1>p DEF UserEnables, UserDisables, FlagTypes,
         exitVars
<1>26. CASE Restart
  <2>1. TaskTypes'
    BY <1>26 DEF Restart, TaskTypes, Labels
  <2>2. BookTypes' /\ JobTypes'
    BY <1>26 DEF Restart, BookTypes, JobTypes
  <2>3. FlagTypes'
    BY <1>26 DEF Restart, FlagTypes, pool
  <2> QED BY <1>26, <2>1, <2>2, <2>3, <1>m, <1>p DEF Restart
<1>27. CASE UNCHANGED vars
  BY <1>27, <1>m, <1>b, <1>f, <1>t, <1>j, <1>p DEF vars, money, streaks, pool, exitVars, taskVars
<1> QED BY <1>1, <1>2, <1>3, <1>4, <1>5, <1>6, <1>7, <1>8, <1>9, <1>10, <1>11, <1>12, <1>13,
           <1>14, <1>15, <1>16, <1>17, <1>18, <1>19, <1>20, <1>21, <1>22, <1>23, <1>24, <1>25,
           <1>26, <1>27 DEF Next, Task, Job, World

LEMMA TypeInit == Init => TInv
<1> SUFFICES ASSUME Init
             PROVE  /\ setup \in Setups /\ MoneyTypes /\ BookTypes /\ FlagTypes
                    /\ TaskTypes /\ JobTypes
  BY Parts
<1>1. setup \in Setups /\ Lying \in Nat /\ setup.lying \in Int /\ setup.lying >= NoBase
  BY SetupTypes DEF Init
<1>2. MoneyTypes /\ BookTypes
  BY <1>1 DEF Init, MoneyTypes, BookTypes, NoLag
<1>3. FlagTypes
  BY DEF Init, FlagTypes, Healths
<1>4. TaskTypes /\ JobTypes
  BY DEF Init, TaskTypes, JobTypes, Labels, JobStates, NoJob, Kinds
<1> QED BY <1>1, <1>2, <1>3, <1>4

LEMMA TypedSpec == Spec => []TInv
BY TypeInit, TypeStep, PTL DEF Spec

(* Type correctness however the tasks and jobs overlap, for every fault.    *)
(* The wallet and the pool never go below nothing.                          *)
THEOREM Typing == Spec => []TypeOK
<1>1. TInv => TypeOK
  BY DEF TInv
<1> QED BY <1>1, TypedSpec, PTL

-----------------------------------------------------------------------------
(* The row follows the money.                                               *)

Row == IF open THEN booked ELSE 0

(* What is true of the only task that comes due: it applies what is still   *)
(* in the pool, an exit holds the row it will close, and that pool is empty *)
(* when it is booked.                                                       *)
Follows(t) ==
  /\ chain = Row + OnItsWay(t)
  /\ pc[t] = "apply" => seen[t] = chain
  /\ pc[t] \in {"withdraw", "book"} => captured
  /\ pc[t] = "book" => chain = 0

Only(t) == setup.running \subseteq {t} /\ \A u \in Tasks \ {t} : pc[u] = "idle"

FInv == /\ lag = NoLag /\ job.pc = "none"
        /\ \E t \in Tasks : Only(t) /\ Follows(t)

LEMMA FollowStep == Undivided => (TInv /\ FInv /\ [Next]_vars => FInv')
<1> SUFFICES ASSUME Undivided, TInv, FInv, [Next]_vars PROVE FInv'
  OBVIOUS
<1>a. MoneyTypes /\ BookTypes /\ TaskTypes
  BY Parts
<1>1. PICK t \in Tasks : Only(t) /\ Follows(t)
  BY DEF FInv
<1>2. lag = NoLag /\ job.pc = "none"
  BY DEF FInv
<1>i. /\ chain \in Nat /\ booked \in Int /\ amount[t] \in Nat /\ seen[t] \in Nat
      /\ pc \in [Tasks -> Labels] /\ seen \in [Tasks -> Nat] /\ amount \in [Tasks -> Nat]
  BY <1>a DEF MoneyTypes, BookTypes, TaskTypes
<1>g. ASSUME NEW l, Goto(t, l) PROVE pc'[t] = l /\ \A u \in Tasks \ {t} : pc'[u] = pc[u]
  BY <1>g, <1>i DEF Goto
<1>q. ASSUME lag' = NoLag, UNCHANGED <<setup, job>>, Follows(t)',
             \A u \in Tasks \ {t} : pc'[u] = pc[u]
      PROVE  FInv'
  BY <1>q, <1>1, <1>2 DEF FInv, Only
<1>f. \A n \in Int : Flow(n) \/ Lost(n) => lag' = NoLag
  BY <1>2 DEF Flow, Lost, Faulty, Undivided, money
<1>z. OnItsWay(t) = 0 => chain = Row
  BY <1>1, <1>i DEF Follows, Row
<1>u. ASSUME NEW u \in Tasks, Task(u) PROVE u = t
  BY <1>u, <1>1 DEF Only, Task, Begin, Query, QueryFails, Apply, ExitSkipped, ExitDue, Withdraw,
     WithdrawFails, BookExit, Send, TopUp, DeployPaused, NothingNew, FindFunds, Deposit,
     DepositFails, BookDeposit
<1>k. ASSUME UNCHANGED <<open, booked, chain, job, lag, setup>>, OnItsWay(t) = 0,
             pc'[t] \in Labels \ {"apply", "withdraw", "book", "credit"},
             \A u \in Tasks \ {t} : pc'[u] = pc[u]
      PROVE  FInv'
  <2>1. OnItsWay(t)' = 0
    BY <1>k DEF OnItsWay
  <2>2. Follows(t)'
    BY <1>k, <1>1, <2>1 DEF Follows, Row
  <2> QED BY <1>k, <1>2, <2>2, <1>q
<1>l. Leave(t) => pc'[t] = "idle" /\ \A u \in Tasks \ {t} : pc'[u] = pc[u]
  BY <1>g DEF Leave
<1> USE DEF books, jobVars, outside, money
<1>3. CASE Begin(t) \/ QueryFails(t)
  <2>1. OnItsWay(t) = 0 /\ pc'[t] \in {"query", "exit", "deploy"}
    BY <1>3, <1>1, <1>g DEF Begin, QueryFails, AfterSnapshot, OnItsWay
  <2> QED BY <1>3, <2>1, <1>g, <1>k DEF Begin, QueryFails, Labels
<1>4. CASE Query(t)
  <2>1. seen'[t] = chain /\ pc'[t] = "apply" /\ OnItsWay(t) = 0 /\ OnItsWay(t)' = 0
    BY <1>4, <1>1, <1>2, <1>i, <1>g DEF Query, Reports, OnItsWay
  <2>2. Follows(t)'
    BY <1>4, <1>1, <2>1 DEF Query, Follows, Row
  <2> QED BY <1>4, <1>g, <1>q, <2>2 DEF Query
<1>5. CASE Apply(t)
  <2>1. /\ pc[t] = "apply" /\ pc'[t] \in {"exit", "deploy"} /\ OnItsWay(t) = 0
        /\ OnItsWay(t)' = 0 /\ seen[t] = chain /\ UNCHANGED <<chain, lag, job, setup>>
        /\ \A u \in Tasks \ {t} : pc'[u] = pc[u]
    BY <1>5, <1>1, <1>i, <1>g DEF Apply, AfterSnapshot, OnItsWay, Follows
  <2>2. Row' = Row
    <3>1. CASE SeesNothing(t)
      BY <3>1, <2>1, <1>z DEF SeesNothing, CloseRow, Row
    <3>2. CASE SeesUnbooked(t)
      BY <3>2, <2>1, <1>z DEF SeesUnbooked, Row
    <3>3. CASE SeesBooked(t)
      BY <3>3, <2>1, <1>z DEF SeesBooked, Row
    <3> QED BY <1>5, <3>1, <3>2, <3>3 DEF Apply
  <2>3. Follows(t)'
    BY <2>1, <2>2, <1>1 DEF Follows
  <2> QED BY <1>2, <1>q, <2>1, <2>3
<1>6. CASE ExitSkipped(t)
  BY <1>6, <1>g, <1>k DEF ExitSkipped, Labels, OnItsWay
<1>7. CASE ExitDue(t)
  <2>1. /\ pc'[t] = "withdraw" /\ captured' /\ OnItsWay(t) = 0 /\ OnItsWay(t)' = 0
    BY <1>7, <1>g DEF ExitDue, OnItsWay
  <2>2. Follows(t)'
    BY <1>7, <1>1, <2>1 DEF ExitDue, Follows, Row
  <2> QED BY <1>7, <1>2, <1>g, <1>q, <2>2 DEF ExitDue
<1>8. CASE Withdraw(t)
  <2>1. /\ pc'[t] = "book" /\ captured' /\ chain' = 0 /\ lag' = NoLag /\ chain = Row
        /\ amount'[t] = chain /\ UNCHANGED <<open, booked>>
    <3>1. chain' = 0 /\ lag' = NoLag
      BY <1>8, <1>f, <1>i DEF Withdraw, Flow
    <3> QED BY <1>8, <1>1, <1>z, <1>g, <1>i, <3>1 DEF Withdraw, Follows, OnItsWay, exitVars
  <2>2. Follows(t)'
    BY <2>1, <1>i DEF Follows, OnItsWay, Row
  <2> QED BY <1>8, <1>g, <1>q, <2>1, <2>2 DEF Withdraw
<1>9. CASE WithdrawFails(t)
  <2>1. UNCHANGED <<chain, lag>>
    BY <1>9 DEF WithdrawFails, Lost, Faulty, Undivided
  <2> QED BY <1>9, <1>g, <1>k, <2>1 DEF WithdrawFails, Labels, OnItsWay
<1>10. CASE BookExit(t)
  <2>1. /\ pc'[t] = "send" /\ chain' = 0 /\ ~open'
    BY <1>10, <1>1, <1>g DEF BookExit, CloseRow, Follows
  <2>2. Follows(t)'
    BY <2>1 DEF Follows, OnItsWay, Row
  <2> QED BY <1>10, <1>2, <1>g, <1>q, <2>2 DEF BookExit
<1>11. CASE Send(t) \/ TopUp(t)
  BY <1>11, <1>g, <1>k DEF Send, TopUp, Labels, OnItsWay
<1>12. CASE DeployPaused(t) \/ NothingNew(t)
  BY <1>12, <1>l, <1>k DEF DeployPaused, NothingNew, Labels, OnItsWay
<1>13. CASE FindFunds(t)
  BY <1>13, <1>g, <1>l, <1>k DEF FindFunds, Labels, OnItsWay
<1>14. CASE Deposit(t)
  <2>1. /\ pc'[t] = "credit" /\ chain' = chain + amount[t] /\ lag' = NoLag /\ chain = Row
        /\ UNCHANGED <<open, booked, amount>>
    <3>1. chain' = chain + amount[t] /\ lag' = NoLag
      BY <1>14, <1>f, <1>i DEF Deposit, Flow
    <3> QED BY <1>14, <1>z, <1>g, <3>1 DEF Deposit, OnItsWay
  <2>2. Follows(t)'
    BY <2>1, <1>i DEF Follows, OnItsWay, Row
  <2> QED BY <1>14, <1>g, <1>q, <2>1, <2>2 DEF Deposit
<1>15. CASE DepositFails(t)
  <2>1. UNCHANGED <<chain, lag>>
    BY <1>15 DEF DepositFails, Faulty, Undivided
  <2> QED BY <1>15, <1>l, <1>k, <2>1 DEF DepositFails, Labels, OnItsWay
<1>16. CASE BookDeposit(t)
  <2>1. /\ pc'[t] = "idle" /\ chain' = Row + amount[t] /\ Row' = Row + amount[t]
        /\ \A u \in Tasks \ {t} : pc'[u] = pc[u]
    BY <1>16, <1>1, <1>l, <1>i DEF BookDeposit, Credit, Follows, OnItsWay, Row
  <2>2. Follows(t)'
    BY <2>1, <1>i DEF Follows, OnItsWay, Row
  <2> QED BY <1>16, <1>2, <1>q, <2>1, <2>2 DEF BookDeposit
<1>r. ASSUME UNCHANGED <<chain, lag, open, booked, captured, job, setup, taskVars>> PROVE FInv'
  <2>1. Follows(t)'
    BY <1>r, <1>1 DEF Follows, Row, OnItsWay, taskVars
  <2> QED BY <1>r, <1>2, <1>q, <2>1 DEF taskVars
<1>17. CASE Job \/ (\E k \in Kinds : JobBegin(k)) \/ JobDies \/ Restart
  BY <1>17, <1>2 DEF Job, JobWithdraw, JobBook, JobMovesOn, JobDeposit, JobBookDeposit, JobFails,
     JobBegin, JobDies, Restart, Faulty, Undivided
<1>18. CASE (\E n \in 1..setup.funds : Arrive(n)) \/ (\E h \in Healths : Measured(h))
            \/ DayPasses \/ UserEnables \/ UserDisables \/ UNCHANGED vars
  BY <1>18, <1>r DEF Arrive, Measured, DayPasses, UserEnables, UserDisables, vars, taskVars,
     exitVars
<1>19. CASE Task(t)
  BY <1>19, <1>3, <1>4, <1>5, <1>6, <1>7, <1>8, <1>9, <1>10, <1>11, <1>12, <1>13, <1>14, <1>15,
     <1>16 DEF Task
<1> QED BY <1>17, <1>18, <1>19, <1>u DEF Next, World

(* As long as one task comes due at a time, no manual job runs and nothing  *)
(* is lost, lags or dies (Undivided), the row holds what is in the pool     *)
(* after every booking, for any funds, limits, guards and switches.         *)
THEOREM RowFollows == Spec => []BooksFollow
<1> DEFINE I == Undivided => FInv
<1>1. Init => I
  <2> SUFFICES ASSUME Init, Undivided PROVE FInv
    OBVIOUS
  <2>1. setup.running \subseteq Tasks
    BY SetupTypes DEF Init
  <2>2. PICK t \in Tasks : setup.running \subseteq {t}
    BY <2>1 DEF Undivided, Tasks
  <2>3. Only(t) /\ Follows(t)
    BY <2>2 DEF Init, Only, Follows, Row, OnItsWay
  <2> QED BY <2>3 DEF Init, NoJob, FInv
<1>2. TInv /\ I /\ [Next]_vars => I'
  <2>1. [Next]_vars => UNCHANGED setup
    BY DEF Next, vars, Task, Job, World, Begin, Query, QueryFails, Apply, ExitSkipped, ExitDue,
       Withdraw, WithdrawFails, BookExit, Send, TopUp, DeployPaused, NothingNew, FindFunds, Deposit,
       DepositFails, BookDeposit, JobBegin, JobWithdraw, JobBook, JobMovesOn, JobDeposit,
       JobBookDeposit, JobFails, JobDies, Arrive, Measured, DayPasses, UserEnables, UserDisables,
       Restart, outside
  <2>2. [Next]_vars /\ Undivided' => Undivided
    BY <2>1 DEF Undivided
  <2> QED BY <2>2, FollowStep
<1>3. TInv /\ I => BooksFollow
  <2> SUFFICES ASSUME TInv, FInv
               PROVE  chain = (IF open THEN booked ELSE 0) + OnItsWay("tick") + OnItsWay("sync")
    BY DEF BooksFollow
  <2>1. PICK t \in Tasks : Only(t) /\ Follows(t)
    BY DEF FInv
  <2>2. \A u \in Tasks \ {t} : OnItsWay(u) = 0
    BY <2>1 DEF Only, OnItsWay
  <2>3. Row \in Int /\ OnItsWay(t) \in Int
    BY Parts DEF BookTypes, TaskTypes, Row, OnItsWay
  <2>4. chain = Row + OnItsWay(t)
    BY <2>1 DEF Follows
  <2>5. CASE t = "tick"
    BY <2>2, <2>3, <2>4, <2>5 DEF Tasks, Row
  <2>6. CASE t = "sync"
    BY <2>2, <2>3, <2>4, <2>6 DEF Tasks, Row
  <2> QED BY <2>5, <2>6 DEF Tasks
<1> HIDE DEF I
<1> QED BY <1>1, <1>2, <1>3, TypedSpec, PTL DEF Spec
=============================================================================
