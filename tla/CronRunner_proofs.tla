------------------------- MODULE CronRunner_proofs -------------------------
(* Theorems about CronRunner, for any jobs, runners, ages and faults.       *)
EXTENDS CronRunner, TLAPS

-----------------------------------------------------------------------------
(* Types.  What a runner holds depends on where it is.                      *)

Places ==
  \A r \in Runners :
    /\ pc[r] = "start" => running[r] = {} /\ ended[r] = {}
    /\ pc[r] = "wait" => todo[r] = {}

TInv == TypeOK /\ Places

FileTypes ==
  /\ faults \in FaultSets /\ deploy \in BOOLEAN
  /\ pending \in [Jobs -> Ages] /\ owed \in [Jobs -> Ages]
  /\ lock \in [Jobs -> Runners \cup {NoLock, DeadPid}]
  /\ orphans \in [Jobs -> Nat] /\ kills \in Nat /\ paused \in BOOLEAN

RunnerTypes ==
  /\ pc \in [Runners -> {"none", "start", "launch", "wait"}]
  /\ todo \in [Runners -> SUBSET Jobs]
  /\ running \in [Runners -> SUBSET Jobs] /\ ended \in [Runners -> SUBSET Jobs]
  /\ \A r \in Runners : pc[r] = "none" => todo[r] \cup running[r] \cup ended[r] = {}
  /\ Places

LEMMA Parts == TInv <=> FileTypes /\ RunnerTypes
BY DEF TInv, TypeOK, FileTypes, RunnerTypes

LEMMA AgesFit ==
  /\ None \in Ages /\ 0 \in Ages
  /\ \A age \in Ages : Older(age) \in Ages
BY CronAssumption DEF Ages, None, Older

LEMMA AgeTypes ==
  ASSUME NEW age \in [Jobs -> Ages], NEW d
  PROVE  /\ GrownOlder(age) \in [Jobs -> Ages]
         /\ Miss(age, d) \in [Jobs -> Ages]
         /\ [j \in Jobs |-> IF Fresh(age[j]) THEN age[j] ELSE None] \in [Jobs -> Ages]
         /\ [j \in Jobs |-> Older(age[j])] \in [Jobs -> Ages]
<1> USE AgesFit
<1>1. \A j \in Jobs : age[j] \in Ages
  OBVIOUS
<1> QED BY <1>1 DEF GrownOlder, Miss

LEMMA FilesTyped == ASSUME TInv, [Next]_vars PROVE FileTypes'
<1> USE AgesFit, AgeTypes DEF FileTypes
<1>0. FileTypes
  BY Parts
<1>1. CASE UNCHANGED vars
  BY <1>0, <1>1 DEF vars, fileVars, history
<1>2. ASSUME NEW r \in Runners, NEW d \in SUBSET Jobs, Tick(r, d) PROVE FileTypes'
  BY <1>0, <1>2 DEF Tick, MinutePasses
<1>3. ASSUME NEW d \in SUBSET Jobs, TickLost(d) PROVE FileTypes'
  BY <1>0, <1>3 DEF TickLost, MinutePasses
<1>4. ASSUME NEW r \in Runners, Remember(r) PROVE FileTypes'
  BY <1>0, <1>4 DEF Remember
<1>5. ASSUME NEW r \in Runners, Take(r) PROVE FileTypes'
  <2>1. pending' = [j \in Jobs |-> None]
    BY <1>5 DEF Take
  <2>2. owed' = [j \in Jobs |-> IF Fresh(owed[j]) THEN owed[j] ELSE None]
    BY <1>5 DEF Take
  <2>3. UNCHANGED <<faults, deploy, lock, orphans, kills>> /\ paused' = FALSE
    BY <1>5 DEF Take
  <2> QED BY <1>0, <2>1, <2>2, <2>3
<1>6. ASSUME NEW r \in Runners, NEW j \in Jobs, Skip(r, j) \/ Launch(r, j) \/ LogFails(r, j)
      PROVE FileTypes'
  BY <1>0, <1>6 DEF Skip, Launch, LogFails, Dealt, fileVars
<1>7. ASSUME NEW r \in Runners, Launched(r) \/ End(r) PROVE FileTypes'
  BY <1>0, <1>7 DEF Launched, End, fileVars, history
<1>8. ASSUME NEW r \in Runners, NEW j \in Jobs, JobEnds(r, j) \/ Finish(r, j) PROVE FileTypes'
  BY <1>0, <1>8 DEF JobEnds, Finish, fileVars, history
<1>9. ASSUME NEW j \in Jobs, OrphanEnds(j) PROVE FileTypes'
  BY <1>0, <1>9 DEF OrphanEnds, fileVars, history
<1>10. CASE DeployBegins \/ DeployEnds
  BY <1>0, <1>10 DEF DeployBegins, DeployEnds, history
<1>11. ASSUME NEW r \in Runners, Kill(r) PROVE FileTypes'
  BY <1>0, <1>11 DEF Kill, history
<1> QED BY <1>1, <1>2, <1>3, <1>4, <1>5, <1>6, <1>7, <1>8, <1>9, <1>10, <1>11 DEF Next, Starts

LEMMA RunnersTyped == ASSUME TInv, [Next]_vars PROVE RunnerTypes'
<1> USE DEF RunnerTypes, Places
<1>0. RunnerTypes
  BY Parts
<1>1. CASE UNCHANGED vars
  BY <1>0, <1>1 DEF vars, runnerVars
<1>2. ASSUME NEW r \in Runners, NEW d \in SUBSET Jobs, Tick(r, d) PROVE RunnerTypes'
  BY <1>0, <1>2 DEF Tick
<1>3. ASSUME NEW d \in SUBSET Jobs, TickLost(d) PROVE RunnerTypes'
  BY <1>0, <1>3 DEF TickLost, runnerVars
<1>4. ASSUME NEW r \in Runners, Remember(r) PROVE RunnerTypes'
  BY <1>0, <1>4 DEF Remember, Exits
<1>5. ASSUME NEW r \in Runners, Take(r) PROVE RunnerTypes'
  <2> DEFINE due == todo[r] \cup Carried(r)
  <2>1. due \subseteq Jobs /\ pc[r] = "start" /\ UNCHANGED <<running, ended>>
    BY <1>0, <1>5 DEF Take, Carried
  <2>2. \/ Exits(r)
        \/ pc' = [pc EXCEPT ![r] = "launch"] /\ todo' = [todo EXCEPT ![r] = due]
    BY <1>5 DEF Take
  <2> HIDE DEF due
  <2> QED BY <1>0, <2>1, <2>2 DEF Exits
<1>6. ASSUME NEW r \in Runners, NEW j \in Jobs, Skip(r, j) \/ Launch(r, j) \/ LogFails(r, j)
      PROVE RunnerTypes'
  BY <1>0, <1>6 DEF Skip, Launch, LogFails, Dealt
<1>7. ASSUME NEW r \in Runners, Launched(r) \/ End(r) PROVE RunnerTypes'
  BY <1>0, <1>7 DEF Launched, End, AllOver
<1>8. ASSUME NEW r \in Runners, NEW j \in Jobs, JobEnds(r, j) \/ Finish(r, j) PROVE RunnerTypes'
  BY <1>0, <1>8 DEF JobEnds, Finish
<1>9. ASSUME NEW j \in Jobs, OrphanEnds(j) PROVE RunnerTypes'
  BY <1>0, <1>9 DEF OrphanEnds, runnerVars
<1>10. CASE DeployBegins \/ DeployEnds
  BY <1>0, <1>10 DEF DeployBegins, DeployEnds, runnerVars
<1>11. ASSUME NEW r \in Runners, Kill(r) PROVE RunnerTypes'
  BY <1>0, <1>11 DEF Kill
<1> QED BY <1>1, <1>2, <1>3, <1>4, <1>5, <1>6, <1>7, <1>8, <1>9, <1>10, <1>11 DEF Next, Starts

LEMMA StartTyped == Init => TInv
<1> SUFFICES ASSUME Init PROVE FileTypes /\ RunnerTypes
  BY Parts
<1>1. FileTypes
  BY AgesFit DEF Init, FileTypes
<1>2. RunnerTypes
  BY DEF Init, RunnerTypes, Places
<1> QED BY <1>1, <1>2

LEMMA TypesKept == TInv /\ [Next]_vars => TInv'
<1> SUFFICES ASSUME TInv, [Next]_vars PROVE FileTypes' /\ RunnerTypes'
  BY DEF TInv, TypeOK, FileTypes, RunnerTypes
<1> QED BY FilesTyped, RunnersTyped

(* Types, for any number of jobs and runners: TypeOK of CronRunner.tla.     *)
THEOREM Typing == Spec => []TypeOK
<1>1. TInv => TypeOK
  BY DEF TInv
<1> QED BY StartTyped, TypesKept, <1>1, PTL DEF Spec

-----------------------------------------------------------------------------
(* No job beside itself.  As long as no runner is killed, the lock of a job *)
(* that is running, or has ended before its finish(), names its runner.     *)

Held ==
  /\ \A j \in Jobs : orphans[j] = 0
  /\ \A r \in Runners : \A j \in Jobs : j \in running[r] \cup ended[r] => lock[j] = r
  /\ \A r \in Runners : running[r] \cap ended[r] = {}

LEMMA HeldKept == ASSUME TInv, ~Faulty("kill"), Held, [Next]_vars PROVE Held'
<1> USE DEF Held
<1>0. RunnerTypes /\ FileTypes /\ NoLock \notin Runners
  BY Parts, CronAssumption
<1>1. CASE UNCHANGED vars
  BY <1>1 DEF vars, runnerVars, fileVars
<1>2. ASSUME NEW r \in Runners, NEW d \in SUBSET Jobs, Tick(r, d) \/ TickLost(d) PROVE Held'
  BY <1>2 DEF Tick, TickLost, runnerVars
<1>3. ASSUME NEW d \in SUBSET Jobs, TickLost(d) PROVE Held'
  BY <1>3 DEF TickLost, runnerVars
<1>4. ASSUME NEW r \in Runners, Remember(r) \/ Take(r) PROVE Held'
  BY <1>4 DEF Remember, Take
<1>5. ASSUME NEW r \in Runners, NEW j \in Jobs, Skip(r, j) PROVE Held'
  BY <1>5 DEF Skip, fileVars
<1>6. ASSUME NEW r \in Runners, NEW j \in Jobs, Launch(r, j) \/ LogFails(r, j) PROVE Held'
  <2>1. \A s \in Runners : j \notin running[s] \cup ended[s]
    BY <1>6 DEF Launch, LogFails, Locked
  <2> QED BY <1>0, <1>6, <2>1 DEF Launch, LogFails, RunnerTypes, FileTypes
<1>7. ASSUME NEW r \in Runners, Launched(r) \/ End(r) PROVE Held'
  BY <1>7 DEF Launched, End, fileVars
<1>8. ASSUME NEW r \in Runners, NEW j \in Jobs, JobEnds(r, j) PROVE Held'
  BY <1>0, <1>8 DEF JobEnds, RunnerTypes, fileVars
<1>9. ASSUME NEW r \in Runners, NEW j \in Jobs, Finish(r, j) PROVE Held'
  <2>1. lock[j] = r
    BY <1>9 DEF Finish
  <2>2. \A s \in Runners : j \in running[s] \cup ended[s] => s = r
    BY <2>1
  <2>3. j \notin running[r] => j \notin running'[r] \cup ended'[r]
    BY <1>0, <1>9 DEF Finish, RunnerTypes
  <2> QED BY <1>0, <1>9, <2>1, <2>2, <2>3 DEF Finish, RunnerTypes, FileTypes
<1>10. ASSUME NEW j \in Jobs, OrphanEnds(j) PROVE Held'
  BY <1>10 DEF OrphanEnds
<1>11. CASE DeployBegins \/ DeployEnds
  BY <1>11 DEF DeployBegins, DeployEnds, runnerVars
<1>12. ASSUME NEW r \in Runners, Kill(r) PROVE Held'
  BY <1>12 DEF Kill
<1> QED BY <1>1, <1>2, <1>3, <1>4, <1>5, <1>6, <1>7, <1>8, <1>9, <1>10, <1>11, <1>12 DEF Next, Starts

(* The lock files keep a job from running beside itself as long as no       *)
(* runner is killed: NoOverlap of CronRunner.tla.                           *)
THEOREM NoJobTwice == Spec => []NoOverlap
<1> DEFINE I == ~Faulty("kill") => Held
<1>1. Init => I
  BY DEF Init, Held
<1>2. [Next]_vars => faults' = faults
  BY DEF Next, Starts, vars, Tick, TickLost, Remember, Take, Skip, Launch, LogFails, Launched,
         JobEnds, Finish, End, OrphanEnds, DeployBegins, DeployEnds, Kill
<1>3. TInv /\ I /\ [Next]_vars => I'
  BY <1>2, HeldKept DEF Faulty
<1>4. I => NoOverlap
  <2> SUFFICES ASSUME Held, NEW j \in Jobs
               PROVE  orphans[j] = 0 /\ \A r, s \in Runs(j) : r = s
    BY DEF NoOverlap
  <2>1. \A r \in Runs(j) : lock[j] = r
    BY DEF Held, Runs
  <2> QED BY <2>1 DEF Held
<1> HIDE DEF I
<1> QED BY StartTyped, TypesKept, <1>1, <1>3, <1>4, PTL DEF Spec

-----------------------------------------------------------------------------
(* Missed slots.  One runner at a time is at its synchronous part; while    *)
(* none launches jobs, the list of missed slots is what is owed, and        *)
(* something is only owed as long as the updates go on.                     *)

Early(r) == pc[r] \in {"start", "launch"}
OneEarly == \A r, s \in Runners : Early(r) /\ Early(s) => r = s
Listed ==
  (\A r \in Runners : pc[r] # "launch") =>
    \A j \in Jobs : owed[j] = pending[j] /\ (owed[j] # None => paused)
Launching ==
  \A r \in Runners : pc[r] = "launch" =>
    \A j \in Jobs : pending[j] = None /\ (owed[j] # None => j \in todo[r])
Noted == OneEarly /\ Listed /\ Launching

Sound == faults \cap {"kill", "gone"} = {}

LEMMA NotedKept == ASSUME TInv, Sound, Noted, [Next]_vars PROVE Noted'
<1> USE DEF Noted, OneEarly, Early, Listed, Launching
<1>0. RunnerTypes /\ FileTypes /\ ~Faulty("kill") /\ ~Faulty("gone")
  BY Parts DEF Sound, Faulty
<1>1. CASE UNCHANGED vars
  BY <1>1 DEF vars, runnerVars, fileVars, history
<1>2. ASSUME NEW r \in Runners, NEW d \in SUBSET Jobs, Tick(r, d) PROVE Noted'
  <2>1. \A s \in Runners : ~Early(s) /\ pc'[s] = (IF s = r THEN "start" ELSE pc[s])
    BY <1>0, <1>2 DEF Tick, MinutePasses, RunnerTypes
  <2>2. \A j \in Jobs : /\ owed'[j] = Older(owed[j]) /\ pending'[j] = Older(pending[j])
                        /\ owed'[j] # None => owed[j] # None
    BY <1>2 DEF Tick, MinutePasses, GrownOlder, Older
  <2>3. paused' = paused
    BY <1>2 DEF Tick
  <2> QED BY <2>1, <2>2, <2>3
<1>3. ASSUME NEW d \in SUBSET Jobs, TickLost(d) PROVE Noted'
  BY <1>0, <1>3 DEF TickLost
<1>4. ASSUME NEW r \in Runners, Remember(r) PROVE Noted'
  <2>1. \A s \in Runners : pc[s] # "launch" /\ pc'[s] = (IF s = r THEN "none" ELSE pc[s])
    BY <1>0, <1>4 DEF Remember, Exits, RunnerTypes
  <2>2. \A j \in Jobs : owed'[j] = pending'[j]
    BY <2>1, <1>4 DEF Remember, Miss
  <2>3. paused'
    BY <1>4 DEF Remember
  <2> QED BY <2>1, <2>2, <2>3
<1>5. ASSUME NEW r \in Runners, Take(r) PROVE Noted'
  <2> DEFINE due == todo[r] \cup Carried(r)
  <2>1. \A s \in Runners : pc[s] # "launch" /\ (s # r => pc'[s] = pc[s] /\ ~Early(s))
    BY <1>0, <1>5 DEF Take, Exits, RunnerTypes
  <2>2. \A j \in Jobs : /\ pending'[j] = None
                        /\ owed'[j] # None => j \in due
    BY <2>1, <1>5 DEF Take, Carried
  <2>3. CASE due = {}
    <3>1. pc'[r] = "none"
      BY <1>0, <1>5, <2>3 DEF Take, Exits, RunnerTypes
    <3> QED BY <2>1, <2>2, <2>3, <3>1
  <2>4. CASE due # {}
    <3>1. pc'[r] = "launch" /\ todo'[r] = due
      BY <1>0, <1>5, <2>4 DEF Take, RunnerTypes
    <3> QED BY <2>1, <2>2, <3>1
  <2> QED BY <2>3, <2>4
<1>6. ASSUME NEW r \in Runners, NEW j \in Jobs, Skip(r, j) \/ Launch(r, j) \/ LogFails(r, j)
      PROVE Noted'
  <2>1. pc[r] = "launch" /\ UNCHANGED <<pc, pending, paused>> /\ Dealt(r, j)
    BY <1>6 DEF Skip, Launch, LogFails, fileVars
  <2>2. todo'[r] = todo[r] \ {j} /\ owed'[j] = None
    BY <1>0, <2>1 DEF Dealt, RunnerTypes, FileTypes
  <2>3. \A i \in Jobs \ {j} : owed'[i] = owed[i]
    BY <1>0, <2>1 DEF Dealt, FileTypes
  <2> QED BY <2>1, <2>2, <2>3
<1>7. ASSUME NEW r \in Runners, Launched(r) PROVE Noted'
  <2>1. \A s \in Runners : s # r => pc'[s] = pc[s] /\ ~Early(s)
    BY <1>0, <1>7 DEF Launched, RunnerTypes
  <2>2. pc'[r] = "wait" /\ UNCHANGED <<pending, owed>>
    BY <1>0, <1>7 DEF Launched, RunnerTypes, fileVars, history
  <2>3. \A j \in Jobs : pending[j] = None /\ owed[j] = None
    BY <1>7 DEF Launched
  <2> QED BY <2>1, <2>2, <2>3
<1>8. ASSUME NEW r \in Runners, NEW j \in Jobs, JobEnds(r, j) \/ Finish(r, j) PROVE Noted'
  BY <1>8 DEF JobEnds, Finish, fileVars, history
<1>9. ASSUME NEW r \in Runners, End(r) PROVE Noted'
  BY <1>0, <1>9 DEF End, RunnerTypes, fileVars, history
<1>10. ASSUME NEW j \in Jobs, OrphanEnds(j) PROVE Noted'
  BY <1>10 DEF OrphanEnds, runnerVars, fileVars, history
<1>11. CASE DeployBegins \/ DeployEnds
  BY <1>11 DEF DeployBegins, DeployEnds, runnerVars, history
<1>12. ASSUME NEW r \in Runners, Kill(r) PROVE Noted'
  BY <1>0, <1>12 DEF Kill
<1> QED BY <1>1, <1>2, <1>3, <1>4, <1>5, <1>6, <1>7, <1>8, <1>9, <1>10, <1>11, <1>12 DEF Next, Starts

(* A slot missed in an update is made up for by the first runner after it,  *)
(* whatever the number of jobs and the age limit: MadeUp of CronRunner.tla. *)
THEOREM SlotsMadeUp == Spec => []MadeUp
<1> DEFINE I == Sound => Noted
<1>1. Init => I
  BY DEF Init, Noted, OneEarly, Early, Listed, Launching
<1>2. [Next]_vars => faults' = faults
  BY DEF Next, Starts, vars, Tick, TickLost, Remember, Take, Skip, Launch, LogFails, Launched,
         JobEnds, Finish, End, OrphanEnds, DeployBegins, DeployEnds, Kill
<1>3. TInv /\ I /\ [Next]_vars => I'
  BY <1>2, NotedKept DEF Sound
<1>4. I => MadeUp
  <2> SUFFICES ASSUME Noted, NEW j \in Jobs, Fresh(owed[j]), ~paused
               PROVE \E r \in Runners : pc[r] \in {"start", "launch"} /\ j \in todo[r]
    BY DEF MadeUp, Sound
  <2>1. owed[j] # None
    BY CronAssumption DEF Fresh, None
  <2> QED BY <2>1 DEF Noted, Listed, Launching
<1> HIDE DEF I
<1> QED BY StartTyped, TypesKept, <1>1, <1>3, <1>4, PTL DEF Spec
=============================================================================
