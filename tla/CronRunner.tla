----------------------------- MODULE CronRunner -----------------------------
(***************************************************************************)
(* The cron runner (src/bin/forge-cron.js): cron starts one process of it  *)
(* every minute, which starts the jobs that are due, each under a lock     *)
(* file of its own, and stays until they have ended.  While an update      *)
(* holds deploy.lock (src/bin/setup-lib), jobs are remembered in           *)
(* cron-pending.json instead and made up for by the first process after    *)
(* it.  The schedule is abstracted: any jobs may be due at a minute.       *)
(* cron-state.json is left out.                                            *)
(***************************************************************************)
EXTENDS Integers

CONSTANTS
  Jobs,      \* job ids
  Runners,   \* processes of the runner that may be alive at a time
  NoLock,    \* the lock file does not exist
  DeadPid,   \* the lock file names a process that has died
  MaxAge,    \* PENDING_MAX_AGE_MS in minutes
  MaxKills,  \* bound: killed runners
  FaultSets  \* sets of failures that may occur together

(* "kill": a runner dies, and the jobs it has started go on without it.     *)
(* "gone": bin/forge-cron.js may be missing while an update copies it.      *)
(* "log":  the log file of a job may not be writable.                       *)
ASSUME CronAssumption ==
  /\ NoLock \notin Runners /\ DeadPid \notin Runners /\ NoLock # DeadPid
  /\ MaxAge \in Nat /\ MaxKills \in Nat
  /\ FaultSets \subseteq SUBSET {"kill", "gone", "log"}

VARIABLES
  faults,       \* the failures of this behaviour; never changes
  deploy,       \* deploy.lock exists
  pending,      \* cron-pending.json: minutes since the slot that was missed first
  lock,         \* pid in cron-locks/<id>.lock
  pc,           \* per runner: "none" if there is no such process
  todo,         \* per runner: due and carried, not launched yet
  running,      \* per runner: jobs it has started and awaits
  ended,        \* per runner: jobs that have ended, before finish()
  orphans,      \* per job: runs whose runner was killed
  kills,        \* counter for the bound
  owed,         \* history: minutes since a slot was missed in an update
  paused        \* history: the last runner met deploy.lock, or could not start

fileVars == <<deploy, pending, lock>>
runnerVars == <<pc, todo, running, ended>>
history == <<owed, paused>>
vars == <<faults, fileVars, runnerVars, orphans, kills, history>>

None == -1
Ages == None..(MaxAge + 1)
Older(age) == IF age \in {None, MaxAge + 1} THEN age ELSE age + 1
Fresh(age) == age \in 0..MaxAge
Faulty(f) == f \in faults

(* A process that is gone holds nothing.                                    *)
TypeOK ==
  /\ faults \in FaultSets
  /\ deploy \in BOOLEAN
  /\ pending \in [Jobs -> Ages] /\ owed \in [Jobs -> Ages]
  /\ lock \in [Jobs -> Runners \cup {NoLock, DeadPid}]
  /\ pc \in [Runners -> {"none", "start", "launch", "wait"}]
  /\ todo \in [Runners -> SUBSET Jobs]
  /\ running \in [Runners -> SUBSET Jobs] /\ ended \in [Runners -> SUBSET Jobs]
  /\ orphans \in [Jobs -> Nat] /\ kills \in Nat
  /\ paused \in BOOLEAN
  /\ \A r \in Runners : pc[r] = "none" => todo[r] \cup running[r] \cup ended[r] = {}

Init ==
  /\ faults \in FaultSets
  /\ deploy = FALSE
  /\ pending = [j \in Jobs |-> None] /\ owed = [j \in Jobs |-> None]
  /\ lock = [j \in Jobs |-> NoLock]
  /\ pc = [r \in Runners |-> "none"]
  /\ todo = [r \in Runners |-> {}]
  /\ running = [r \in Runners |-> {}] /\ ended = [r \in Runners |-> {}]
  /\ orphans = [j \in Jobs |-> 0] /\ kills = 0
  /\ paused = FALSE

-----------------------------------------------------------------------------
(* Cron and time.                                                           *)

(* The synchronous part of a runner is over long before the next minute.    *)
MinutePasses ==
  /\ \A r \in Runners : pc[r] \in {"none", "wait"}
  /\ pending' = [j \in Jobs |-> Older(pending[j])]

Miss(age, d) == [j \in Jobs |-> IF j \in d /\ age[j] = None THEN 0 ELSE age[j]]
GrownOlder(age) == [j \in Jobs |-> Older(age[j])]

(* A new process; its NOW is this minute, at which the jobs of d are due.   *)
Tick(r, d) ==
  /\ MinutePasses
  /\ pc[r] = "none"
  /\ pc' = [pc EXCEPT ![r] = "start"] /\ todo' = [todo EXCEPT ![r] = d]
  /\ owed' = GrownOlder(owed)
  /\ UNCHANGED <<faults, deploy, lock, running, ended, orphans, kills, paused>>

(* do_deploy has removed the program: nothing starts, nothing remembers.    *)
TickLost(d) ==
  /\ Faulty("gone") /\ deploy
  /\ MinutePasses
  /\ owed' = Miss(GrownOlder(owed), d) /\ paused' = TRUE
  /\ UNCHANGED <<faults, deploy, lock, runnerVars, orphans, kills>>

-----------------------------------------------------------------------------
(* The synchronous part of a runner.                                        *)

Exits(r) == pc' = [pc EXCEPT ![r] = "none"] /\ todo' = [todo EXCEPT ![r] = {}]

(* rememberPending: the first missed slot stays.                            *)
Remember(r) ==
  /\ pc[r] = "start" /\ deploy
  /\ pending' = Miss(pending, todo[r])
  /\ owed' = Miss(owed, todo[r]) /\ paused' = TRUE
  /\ Exits(r)
  /\ UNCHANGED <<faults, deploy, lock, running, ended, orphans, kills>>

(* mutant: the idle exit comes first *)
CarriedIfDue(r) == IF todo[r] = {} THEN {} ELSE {j \in Jobs : Fresh(pending[j])}

Carried(r) == {j \in Jobs : Fresh(pending[j])}

(* takePending empties the list in any case; the idle exit comes after it.  *)
Take(r) ==
  /\ pc[r] = "start" /\ ~deploy
  /\ pending' = [j \in Jobs |-> None]
  /\ LET due == todo[r] \cup Carried(r)
     IN IF due = {}
          THEN Exits(r)
          ELSE pc' = [pc EXCEPT ![r] = "launch"] /\ todo' = [todo EXCEPT ![r] = due]
  /\ owed' = [j \in Jobs |-> IF Fresh(owed[j]) THEN owed[j] ELSE None]
  /\ paused' = FALSE
  /\ UNCHANGED <<faults, deploy, lock, running, ended, orphans, kills>>

(* mutant: any lock file counts, also that of a dead process *)
LockedByAny(j) == lock[j] # NoLock

(* acquireLock: a lock counts as long as its process is alive.              *)
Locked(j) == lock[j] \in Runners

Dealt(r, j) ==
  /\ todo' = [todo EXCEPT ![r] = @ \ {j}]
  /\ owed' = [owed EXCEPT ![j] = None]

(* mutant: the lock is removed also by the one who has not got it *)
SkipAndRelease(r, j) ==
  /\ pc[r] = "launch" /\ j \in todo[r] /\ Locked(j)
  /\ Dealt(r, j)
  /\ lock' = [lock EXCEPT ![j] = NoLock]
  /\ UNCHANGED <<faults, deploy, pending, pc, running, ended, orphans, kills, paused>>

(* Another run of the job is not over yet.                                  *)
Skip(r, j) ==
  /\ pc[r] = "launch" /\ j \in todo[r] /\ Locked(j)
  /\ Dealt(r, j)
  /\ UNCHANGED <<faults, fileVars, pc, running, ended, orphans, kills, paused>>

(* The lock is set and the job started.                                     *)
Launch(r, j) ==
  /\ pc[r] = "launch" /\ j \in todo[r] /\ ~Locked(j)
  /\ Dealt(r, j)
  /\ lock' = [lock EXCEPT ![j] = r]
  /\ running' = [running EXCEPT ![r] = @ \cup {j}]
  /\ UNCHANGED <<faults, deploy, pending, pc, ended, orphans, kills, paused>>

(* Without its log file a job is not started.                               *)
LogFails(r, j) ==
  /\ Faulty("log")
  /\ pc[r] = "launch" /\ j \in todo[r] /\ ~Locked(j)
  /\ Dealt(r, j)
  /\ lock' = [lock EXCEPT ![j] = NoLock]
  /\ UNCHANGED <<faults, deploy, pending, pc, running, ended, orphans, kills, paused>>

Launched(r) ==
  /\ pc[r] = "launch" /\ todo[r] = {}
  /\ pc' = [pc EXCEPT ![r] = "wait"]
  /\ UNCHANGED <<faults, fileVars, todo, running, ended, orphans, kills, history>>

-----------------------------------------------------------------------------
(* The jobs.                                                                *)

JobEnds(r, j) ==
  /\ pc[r] = "wait" /\ j \in running[r]
  /\ running' = [running EXCEPT ![r] = @ \ {j}]
  /\ ended' = [ended EXCEPT ![r] = @ \cup {j}]
  /\ UNCHANGED <<faults, fileVars, pc, todo, orphans, kills, history>>

(* finish(): releaseLock.                                                   *)
Finish(r, j) ==
  /\ pc[r] = "wait" /\ j \in ended[r]
  /\ ended' = [ended EXCEPT ![r] = @ \ {j}]
  /\ lock' = [lock EXCEPT ![j] = NoLock]
  /\ UNCHANGED <<faults, deploy, pending, pc, todo, running, orphans, kills, history>>

AllOver(r) == running[r] \cup ended[r] = {}

(* Promise.all is over.                                                     *)
End(r) ==
  /\ pc[r] = "wait" /\ AllOver(r)
  /\ pc' = [pc EXCEPT ![r] = "none"]
  /\ UNCHANGED <<faults, fileVars, todo, running, ended, orphans, kills, history>>

OrphanEnds(j) ==
  /\ orphans[j] > 0
  /\ orphans' = [orphans EXCEPT ![j] = @ - 1]
  /\ UNCHANGED <<faults, fileVars, runnerVars, kills, history>>

-----------------------------------------------------------------------------
(* The world outside.                                                       *)

(* deploy_lock_acquire waits for nobody.                                    *)
DeployBegins ==
  /\ ~deploy /\ deploy' = TRUE
  /\ UNCHANGED <<faults, pending, lock, runnerVars, orphans, kills, history>>

DeployEnds ==
  /\ deploy /\ deploy' = FALSE
  /\ UNCHANGED <<faults, pending, lock, runnerVars, orphans, kills, history>>

Kill(r) ==
  /\ Faulty("kill") /\ kills < MaxKills /\ pc[r] # "none"
  /\ kills' = kills + 1
  /\ pc' = [pc EXCEPT ![r] = "none"] /\ todo' = [todo EXCEPT ![r] = {}]
  /\ orphans' = [j \in Jobs |-> orphans[j] + (IF j \in running[r] THEN 1 ELSE 0)]
  /\ running' = [running EXCEPT ![r] = {}] /\ ended' = [ended EXCEPT ![r] = {}]
  /\ lock' = [j \in Jobs |-> IF lock[j] = r THEN DeadPid ELSE lock[j]]
  /\ UNCHANGED <<faults, deploy, pending, history>>

Starts(r) ==
  \/ Remember(r) \/ Take(r) \/ Launched(r)
  \/ \E j \in Jobs : Skip(r, j) \/ Launch(r, j) \/ LogFails(r, j)

Next ==
  \/ \E r \in Runners :
       \/ \E d \in SUBSET Jobs : Tick(r, d)
       \/ Starts(r)
       \/ \E j \in Jobs : JobEnds(r, j) \/ Finish(r, j)
       \/ End(r) \/ Kill(r)
  \/ \E d \in SUBSET Jobs : TickLost(d)
  \/ \E j \in Jobs : OrphanEnds(j)
  \/ DeployBegins \/ DeployEnds

Spec == Init /\ [][Next]_vars

(* A process goes on with its code.  That a job ends is not assumed: no     *)
(* job has a time limit.                                                    *)
Fairness ==
  \A r \in Runners : WF_vars(Starts(r)) /\ WF_vars(\E j \in Jobs : Finish(r, j)) /\ WF_vars(End(r))

FairSpec == Spec /\ Fairness

-----------------------------------------------------------------------------
(* Properties.                                                              *)

Runs(j) == {r \in Runners : j \in running[r]}
Alive(j) == Runs(j) # {} \/ orphans[j] > 0

(* The lock files keep a job from running beside itself (header, line 14),  *)
(* unless a runner is killed, whose jobs go on under a lock nobody honours. *)
NoOverlap ==
  ~Faulty("kill") => \A j \in Jobs : orphans[j] = 0 /\ \A r, s \in Runs(j) : r = s

(* A slot missed in an update is made up for by the first runner after it,  *)
(* unless it is too old (comment at DEPLOY_LOCK), whether or not anything   *)
(* else is due then; only a runner that is killed or cannot start loses it. *)
MadeUp ==
  faults \cap {"kill", "gone"} = {} =>
    \A j \in Jobs :
      Fresh(owed[j]) => paused \/ \E r \in Runners : pc[r] \in {"start", "launch"} /\ j \in todo[r]

(* A job that is due again and again runs again and again: no lock of a     *)
(* dead runner and no update that has ended stops it.                       *)
JobsGoOn ==
  (<>[](~deploy) /\ ~Faulty("log")) =>
    \A j \in Jobs :
      []<>(\E r \in Runners : pc[r] = "start" /\ j \in todo[r]) => []<>Alive(j)
=============================================================================
