---------------------------- MODULE WalletLocks ----------------------------
(***************************************************************************)
(* The lock files of the liquidity bot, src/bots/liquidity/lib/            *)
(* cleanup-lock.js, and the processes that share one wallet under them:    *)
(* the bot (one sequential process: claims, rebalancing, exits), cleanup   *)
(* runs, and the manual actions deposit.js, withdraw.js and                *)
(* close-and-reopen.js.  A lock is a file that is overwritten by whoever   *)
(* acquires it and unlinked by whoever releases it.                        *)
(***************************************************************************)
EXTENDS Naturals

CONSTANTS
  Bot, Cleanups, Manuals,
  Reopen,        \* the manual actions that are close-and-reopen.js
  NoFile,        \* the lock file does not exist
  Orphan,        \* the process that wrote the file has died
  TornSets,      \* who may be interrupted between a check and its write
  SlowSets       \* locks that may outlive their *_STALE_MS

Procs == {Bot} \cup Cleanups \cup Manuals
Locks == {"cleanup", "sl", "manual", "rebalance", "botop"}
Roles == {"bot", "cleanup", "manual"}

ASSUME LocksAssumption ==
  /\ Bot \notin Cleanups \cup Manuals /\ Cleanups \cap Manuals = {}
  /\ Reopen \subseteq Manuals
  /\ NoFile \notin Procs /\ Orphan \notin Procs
  /\ TornSets \subseteq SUBSET Roles /\ SlowSets \subseteq SUBSET Locks

VARIABLES
  torn, slow,    \* members of TornSets and SlowSets; never change
  file,          \* per lock: the process named in its file
  old,           \* locks whose file is older than its *_STALE_MS
  pc,            \* per process: where it is
  job            \* the lock of the bot's operation, or "open", or how it came to its exit

files == <<file, old>>
vars == <<torn, slow, files, pc, job>>

Ops == {"botop", "rebalance"}
Exits == {"first", "forced", "resumed"}

(* Between a check and the write that relies on it.                         *)
Mids == {"mid", "opMid", "topMid", "slMid"}
BotPlaces == {"off", "idle", "yield", "opMid", "op", "open", "topMid", "topup", "slWait", "slMid", "exit"}
CleanupPlaces == {"off", "mid", "work", "handed"}
ManualPlaces == {"off", "wait", "mid", "again", "work"}

TypeOK ==
  /\ torn \in TornSets /\ slow \in SlowSets
  /\ file \in [Locks -> Procs \cup {NoFile, Orphan}]
  /\ old \subseteq Locks
  /\ pc \in [Procs -> BotPlaces \cup CleanupPlaces \cup ManualPlaces]
  /\ pc[Bot] \in BotPlaces
  /\ \A c \in Cleanups : pc[c] \in CleanupPlaces
  /\ \A m \in Manuals : pc[m] \in ManualPlaces
  /\ job \in Ops \cup Exits \cup {"none", "open"}

Init ==
  /\ torn \in TornSets /\ slow \in SlowSets
  /\ file = [k \in Locks |-> NoFile] /\ old = {}
  /\ pc = [p \in Procs |-> "off"]
  /\ job = "none"

RoleOf(p) == IF p = Bot THEN "bot" ELSE IF p \in Cleanups THEN "cleanup" ELSE "manual"

(* Whoever is not torn runs from its check to its write without a pause.    *)
MayMove(p) == \A q \in Procs : (pc[q] \in Mids /\ RoleOf(q) \notin torn) => q = p

Goto(p, step) == pc' = [pc EXCEPT ![p] = step]

-----------------------------------------------------------------------------
(* A file that is stale or an orphan is removed by the check that finds it; *)
(* it is as good as absent before, so the model leaves it.                  *)
CheckLock(k) == file[k] \in Procs /\ k \notin old
Acquire(k, p) == file' = [file EXCEPT ![k] = p] /\ old' = old \ {k}
Release(k) == file' = [file EXCEPT ![k] = NoFile] /\ old' = old \ {k}

(* process.kill(pid, 0) fails with ESRCH from now on.                       *)
OrphansOf(p) == [k \in Locks |-> IF file[k] = p THEN Orphan ELSE file[k]]
Busy == CheckLock("botop") \/ CheckLock("rebalance")

-----------------------------------------------------------------------------
Rest == Goto(Bot, "idle") /\ job' = "none"

(* The bot: an operation on a position (claim, reinvest, snapshot, shift    *)
(* top-up under botop.lock, a rebalance under rebalance.lock) yields to a   *)
(* manual action for 6 seconds and is then skipped.                         *)
OpDue(k) ==
  /\ pc[Bot] = "idle"
  /\ job' = k
  /\ Goto(Bot, IF CheckLock("manual") THEN "yield" ELSE "opMid")
  /\ UNCHANGED files

Yield ==
  /\ pc[Bot] = "yield"
  /\ \/ ~CheckLock("manual") /\ Goto(Bot, "opMid") /\ UNCHANGED job
     \/ CheckLock("manual") /\ Rest
  /\ UNCHANGED files

OpBegin == pc[Bot] = "opMid" /\ Acquire(job, Bot) /\ Goto(Bot, "op") /\ UNCHANGED job
OpEnd == pc[Bot] = "op" /\ Release(job) /\ Rest

(* A position that is missing after a close is opened again, whoever closed *)
(* it; _openNewPosition() knows no lock.                                    *)
OpenDue == pc[Bot] = "idle" /\ job' = "open" /\ Goto(Bot, "open") /\ UNCHANGED files
OpenEnd == pc[Bot] = "open" /\ Rest /\ UNCHANGED files

(* Before it invests, either may buy SOL under the SL lock.                 *)
TopUpDue ==
  /\ pc[Bot] \in {"op", "open"} /\ ~CheckLock("cleanup")
  /\ Goto(Bot, "topMid")
  /\ UNCHANGED <<files, job>>
TopUpBegin == pc[Bot] = "topMid" /\ Acquire("sl", Bot) /\ Goto(Bot, "topup") /\ UNCHANGED job
TopUpEnd ==
  /\ pc[Bot] = "topup"
  /\ Release("sl")
  /\ Goto(Bot, IF job = "open" THEN "open" ELSE "op")
  /\ UNCHANGED job

(* An exit (trailing stop, TVL protection, retirement, SOL self-heal).      *)
ExitDue ==
  /\ pc[Bot] = "idle"
  /\ job' = "first"
  /\ Goto(Bot, IF CheckLock("cleanup") THEN "slWait" ELSE "slMid")
  /\ UNCHANGED files

(* Every 10 s a look, and after 15 minutes the exit goes on regardless.     *)
CleanupFinished == ~CheckLock("cleanup") /\ UNCHANGED job
WaitForever == FALSE
WaitTimeout == CheckLock("cleanup") /\ job' = "forced"
ExitWaits ==
  /\ pc[Bot] = "slWait"
  /\ CleanupFinished \/ WaitTimeout
  /\ Goto(Bot, "slMid")
  /\ UNCHANGED files

(* An exit that a crash or an error has left behind is resumed at once.     *)
ExitResumes ==
  /\ pc[Bot] = "idle"
  /\ job' = "resumed" /\ Goto(Bot, "slMid")
  /\ UNCHANGED files

ExitBegin == pc[Bot] = "slMid" /\ Acquire("sl", Bot) /\ Goto(Bot, "exit") /\ UNCHANGED job
ExitEnd == pc[Bot] = "exit" /\ Release("sl") /\ Rest

BotStart == pc[Bot] = "off" /\ Goto(Bot, "idle") /\ UNCHANGED <<files, job>>

BotStep ==
  \/ \E k \in Ops : OpDue(k)
  \/ Yield \/ OpBegin \/ OpEnd \/ OpenDue \/ OpenEnd
  \/ TopUpDue \/ TopUpBegin \/ TopUpEnd
  \/ ExitDue \/ ExitWaits \/ ExitResumes \/ ExitBegin \/ ExitEnd
  \/ BotStart

-----------------------------------------------------------------------------
CleanupIgnoresExit(c) ==
  /\ pc[c] = "off"
  /\ ~CheckLock("manual") /\ ~CheckLock("rebalance")
  /\ Goto(c, "mid")
  /\ UNCHANGED <<files, job>>

(* A cleanup run is skipped while another activity holds its lock; it does  *)
(* not look at its own.                                                     *)
CleanupStart(c) ==
  /\ pc[c] = "off"
  /\ ~CheckLock("sl") /\ ~CheckLock("manual") /\ ~CheckLock("rebalance")
  /\ Goto(c, "mid")
  /\ UNCHANGED <<files, job>>

CleanupBegin(c) == pc[c] = "mid" /\ Acquire("cleanup", c) /\ Goto(c, "work") /\ UNCHANGED job

HandOverLocked(c) == pc[c] = "work" /\ Goto(c, "handed") /\ UNCHANGED <<files, job>>

(* executeReinvest() gives the lock back and starts deposit.js, which would *)
(* refuse to run beside it; the deposit is one of Manuals.                  *)
HandOver(c) == pc[c] = "work" /\ Release("cleanup") /\ Goto(c, "handed") /\ UNCHANGED job

(* releaseOwnLock() at the end and on SIGTERM, which may also come between  *)
(* the checks and the write.                                                *)
CleanupEnd(c) ==
  /\ \/ pc[c] \in {"mid", "work"} /\ Release("cleanup")
     \/ pc[c] = "handed" /\ UNCHANGED files
  /\ Goto(c, "off")
  /\ UNCHANGED job

-----------------------------------------------------------------------------
(* abort() of deposit.js and withdraw.js unlinks manual.lock, whoever wrote *)
(* it; close-and-reopen.js just exits.                                      *)
Abort(m) == IF m \in Reopen THEN UNCHANGED files ELSE Release("manual")

ManualRefused(m) ==
  /\ pc[m] = "off"
  /\ CheckLock("cleanup") \/ CheckLock("sl")
  /\ Abort(m)
  /\ UNCHANGED <<pc, job>>

ManualStart(m) ==
  /\ pc[m] = "off"
  /\ ~CheckLock("cleanup") /\ ~CheckLock("sl")
  /\ Goto(m, IF Busy THEN "wait" ELSE "mid")
  /\ UNCHANGED <<files, job>>

(* waitForBotToFinish(): up to 90 s.                                        *)
ManualWait(m) ==
  /\ pc[m] = "wait"
  /\ \/ ~Busy /\ Goto(m, "mid") /\ UNCHANGED files
     \/ Busy /\ Goto(m, "off") /\ Abort(m)
  /\ UNCHANGED job

ManualBeginOnce(m) == pc[m] = "mid" /\ Acquire("manual", m) /\ Goto(m, "work") /\ UNCHANGED job
ManualBegin(m) ==
  /\ pc[m] = "mid"
  /\ Acquire("manual", m)
  /\ Goto(m, IF m \in Reopen THEN "work" ELSE "again")
  /\ UNCHANGED job

(* The second waitForBotToFinish(), with the lock held.                     *)
ManualEnter(m) == pc[m] = "again" /\ ~Busy /\ Goto(m, "work") /\ UNCHANGED <<files, job>>

(* The end, an error, SIGTERM, or 90 s behind the bot.                      *)
ManualEnd(m) == pc[m] \in {"again", "work"} /\ Release("manual") /\ Goto(m, "off") /\ UNCHANGED job

-----------------------------------------------------------------------------
Die(p) ==
  /\ pc[p] # "off"
  /\ Goto(p, "off")
  /\ file' = OrphansOf(p)
  /\ job' = IF p = Bot THEN "none" ELSE job
  /\ UNCHANGED old

Age(k) ==
  /\ k \in slow /\ CheckLock(k)
  /\ old' = old \cup {k}
  /\ UNCHANGED <<file, pc, job>>

CleanupStep(c) == CleanupStart(c) \/ CleanupBegin(c) \/ HandOver(c) \/ CleanupEnd(c)
ManualStep(m) ==
  \/ ManualRefused(m) \/ ManualStart(m) \/ ManualWait(m)
  \/ ManualBegin(m) \/ ManualEnter(m) \/ ManualEnd(m)

Next ==
  /\ UNCHANGED <<torn, slow>>
  /\ \/ MayMove(Bot) /\ BotStep
     \/ \E c \in Cleanups : MayMove(c) /\ CleanupStep(c)
     \/ \E m \in Manuals : MayMove(m) /\ ManualStep(m)
     \/ \E p \in Procs : MayMove(p) /\ Die(p)
     \/ \E k \in slow : Age(k)

Spec == Init /\ [][Next]_vars

(* The bot is scheduled: SF, because the sections others pass without a     *)
(* pause hold it up in the model only.  Nobody promises that a cleanup run  *)
(* or a manual action ends, only that it gets over such a section.          *)
Fairness ==
  /\ SF_vars(MayMove(Bot) /\ BotStep /\ UNCHANGED <<torn, slow>>)
  /\ \A c \in Cleanups : WF_vars(CleanupBegin(c) /\ UNCHANGED <<torn, slow>>)
  /\ \A m \in Manuals : WF_vars(ManualBegin(m) /\ UNCHANGED <<torn, slow>>)

FairSpec == Spec /\ Fairness

-----------------------------------------------------------------------------
(* Where a process does what its lock is there for.                         *)
Section(k) ==
  CASE k = "cleanup" -> {"work"}
    [] k = "sl" -> {"exit", "topup"}
    [] k = "manual" -> {"again", "work"}
    [] k \in {"rebalance", "botop"} -> {"op", "topMid", "topup"}

(* A lock that makes others wait, skip or abort belongs to a process that   *)
(* is alive and at the work the lock protects: no crash, no abort, no       *)
(* handing over of a lock leaves one that blocks for nothing.  (checkLock(),*)
(* the finally blocks, executeReinvest() before it starts deposit.js)       *)
BlockedOnlyByWork ==
  \A k \in Locks : CheckLock(k) =>
    /\ pc[file[k]] \in Section(k)
    /\ k \in Ops => job = k

(* Of a manual action and a claim, reinvest, snapshot or rebalance of the   *)
(* bot, one waits: while an action works and still owns manual.lock, the    *)
(* bot is in none of them.                                                  *)
(* deposit.js and withdraw.js owe it to their second waitForBotToFinish()   *)
(* and are safe even if they are interrupted between the first and the      *)
(* write; close-and-reopen.js has no second one.                            *)
BotYieldsToManual ==
  \A m \in Manuals :
    /\ pc[m] = "work" /\ CheckLock("manual") /\ file["manual"] = m
    /\ "bot" \notin torn /\ (m \in Reopen => "manual" \notin torn)
    /\ Ops \cap slow = {}
    => ~(pc[Bot] \in {"op", "topMid", "topup"} /\ job \in Ops)

(* A cleanup run that works under its own lock and an exit, or the purchase *)
(* of SOL inside an operation, exclude each other, unless the exit has      *)
(* given up waiting or is a resumed one.                                    *)
CleanupExcludesExit ==
  \A c \in Cleanups :
    /\ pc[c] = "work" /\ CheckLock("cleanup") /\ file["cleanup"] = c
    /\ {"bot", "cleanup"} \cap torn = {} /\ "sl" \notin slow
    => /\ pc[Bot] # "topup"
       /\ pc[Bot] = "exit" => job # "first"

(* waitForCleanupToFinish(): a cleanup run that hangs delays an exit, but   *)
(* never keeps it from selling.                                             *)
ExitStarts == pc[Bot] = "slWait" ~> pc[Bot] \in {"exit", "off"}

(* bin/deposit.js:453: once it has waited for the bot with its lock held,   *)
(* "danach mutiert garantiert nur diese Aktion".                            *)
NobodyElseWorks ==
  \A m \in Manuals : pc[m] = "work" =>
    /\ pc[Bot] \notin {"op", "open", "topMid", "topup", "exit"}
    /\ \A c \in Cleanups : pc[c] # "work"
    /\ \A n \in Manuals \ {m} : pc[n] # "work"
=============================================================================
