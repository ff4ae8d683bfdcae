------------------------- MODULE WalletLocks_proofs -------------------------
(***************************************************************************)
(* Proofs about WalletLocks for any number of processes: types, no lock    *)
(* that blocks for nothing, and the two exclusions the locks do provide.   *)
(***************************************************************************)
EXTENDS WalletLocks, TLAPS

(* Why the files may be written with any k, and what a step may name.       *)
LEMMA LockNames ==
  /\ "cleanup" \in Locks /\ "sl" \in Locks /\ "manual" \in Locks
  /\ Ops \subseteq Locks /\ Bot \in Procs
  /\ Cleanups \subseteq Procs /\ Manuals \subseteq Procs
BY DEF Locks, Ops, Procs

(* The bot's work is of the kind its place needs.                           *)
JobFits ==
  /\ pc[Bot] \in {"yield", "opMid", "op"} => job \in Ops
  /\ pc[Bot] = "open" => job = "open"
  /\ pc[Bot] \in {"topMid", "topup"} => job \in Ops \cup {"open"}
  /\ pc[Bot] \in {"slWait", "slMid", "exit"} => job \in Exits

TInv == TypeOK /\ JobFits

(* Each role moves its own program counter only.                            *)
FileTypes == file \in [Locks -> Procs \cup {NoFile, Orphan}] /\ old \subseteq Locks

LEMMA FilesTyped ==
  ASSUME FileTypes, NEW k \in Locks, NEW p \in Procs,
         Acquire(k, p) \/ Release(k) \/ UNCHANGED files
  PROVE  FileTypes'
BY DEF FileTypes, Acquire, Release, files

LEMMA BotTypes == ASSUME TInv, BotStep, UNCHANGED <<torn, slow>> PROVE TInv'
<1> USE LocksAssumption, LockNames
<1>1. pc' \in [Procs -> BotPlaces \cup CleanupPlaces \cup ManualPlaces]
      /\ \A q \in Procs \ {Bot} : pc'[q] = pc[q]
  BY DEF TInv, TypeOK, BotStep, OpDue, Yield, Rest, OpBegin, OpEnd, OpenDue, OpenEnd, TopUpDue,
         TopUpBegin, TopUpEnd, ExitDue, ExitWaits, ExitResumes, ExitBegin, ExitEnd, BotStart, Goto, BotPlaces
<1>2. /\ pc'[Bot] \in BotPlaces
      /\ job' \in Ops \cup Exits \cup {"none", "open"}
      /\ JobFits'
  BY DEF TInv, TypeOK, JobFits, Exits, BotStep, OpDue, Yield, Rest, OpBegin, OpEnd, OpenDue, OpenEnd, TopUpDue,
         TopUpBegin, TopUpEnd, ExitDue, ExitWaits, CleanupFinished, WaitTimeout, ExitResumes, ExitBegin,
         ExitEnd, BotStart, Goto, BotPlaces
<1>3. FileTypes'
  <2>1. FileTypes
    BY DEF TInv, TypeOK, FileTypes
  <2>2. \E k \in Locks : Acquire(k, Bot) \/ Release(k) \/ UNCHANGED files
    BY DEF TInv, TypeOK, JobFits, BotStep, OpDue, Yield, OpBegin, OpEnd, OpenDue, OpenEnd, TopUpDue,
           TopUpBegin, TopUpEnd, ExitDue, ExitWaits, ExitResumes, ExitBegin, ExitEnd, BotStart
  <2> QED BY <2>1, <2>2, FilesTyped
<1> QED BY <1>1, <1>2, <1>3 DEF TInv, TypeOK, FileTypes, Procs

LEMMA CleanupTypes ==
  ASSUME TInv, NEW c \in Cleanups, CleanupStep(c), UNCHANGED <<torn, slow>> PROVE TInv'
<1> USE LocksAssumption, LockNames
<1>1. /\ pc' \in [Procs -> BotPlaces \cup CleanupPlaces \cup ManualPlaces]
      /\ \A q \in Procs \ {c} : pc'[q] = pc[q]
      /\ pc'[c] \in CleanupPlaces
      /\ job' = job
  BY DEF TInv, TypeOK, CleanupStep, CleanupStart, CleanupBegin, HandOver, CleanupEnd, Goto, CleanupPlaces
<1>2. FileTypes'
  <2>1. FileTypes
    BY DEF TInv, TypeOK, FileTypes
  <2>2. Acquire("cleanup", c) \/ Release("cleanup") \/ UNCHANGED files
    BY DEF CleanupStep, CleanupStart, CleanupBegin, HandOver, CleanupEnd
  <2> QED BY <2>1, <2>2, FilesTyped
<1>3. Bot # c /\ c \notin Manuals
  OBVIOUS
<1> QED BY <1>1, <1>2, <1>3 DEF TInv, TypeOK, FileTypes, JobFits

LEMMA ManualTypes ==
  ASSUME TInv, NEW m \in Manuals, ManualStep(m), UNCHANGED <<torn, slow>> PROVE TInv'
<1> USE LocksAssumption, LockNames
<1>1. /\ pc' \in [Procs -> BotPlaces \cup CleanupPlaces \cup ManualPlaces]
      /\ \A q \in Procs \ {m} : pc'[q] = pc[q]
      /\ pc'[m] \in ManualPlaces
      /\ job' = job
  BY DEF TInv, TypeOK, ManualStep, ManualRefused, ManualStart, ManualWait, ManualBegin, ManualEnter,
         ManualEnd, Goto, ManualPlaces
<1>2. FileTypes'
  <2>1. FileTypes
    BY DEF TInv, TypeOK, FileTypes
  <2>2. Acquire("manual", m) \/ Release("manual") \/ UNCHANGED files
    BY DEF ManualStep, ManualRefused, ManualStart, ManualWait, ManualBegin, ManualEnter, ManualEnd, Abort
  <2> QED BY <2>1, <2>2, FilesTyped
<1>3. Bot # m /\ m \notin Cleanups
  OBVIOUS
<1> QED BY <1>1, <1>2, <1>3 DEF TInv, TypeOK, FileTypes, JobFits

LEMMA DieTypes ==
  ASSUME TInv, NEW p \in Procs, Die(p), UNCHANGED <<torn, slow>> PROVE TInv'
<1> USE LocksAssumption, LockNames
<1>1. /\ pc' \in [Procs -> BotPlaces \cup CleanupPlaces \cup ManualPlaces]
      /\ \A q \in Procs \ {p} : pc'[q] = pc[q]
      /\ pc'[p] = "off"
  BY DEF TInv, TypeOK, Die, Goto, BotPlaces
<1>2. FileTypes'
  BY DEF TInv, TypeOK, FileTypes, Die, OrphansOf
<1>3. p = Bot => job' = "none"
  BY DEF Die
<1>4. p # Bot => job' = job /\ pc'[Bot] = pc[Bot]
  BY <1>1 DEF Die
<1>5. job' \in Ops \cup Exits \cup {"none", "open"} /\ JobFits'
  BY <1>1, <1>3, <1>4 DEF TInv, TypeOK, JobFits
<1>6. pc'[Bot] \in BotPlaces
  BY <1>1, <1>4 DEF TInv, TypeOK, BotPlaces
<1>7. \A c \in Cleanups : pc'[c] \in CleanupPlaces
  BY <1>1 DEF TInv, TypeOK, CleanupPlaces
<1>8. \A m \in Manuals : pc'[m] \in ManualPlaces
  BY <1>1 DEF TInv, TypeOK, ManualPlaces
<1> QED BY <1>1, <1>2, <1>5, <1>6, <1>7, <1>8 DEF TInv, TypeOK, FileTypes

LEMMA TypesKept == TInv /\ [Next]_vars => TInv'
<1> SUFFICES ASSUME TInv, [Next]_vars PROVE TInv'
  OBVIOUS
<1>1. CASE UNCHANGED vars
  BY <1>1 DEF vars, files, TInv, TypeOK, JobFits
<1>2. CASE Next
  <2>1. UNCHANGED <<torn, slow>>
    BY <1>2 DEF Next
  <2>2. CASE MayMove(Bot) /\ BotStep
    BY <2>1, <2>2, BotTypes
  <2>3. CASE \E c \in Cleanups : MayMove(c) /\ CleanupStep(c)
    BY <2>1, <2>3, CleanupTypes
  <2>4. CASE \E m \in Manuals : MayMove(m) /\ ManualStep(m)
    BY <2>1, <2>4, ManualTypes
  <2>5. CASE \E p \in Procs : MayMove(p) /\ Die(p)
    BY <2>1, <2>5, DieTypes
  <2>6. CASE \E k \in slow : Age(k)
    <3> USE LocksAssumption
    <3>1. PICK k \in slow : Age(k)
      BY <2>6
    <3>2. slow \subseteq Locks
      BY DEF TInv, TypeOK
    <3> QED BY <2>1, <3>1, <3>2 DEF Age, TInv, TypeOK, JobFits
  <2> QED BY <1>2, <2>2, <2>3, <2>4, <2>5, <2>6 DEF Next
<1> QED BY <1>1, <1>2

LEMMA StartTyped == Init => TInv
BY LocksAssumption DEF Init, TInv, TypeOK, JobFits, BotPlaces, CleanupPlaces, ManualPlaces, Procs

(* Types, for any number of processes: TypeOK of WalletLocks.tla.           *)
THEOREM Typing == Spec => []TypeOK
<1>1. TInv => TypeOK
  BY DEF TInv
<1> QED BY StartTyped, TypesKept, <1>1, PTL DEF Spec

-----------------------------------------------------------------------------
OwnersOf(k) ==
  IF k = "cleanup" THEN Cleanups ELSE IF k = "manual" THEN Manuals ELSE {Bot}

(* Stronger than BlockedOnlyByWork: it holds of stale files too, and says   *)
(* which role writes which file.                                            *)
Owned ==
  \A k \in Locks : file[k] \in Procs =>
    /\ file[k] \in OwnersOf(k)
    /\ pc[file[k]] \in Section(k)
    /\ k \in Ops => job = k

LEMMA BotOwns == ASSUME TInv, Owned, BotStep PROVE Owned'
<1> USE LocksAssumption, LockNames DEF Owned
<1>1. \A q \in Procs \ {Bot} : pc'[q] = pc[q]
  BY DEF TInv, TypeOK, BotStep, OpDue, Yield, Rest, OpBegin, OpEnd, OpenDue, OpenEnd, TopUpDue,
         TopUpBegin, TopUpEnd, ExitDue, ExitWaits, ExitResumes, ExitBegin, ExitEnd, BotStart, Goto
<1> SUFFICES ASSUME NEW k \in Locks, file'[k] \in Procs
    PROVE /\ file'[k] \in OwnersOf(k)
          /\ pc'[file'[k]] \in Section(k)
          /\ k \in Ops => job' = k
  OBVIOUS
<1>2. Bot \notin OwnersOf("cleanup") /\ Bot \notin OwnersOf("manual")
  BY DEF OwnersOf
<1>3. CASE k \in {"cleanup", "manual"}
  <2>1. file'[k] = file[k] /\ file[k] # Bot
    BY <1>2, <1>3 DEF TInv, TypeOK, JobFits, Ops, BotStep, OpDue, Yield, Rest, OpBegin, OpEnd, OpenDue, OpenEnd, TopUpDue,
         TopUpBegin, TopUpEnd, ExitDue, ExitWaits, ExitResumes, ExitBegin, ExitEnd, BotStart, Goto,
         Acquire, Release, files
  <2> QED BY <1>1, <1>3, <2>1 DEF Ops
<1>4. CASE k = "sl"
  BY <1>4 DEF TInv, TypeOK, JobFits, Section, OwnersOf, Ops, BotStep, OpDue, Yield, Rest, OpBegin, OpEnd, OpenDue, OpenEnd, TopUpDue,
         TopUpBegin, TopUpEnd, ExitDue, ExitWaits, ExitResumes, ExitBegin, ExitEnd, BotStart, Goto,
         Acquire, Release, files
<1>5. CASE k \in Ops
  BY <1>5 DEF TInv, TypeOK, JobFits, Section, OwnersOf, Ops, Exits, BotStep, OpDue, Yield, Rest, OpBegin, OpEnd, OpenDue, OpenEnd, TopUpDue,
         TopUpBegin, TopUpEnd, ExitDue, ExitWaits, ExitResumes, ExitBegin, ExitEnd, BotStart, Goto,
         Acquire, Release, files
<1> QED BY <1>3, <1>4, <1>5 DEF Locks, Ops

LEMMA CleanupOwns == ASSUME TInv, Owned, NEW c \in Cleanups, CleanupStep(c) PROVE Owned'
<1> USE LocksAssumption, LockNames DEF Owned
<1>1. /\ \A q \in Procs \ {c} : pc'[q] = pc[q]
      /\ job' = job
      /\ \A k \in Locks \ {"cleanup"} : file'[k] = file[k]
  BY DEF TInv, TypeOK, CleanupStep, CleanupStart, CleanupBegin, HandOver, CleanupEnd, Goto, Acquire, Release, files
<1>2. \A k \in Locks \ {"cleanup"} : file[k] # c
  BY DEF OwnersOf
<1>3. file["cleanup"] \in Procs => file["cleanup"] \in Cleanups /\ pc[file["cleanup"]] = "work"
  BY DEF OwnersOf, Section
<1>4. file'["cleanup"] \in Procs => file'["cleanup"] \in Cleanups /\ pc'[file'["cleanup"]] = "work"
  BY <1>3 DEF TInv, TypeOK, CleanupStep, CleanupStart, CleanupBegin, HandOver, CleanupEnd, Goto, Acquire, Release, files
<1>5. Section("cleanup") = {"work"} /\ OwnersOf("cleanup") = Cleanups /\ "cleanup" \notin Ops
  BY DEF Section, OwnersOf, Ops
<1>6. ASSUME NEW k \in Locks \ {"cleanup"}, file'[k] \in Procs
      PROVE  file'[k] \in OwnersOf(k) /\ pc'[file'[k]] \in Section(k) /\ (k \in Ops => job' = k)
  BY <1>1, <1>2, <1>6
<1> QED BY <1>4, <1>5, <1>6

LEMMA ManualOwns == ASSUME TInv, Owned, NEW m \in Manuals, ManualStep(m) PROVE Owned'
<1> USE LocksAssumption, LockNames DEF Owned
<1>1. /\ \A q \in Procs \ {m} : pc'[q] = pc[q]
      /\ job' = job
      /\ \A k \in Locks \ {"manual"} : file'[k] = file[k]
  BY DEF TInv, TypeOK, ManualStep, ManualRefused, ManualStart, ManualWait, ManualBegin, ManualEnter, ManualEnd,
         Abort, Goto, Acquire, Release, files
<1>2. \A k \in Locks \ {"manual"} : file[k] # m
  BY DEF OwnersOf
<1>3. file["manual"] \in Procs => file["manual"] \in Manuals /\ pc[file["manual"]] \in {"again", "work"}
  BY DEF OwnersOf, Section
<1>4. file'["manual"] \in Procs => file'["manual"] \in Manuals /\ pc'[file'["manual"]] \in {"again", "work"}
  BY <1>3 DEF TInv, TypeOK, ManualStep, ManualRefused, ManualStart, ManualWait, ManualBegin, ManualEnter, ManualEnd,
         Abort, Goto, Acquire, Release, files
<1>5. Section("manual") = {"again", "work"} /\ OwnersOf("manual") = Manuals /\ "manual" \notin Ops
  BY DEF Section, OwnersOf, Ops
<1>6. ASSUME NEW k \in Locks \ {"manual"}, file'[k] \in Procs
      PROVE  file'[k] \in OwnersOf(k) /\ pc'[file'[k]] \in Section(k) /\ (k \in Ops => job' = k)
  BY <1>1, <1>2, <1>6
<1> QED BY <1>4, <1>5, <1>6

LEMMA DieOwns == ASSUME TInv, Owned, NEW p \in Procs, Die(p) PROVE Owned'
<1> USE LocksAssumption, LockNames DEF Owned
<1>1. \A k \in Locks : file'[k] \in Procs => file'[k] = file[k] /\ file'[k] # p
  BY DEF TInv, TypeOK, Die, OrphansOf
<1>2. \A q \in Procs \ {p} : pc'[q] = pc[q]
  BY DEF TInv, TypeOK, Die, Goto
<1>3. \A k \in Ops : file'[k] \in Procs => job' = job
  BY <1>1 DEF Die, OwnersOf, Ops
<1> QED BY <1>1, <1>2, <1>3

LEMMA OwnedKept == TInv /\ Owned /\ [Next]_vars => Owned'
<1> SUFFICES ASSUME TInv, Owned, [Next]_vars PROVE Owned'
  OBVIOUS
<1>1. CASE UNCHANGED vars
  BY <1>1 DEF vars, files, Owned
<1>2. CASE MayMove(Bot) /\ BotStep
  BY <1>2, BotOwns
<1>3. CASE \E c \in Cleanups : MayMove(c) /\ CleanupStep(c)
  BY <1>3, CleanupOwns
<1>4. CASE \E m \in Manuals : MayMove(m) /\ ManualStep(m)
  BY <1>4, ManualOwns
<1>5. CASE \E p \in Procs : MayMove(p) /\ Die(p)
  BY <1>5, DieOwns
<1>6. CASE \E k \in slow : Age(k)
  BY <1>6 DEF Age, Owned
<1> QED BY <1>1, <1>2, <1>3, <1>4, <1>5, <1>6 DEF Next

(* A lock that blocks somebody belongs to a live process at the work it     *)
(* protects, whatever dies, pauses or grows stale: BlockedOnlyByWork.       *)
THEOREM BlockedForCause == Spec => []BlockedOnlyByWork
<1>1. Init => Owned
  BY LocksAssumption DEF Init, Owned
<1>2. Owned => BlockedOnlyByWork
  BY DEF Owned, BlockedOnlyByWork, CheckLock
<1> QED BY StartTyped, TypesKept, <1>1, OwnedKept, <1>2, PTL DEF Spec

-----------------------------------------------------------------------------
InOp == pc[Bot] \in {"op", "topMid", "topup"} /\ job \in Ops

(* The bot holds the lock of its operation, and that of its exit.           *)
BotHolds ==
  /\ old \subseteq slow
  /\ InOp => file[job] = Bot
  /\ pc[Bot] \in {"exit", "topup"} => file["sl"] = Bot

LEMMA HoldsKept == TInv /\ Owned /\ BotHolds /\ [Next]_vars => BotHolds'
<1> SUFFICES ASSUME TInv, Owned, BotHolds, [Next]_vars PROVE BotHolds'
  OBVIOUS
<1> USE LocksAssumption, LockNames DEF BotHolds, InOp
<1>1. CASE UNCHANGED vars
  BY <1>1 DEF vars, files
<1>2. CASE MayMove(Bot) /\ BotStep /\ UNCHANGED <<torn, slow>>
  BY <1>2 DEF TInv, TypeOK, JobFits, Ops, Exits, BotStep, OpDue, Yield, Rest, OpBegin, OpEnd, OpenDue, OpenEnd, TopUpDue,
         TopUpBegin, TopUpEnd, ExitDue, ExitWaits, ExitResumes, ExitBegin, ExitEnd, BotStart, Goto,
         Acquire, Release, files
<1>3. CASE UNCHANGED <<torn, slow>> /\ \E c \in Cleanups : CleanupStep(c)
  BY <1>3 DEF TInv, TypeOK, Ops, CleanupStep, CleanupStart, CleanupBegin, HandOver, CleanupEnd, Goto, Acquire, Release, files
<1>4. CASE UNCHANGED <<torn, slow>> /\ \E m \in Manuals : ManualStep(m)
  BY <1>4 DEF TInv, TypeOK, Ops, ManualStep, ManualRefused, ManualStart, ManualWait, ManualBegin, ManualEnter,
         ManualEnd, Abort, Goto, Acquire, Release, files
<1>5. CASE UNCHANGED <<torn, slow>> /\ \E p \in Procs : Die(p)
  <2>1. PICK p \in Procs : Die(p)
    BY <1>5
  <2>2. CASE p = Bot
    BY <1>5, <2>1, <2>2 DEF Die, Goto, TInv, TypeOK
  <2>3. CASE p # Bot
    BY <1>5, <2>1, <2>3 DEF Die, Goto, TInv, TypeOK, OrphansOf, Ops
  <2> QED BY <2>2, <2>3
<1>6. CASE UNCHANGED <<torn, slow>> /\ \E k \in slow : Age(k)
  BY <1>6 DEF Age
<1> QED BY <1>1, <1>2, <1>3, <1>4, <1>5, <1>6 DEF Next

-----------------------------------------------------------------------------
(* The circumstances of BotYieldsToManual for one action.                   *)
Orderly(m) ==
  /\ "bot" \notin torn /\ (m \in Reopen => "manual" \notin torn)
  /\ Ops \cap slow = {}

(* What the bot is about to do counts, for it does not stop before it; and  *)
(* so does what an action about to write its lock has just seen.            *)
Operates == InOp \/ pc[Bot] = "opMid"
Exclusive(m) ==
  /\ pc[m] = "work" /\ CheckLock("manual") /\ file["manual"] = m => ~Operates
  /\ pc[m] = "mid" /\ "manual" \notin torn => ~Operates

LEMMA StillOrAlone ==
  ASSUME TInv, NEW p \in Procs, MayMove(p), NEW q \in Procs, q # p, RoleOf(q) \notin torn
  PROVE  pc[q] \notin Mids
BY DEF MayMove

LEMMA NotBusy == ASSUME BotHolds, Ops \cap slow = {}, ~Busy PROVE ~InOp
BY LockNames DEF BotHolds, InOp, Busy, CheckLock, Ops

LEMMA ExclusiveKept ==
  ASSUME NEW m \in Manuals, TInv, Owned, BotHolds, Exclusive(m), Orderly(m), [Next]_vars
  PROVE  Exclusive(m)'
<1> USE LocksAssumption, LockNames DEF Exclusive, Orderly
<1>0. Bot # m /\ RoleOf(Bot) = "bot" /\ RoleOf(m) = "manual"
  BY DEF RoleOf
<1>1. CASE UNCHANGED vars
  BY <1>1 DEF vars, files, Operates, InOp, CheckLock
<1>2. CASE MayMove(Bot) /\ BotStep /\ UNCHANGED <<torn, slow>>
  <2>1. pc[m] = "mid" => "manual" \in torn
    BY <1>0, <1>2, StillOrAlone DEF Mids
  <2>2. pc'[m] = pc[m] /\ file'["manual"] = file["manual"] /\ (CheckLock("manual")' => CheckLock("manual"))
    BY <1>0, <1>2 DEF TInv, TypeOK, JobFits, Ops, CheckLock, BotStep, OpDue, Yield, Rest, OpBegin, OpEnd, OpenDue, OpenEnd, TopUpDue,
         TopUpBegin, TopUpEnd, ExitDue, ExitWaits, ExitResumes, ExitBegin, ExitEnd, BotStart, Goto,
         Acquire, Release, files
  <2>3. Operates' => Operates \/ ~CheckLock("manual")
    BY <1>2 DEF TInv, TypeOK, JobFits, Ops, Exits, Operates, InOp, BotStep, OpDue, Yield, Rest, OpBegin, OpEnd, OpenDue, OpenEnd, TopUpDue,
         TopUpBegin, TopUpEnd, ExitDue, ExitWaits, ExitResumes, ExitBegin, ExitEnd, BotStart, Goto
  <2> QED BY <1>2, <2>1, <2>2, <2>3
<1>3. CASE UNCHANGED <<torn, slow>> /\ \E c \in Cleanups : CleanupStep(c)
  BY <1>3 DEF TInv, TypeOK, CheckLock, Operates, InOp, CleanupStep, CleanupStart, CleanupBegin, HandOver, CleanupEnd,
     Goto, Acquire, Release, files
<1>4. CASE UNCHANGED <<torn, slow>> /\ \E n \in Manuals : MayMove(n) /\ ManualStep(n)
  <2>1. PICK n \in Manuals : MayMove(n) /\ ManualStep(n)
    BY <1>4
  <2>2. pc'[Bot] = pc[Bot] /\ job' = job /\ (Operates' <=> Operates)
    BY <1>0, <2>1 DEF TInv, TypeOK, Operates, InOp, ManualStep, ManualRefused, ManualStart, ManualWait, ManualBegin, ManualEnter,
         ManualEnd, Goto
  <2>3. CASE n # m
    <3>1. pc'[m] = pc[m]
      BY <2>1, <2>3 DEF TInv, TypeOK, ManualStep, ManualRefused, ManualStart, ManualWait, ManualBegin, ManualEnter,
         ManualEnd, Goto
    <3>2. file'["manual"] = m => UNCHANGED files
      BY <2>1, <2>3 DEF TInv, TypeOK, ManualStep, ManualRefused, ManualStart, ManualWait, ManualBegin, ManualEnter,
         ManualEnd, Abort, Acquire, Release
    <3> QED BY <1>4, <2>2, <3>1, <3>2 DEF CheckLock, files
  <2>4. CASE n = m
    <3>1. pc[Bot] # "opMid"
      BY <1>0, <2>1, <2>4, StillOrAlone DEF Mids
    <3>2. ~Busy => ~Operates
      BY <3>1, NotBusy DEF Operates
    <3>3. CASE ManualRefused(m)
      BY <1>4, <2>2, <3>3 DEF ManualRefused, TInv, TypeOK
    <3>4. CASE ManualStart(m)
      BY <1>4, <2>2, <3>2, <3>4 DEF ManualStart, Goto, TInv, TypeOK
    <3>5. CASE ManualWait(m)
      BY <1>4, <2>2, <3>2, <3>5 DEF ManualWait, Goto, TInv, TypeOK
    <3>6. CASE ManualBegin(m)
      BY <1>4, <2>2, <3>6 DEF ManualBegin, Goto, TInv, TypeOK
    <3>7. CASE ManualEnter(m)
      BY <1>4, <2>2, <3>2, <3>7 DEF ManualEnter, Goto, TInv, TypeOK
    <3>8. CASE ManualEnd(m)
      BY <1>4, <2>2, <3>8 DEF ManualEnd, Goto, TInv, TypeOK
    <3> QED BY <2>1, <2>4, <3>3, <3>4, <3>5, <3>6, <3>7, <3>8 DEF ManualStep
  <2> QED BY <2>3, <2>4
<1>5. CASE UNCHANGED <<torn, slow>> /\ \E p \in Procs : Die(p)
  <2>1. PICK p \in Procs : Die(p)
    BY <1>5
  <2>2. /\ pc'[m] = "off" \/ pc'[m] = pc[m]
        /\ file'["manual"] = m => file["manual"] = m
        /\ CheckLock("manual")' => CheckLock("manual")
    BY <2>1 DEF Die, Goto, OrphansOf, CheckLock, TInv, TypeOK
  <2>3. Operates' => Operates
    BY <2>1 DEF Die, Goto, TInv, TypeOK, Operates, InOp
  <2> QED BY <1>5, <2>2, <2>3
<1>6. CASE UNCHANGED <<torn, slow>> /\ \E k \in slow : Age(k)
  BY <1>6 DEF Age, CheckLock, Operates, InOp
<1> QED BY <1>1, <1>2, <1>3, <1>4, <1>5, <1>6 DEF Next

OrderlyExclusive == \A m \in Manuals : Orderly(m) => Exclusive(m)

LEMMA OrderlyExclusiveKept ==
  TInv /\ Owned /\ BotHolds /\ OrderlyExclusive /\ [Next]_vars => OrderlyExclusive'
<1> SUFFICES ASSUME TInv, Owned, BotHolds, OrderlyExclusive, [Next]_vars, NEW m \in Manuals, Orderly(m)'
    PROVE Exclusive(m)'
  BY DEF OrderlyExclusive
<1>1. Orderly(m)
  BY DEF Next, vars, Orderly
<1> QED BY <1>1, ExclusiveKept DEF OrderlyExclusive

LEMMA StartHolds == Init => Owned /\ BotHolds /\ OrderlyExclusive
BY LocksAssumption, LockNames DEF Init, Owned, BotHolds, InOp, OrderlyExclusive, Exclusive

(* A manual action at work under its own lock and an operation of the bot   *)
(* exclude each other, for any number of actions: BotYieldsToManual.        *)
THEOREM YieldingBot == Spec => []BotYieldsToManual
<1>1. OrderlyExclusive => BotYieldsToManual
  BY DEF OrderlyExclusive, Orderly, Exclusive, Operates, InOp, BotYieldsToManual
<1> QED BY StartTyped, StartHolds, TypesKept, OwnedKept, HoldsKept, OrderlyExclusiveKept, <1>1, PTL DEF Spec

-----------------------------------------------------------------------------
(* The circumstances of CleanupExcludesExit, and what it excludes.          *)
Calm == {"bot", "cleanup"} \cap torn = {} /\ "sl" \notin slow
Sells == pc[Bot] \in {"topMid", "topup"} \/ (pc[Bot] \in {"slMid", "exit"} /\ job = "first")
Apart(c) ==
  /\ pc[c] = "work" /\ CheckLock("cleanup") /\ file["cleanup"] = c => ~Sells
  /\ pc[c] = "mid" => ~Sells

LEMMA NotSelling ==
  ASSUME TInv, BotHolds, "sl" \notin slow, ~CheckLock("sl"), pc[Bot] \notin Mids PROVE ~Sells
BY LockNames DEF BotHolds, Sells, CheckLock, Mids

LEMMA ApartKept ==
  ASSUME NEW c \in Cleanups, TInv, Owned, BotHolds, Apart(c), Calm, [Next]_vars PROVE Apart(c)'
<1> USE LocksAssumption, LockNames DEF Apart
<1>0. Bot # c /\ RoleOf(Bot) = "bot" /\ RoleOf(c) = "cleanup"
  BY DEF RoleOf
<1>1. CASE UNCHANGED vars
  BY <1>1 DEF vars, files, Sells, CheckLock
<1>2. CASE MayMove(Bot) /\ BotStep /\ UNCHANGED <<torn, slow>>
  <2>1. pc[c] # "mid"
    BY <1>0, <1>2, StillOrAlone DEF Mids, Calm
  <2>2. pc'[c] = pc[c] /\ file'["cleanup"] = file["cleanup"] /\ (CheckLock("cleanup")' => CheckLock("cleanup"))
    BY <1>0, <1>2 DEF TInv, TypeOK, JobFits, Ops, CheckLock, BotStep, OpDue, Yield, Rest, OpBegin, OpEnd, OpenDue, OpenEnd, TopUpDue,
         TopUpBegin, TopUpEnd, ExitDue, ExitWaits, ExitResumes, ExitBegin, ExitEnd, BotStart, Goto,
         Acquire, Release, files
  <2>3. CASE ExitWaits /\ CleanupFinished
    BY <1>0, <2>1, <2>2, <2>3 DEF ExitWaits, CleanupFinished, CheckLock, files
  <2>4. CASE ExitWaits /\ WaitTimeout
    BY <2>4 DEF ExitWaits, WaitTimeout, Sells, Goto, TInv, TypeOK
  <2>5. CASE ~ExitWaits
    <3>1. Sells' => Sells \/ ~CheckLock("cleanup")
      BY <1>2, <2>5 DEF TInv, TypeOK, JobFits, Ops, Exits, Sells, BotStep, OpDue, Yield, Rest, OpBegin, OpEnd, OpenDue, OpenEnd, TopUpDue,
         TopUpBegin, TopUpEnd, ExitDue, ExitResumes, ExitBegin, ExitEnd, BotStart, Goto
    <3> QED BY <2>1, <2>2, <3>1
  <2> QED BY <2>3, <2>4, <2>5 DEF ExitWaits
<1>3. CASE UNCHANGED <<torn, slow>> /\ \E d \in Cleanups : MayMove(d) /\ CleanupStep(d)
  <2>1. PICK d \in Cleanups : MayMove(d) /\ CleanupStep(d)
    BY <1>3
  <2>2. pc'[Bot] = pc[Bot] /\ job' = job /\ (Sells' <=> Sells)
    BY <1>0, <2>1 DEF TInv, TypeOK, Sells, CleanupStep, CleanupStart, CleanupBegin, HandOver, CleanupEnd, Goto
  <2>3. CASE d # c
    <3>1. pc'[c] = pc[c]
      BY <2>1, <2>3 DEF TInv, TypeOK, CleanupStep, CleanupStart, CleanupBegin, HandOver, CleanupEnd, Goto
    <3>2. file'["cleanup"] = c => UNCHANGED files
      BY <2>1, <2>3 DEF TInv, TypeOK, CleanupStep, CleanupStart, CleanupBegin, HandOver, CleanupEnd, Acquire, Release
    <3> QED BY <2>2, <3>1, <3>2 DEF CheckLock, files
  <2>4. CASE d = c
    <3>1. pc[Bot] \notin Mids
      BY <1>0, <2>1, <2>4, StillOrAlone DEF Calm
    <3>2. CASE CleanupStart(c)
      BY <2>2, <3>1, <3>2, NotSelling DEF CleanupStart, Calm, Goto, TInv, TypeOK
    <3>3. CASE CleanupBegin(c)
      BY <2>2, <3>3 DEF CleanupBegin, Goto, TInv, TypeOK
    <3>4. CASE HandOver(c) \/ CleanupEnd(c)
      BY <2>2, <3>4 DEF HandOver, CleanupEnd, Goto, TInv, TypeOK
    <3> QED BY <2>1, <2>4, <3>2, <3>3, <3>4 DEF CleanupStep
  <2> QED BY <2>3, <2>4
<1>4. CASE UNCHANGED <<torn, slow>> /\ \E m \in Manuals : ManualStep(m)
  BY <1>4 DEF TInv, TypeOK, CheckLock, Sells, ManualStep, ManualRefused, ManualStart, ManualWait, ManualBegin,
     ManualEnter, ManualEnd, Abort, Goto, Acquire, Release, files
<1>5. CASE UNCHANGED <<torn, slow>> /\ \E p \in Procs : Die(p)
  <2>1. PICK p \in Procs : Die(p)
    BY <1>5
  <2>2. /\ pc'[c] = "off" \/ pc'[c] = pc[c]
        /\ file'["cleanup"] = c => file["cleanup"] = c
        /\ CheckLock("cleanup")' => CheckLock("cleanup")
    BY <2>1 DEF Die, Goto, OrphansOf, CheckLock, TInv, TypeOK
  <2>3. Sells' => Sells
    BY <2>1 DEF Die, Goto, TInv, TypeOK, Sells
  <2> QED BY <2>2, <2>3
<1>6. CASE UNCHANGED <<torn, slow>> /\ \E k \in slow : Age(k)
  BY <1>6 DEF Age, CheckLock, Sells
<1> QED BY <1>1, <1>2, <1>3, <1>4, <1>5, <1>6 DEF Next

CalmApart == Calm => \A c \in Cleanups : Apart(c)

LEMMA CalmApartKept == TInv /\ Owned /\ BotHolds /\ CalmApart /\ [Next]_vars => CalmApart'
<1> SUFFICES ASSUME TInv, Owned, BotHolds, CalmApart, [Next]_vars, Calm', NEW c \in Cleanups
    PROVE Apart(c)'
  BY DEF CalmApart
<1>1. Calm
  BY DEF Next, vars, Calm
<1> QED BY <1>1, ApartKept DEF CalmApart

(* A cleanup run under its own lock, and an exit that neither gave up       *)
(* waiting nor was resumed, exclude each other: CleanupExcludesExit.        *)
THEOREM CleanupApart == Spec => []CleanupExcludesExit
<1>1. Init => CalmApart
  BY LocksAssumption, LockNames DEF Init, CalmApart, Apart
<1>2. CalmApart => CleanupExcludesExit
  BY DEF CalmApart, Calm, Apart, Sells, CleanupExcludesExit
<1> QED BY StartTyped, StartHolds, TypesKept, OwnedKept, HoldsKept, <1>1, CalmApartKept, <1>2, PTL DEF Spec
=============================================================================
