---------------------- MODULE SshdTransactionProofs ----------------------
(***************************************************************************)
(* Machine-checked proofs about SshdTransaction, for every number of owned *)
(* files, every set of contents and callers and all bounds.                *)
(***************************************************************************)
EXTENDS SshdTransaction, TLAPS

-----------------------------------------------------------------------------
(* The inductive invariant.                                                *)

\* Each place in an operation belongs to certain states of the journal.
ControlInv ==
    /\ job.at \in PreparePcs =>
          /\ txn.status \in Terminal \cup {"absent"}
          /\ job.after # job.before
    /\ job.at = "fence" => txn.status = "prepared"
    /\ job.at \in ApplyPcs => txn.status = "applying"
    /\ job.at = "confirm" => txn.status = "applied"
    /\ job.at = "undoStart" => txn.status \in Undecided
    /\ job.at \in UndoPcs \ {"undoStart"} => txn.status = "rolling_back"
    /\ job.at \in {"check", "write", "undoCheck", "undoWrite"} =>
          job.i \in Owned
    /\ edits <= MaxEdits

\* Boot recovery runs only while the listener is down.
StartInv ==
    job.mode = "boot" => sshd = "recovering" /\ job.at \in UndoPcs

\* What is on disk, at each place an operation can be in.
DiskInv ==
    edits = 0 =>
        /\ txn.status \in {"prepared", "rolled_back"} => disk = txn.before
        /\ txn.status \in {"applied", "committed"} => disk = txn.after
        /\ txn.status \in Undecided => Graph("mixed")
        /\ job.at \in PreparePcs => disk = job.before
        /\ job.at \in {"reload", "settle"} => disk = txn.after
        /\ job.at \in {"undoReload", "undoSave"} => disk = txn.before

\* When the daemon is known to have loaded what is on disk.
DaemonInv ==
    edits = 0 /\ Up =>
        /\ txn.status \in Terminal \cup {"absent", "applied"} => running = disk
        /\ job.at \in {"settle", "undoSave"} => running = disk

\* A start that boot recovery allowed is as good as a running listener.
BootInv ==
    sshd \in {"up", "ready"} /\ txn.status \in Undecided => txn.boot = boot

\* Before the record of a decided generation is replaced it is archived.
ArchiveInv ==
    job.at \in {"marker", "save"} /\ txn.status \in Terminal =>
        [gen |-> txn.gen, status |-> txn.status] \in archived

\* A write comes right after a check of the whole graph.
WindowInv ==
    job.at \in {"write", "undoWrite"} =>
        \A f \in Files : disk[f] \in {txn.before[f], txn.after[f]}
                         \/ f \in window

IInv == /\ TypeOK
        /\ ControlInv
        /\ StartInv
        /\ DiskInv
        /\ DaemonInv
        /\ BootInv
        /\ ArchiveInv
        /\ WindowInv

-----------------------------------------------------------------------------
(* The updates of the two records.                                         *)

Statuses == Terminal \cup Undecided \cup {"absent"}

\* What the moves of the lock holder make of its record.
LEMMA EnterUpdates ==
    ASSUME TypeOK, NEW pc \in Pcs
    PROVE  /\ Enter(pc) \in JobType
           /\ Enter(pc).at = pc
           /\ Enter(pc).i = job.i
           /\ Enter(pc).mode = job.mode
           /\ Enter(pc).before = job.before
           /\ Enter(pc).after = job.after
           /\ EnterAtBoot(pc) \in JobType
           /\ EnterAtBoot(pc).at = pc
           /\ EnterAtBoot(pc).mode = "boot"
  BY DEF TypeOK, JobType, Enter, EnterAtBoot

LEMMA GotoUpdates ==
    ASSUME TypeOK, NEW pc \in Pcs, NEW k \in 0 .. N
    PROVE  /\ Goto(pc, k) \in JobType
           /\ Goto(pc, k).at = pc
           /\ Goto(pc, k).i = k
           /\ Goto(pc, k).mode = job.mode
  BY DEF TypeOK, JobType, Goto

LEMMA ReleaseUpdates ==
    ASSUME TypeOK
    PROVE  /\ Release \in JobType
           /\ Release.at = "free"
           /\ Release.mode = "online"
  BY DEF TypeOK, JobType, Release, Pcs

\* A saved status leaves the rest of the journal as it is.
LEMMA TxnUpdates ==
    ASSUME TypeOK, NEW s \in Statuses
    PROVE  /\ WithStatus(s) \in TxnType
           /\ WithStatus(s).status = s
           /\ WithStatus(s).gen = txn.gen
           /\ WithStatus(s).before = txn.before
           /\ WithStatus(s).after = txn.after
           /\ WithStatus(s).boot = txn.boot
  BY DEF TypeOK, TxnType, Statuses, WithStatus

\* One write of the publication, and one of the undo, moves on in its loop.
LEMMA PublishMove ==
    ASSUME TypeOK, ControlInv, ApplyPublishWrite
    PROVE  /\ job' \in JobType
           /\ job'.at \in {"check", "verify"}
           /\ job'.mode = job.mode
           /\ job'.at = "check" => job'.i \in Owned
           /\ disk' \in Configs
<1> USE NAssumption DEF Owned
<1>1. job.i \in Owned /\ job \in JobType /\ disk \in Configs /\ txn \in TxnType
  BY DEF TypeOK, ControlInv, ApplyPublishWrite
<1>2. disk' \in Configs
  BY <1>1 DEF ApplyPublishWrite, Configs, Files, TxnType
<1>3. CASE job.i = N
  <2>1. job' = Enter("verify") /\ "verify" \in Pcs
    BY <1>3 DEF ApplyPublishWrite, Pcs, ApplyPcs
  <2> QED
    BY <1>2, <2>1, EnterUpdates
<1>4. CASE job.i # N
  <2>1. /\ job' = Goto("check", job.i + 1) /\ "check" \in Pcs
        /\ job.i + 1 \in 0 .. N /\ job.i + 1 \in Owned
    BY <1>1, <1>4 DEF ApplyPublishWrite, Pcs, ApplyPcs
  <2> QED
    BY <1>2, <2>1, GotoUpdates
<1> QED
  BY <1>3, <1>4

LEMMA UndoMove ==
    ASSUME TypeOK, ControlInv, UndoWrite
    PROVE  /\ job' \in JobType
           /\ job'.at \in {"undoCheck", "undoVerify"}
           /\ job'.mode = job.mode
           /\ job'.at = "undoCheck" => job'.i \in Owned
           /\ disk' \in Configs
<1> USE NAssumption DEF Owned
<1>1. job.i \in Owned /\ job \in JobType /\ disk \in Configs /\ txn \in TxnType
  BY DEF TypeOK, ControlInv, UndoWrite
<1>2. disk' \in Configs
  BY <1>1 DEF UndoWrite, Configs, Files, TxnType
<1>3. CASE job.i = 1
  <2>1. job' = Enter("undoVerify") /\ "undoVerify" \in Pcs
    BY <1>3 DEF UndoWrite, Pcs, UndoPcs
  <2> QED
    BY <1>2, <2>1, EnterUpdates
<1>4. CASE job.i # 1
  <2>1. /\ job' = Goto("undoCheck", job.i - 1) /\ "undoCheck" \in Pcs
        /\ job.i - 1 \in 0 .. N /\ job.i - 1 \in Owned
    BY <1>1, <1>4 DEF UndoWrite, Pcs, UndoPcs
  <2> QED
    BY <1>2, <2>1, GotoUpdates
<1> QED
  BY <1>3, <1>4

\* The pure phases determine every file.
LEMMA GraphPhases ==
    ASSUME TypeOK
    PROVE  /\ Graph("before") => disk = txn.before
           /\ Graph("after") => disk = txn.after
  BY DEF TypeOK, Graph, Configs, TxnType

\* A step that leaves the files and the plan alone leaves the graph mixed.
LEMMA GraphKept ==
    ASSUME disk' = disk, txn'.before = txn.before, txn'.after = txn.after,
           Graph("mixed")
    PROVE  Graph("mixed")'
  BY DEF Graph

-----------------------------------------------------------------------------
\* Types are preserved; the archive only ever takes decided records.
LEMMA TypeStep ==
    ASSUME TypeOK, ControlInv, [Next]_vars
    PROVE  TypeOK'
<1> USE NAssumption, BoundsAssumption DEF TypeOK, ControlInv, Files, Owned,
     Configs, TxnType, SshdStates, Clocks, Pcs, PreparePcs, ApplyPcs, UndoPcs,
     Terminal, Undecided, Statuses
<1>1. CASE PrepareBegin
  BY <1>1 DEF PrepareBegin, Step, environment, JobType
<1>2. CASE PrepareArchive
  BY <1>2, EnterUpdates DEF PrepareArchive
<1>3. CASE PrepareMarker
  BY <1>3, EnterUpdates DEF PrepareMarker, Step, environment
<1>4. CASE PrepareSave
  <2>1. txn' \in TxnType
    BY <1>4 DEF PrepareSave, JobType
  <2>2. job' \in JobType
    BY <1>4, ReleaseUpdates DEF PrepareSave
  <2> QED
    BY <1>4, <2>1, <2>2 DEF PrepareSave, Step, environment
<1>5. ASSUME NEW c \in Callers, ApplyCheck(c) PROVE TypeOK'
  BY <1>5 DEF ApplyCheck, environment
<1>6. ASSUME NEW c \in Callers, ApplyBegin(c) PROVE TypeOK'
  BY <1>6, EnterUpdates DEF ApplyBegin, environment
<1>7. ASSUME NEW c \in Callers, ApplyGiveUp(c) PROVE TypeOK'
  BY <1>7 DEF ApplyGiveUp, environment
<1>8. CASE ApplyArm
  BY <1>8, GotoUpdates, TxnUpdates DEF ApplyArm, Step, environment
<1>9. CASE ApplyPublishCheck
  BY <1>9, EnterUpdates DEF ApplyPublishCheck, Step, environment
<1>10. CASE ApplyPublishWrite
  BY <1>10, PublishMove DEF ApplyPublishWrite, Step, environment
<1>11. CASE ApplyVerify
  BY <1>11, EnterUpdates DEF ApplyVerify, Step, environment
<1>12. CASE ApplyReload
  BY <1>12, EnterUpdates DEF ApplyReload, Step, environment
<1>13. CASE ApplySettle
  BY <1>13, ReleaseUpdates, TxnUpdates DEF ApplySettle, Step, environment
<1>14. CASE ApplyRaises
  BY <1>14, EnterUpdates DEF ApplyRaises, Step, environment
<1>15. CASE ConfirmBegin
  BY <1>15, EnterUpdates DEF ConfirmBegin, Step, environment
<1>16. CASE ConfirmSave
  BY <1>16, ReleaseUpdates, TxnUpdates DEF ConfirmSave, Step, environment
<1>17. CASE RefuseUnderLock
  BY <1>17, ReleaseUpdates DEF RefuseUnderLock, Step, environment
<1>18. CASE Rollback
  BY <1>18, EnterUpdates DEF Rollback, BeginUndo, Step, environment
<1>19. CASE TimerRecover
  BY <1>19, EnterUpdates DEF TimerRecover, BeginUndo, NeedsRecovery, Step,
     environment
<1>20. CASE BootRecoverUndo
  BY <1>20, EnterUpdates DEF BootRecoverUndo, NeedsRecovery
<1>21. CASE BootRecoverNothing
  BY <1>21 DEF BootRecoverNothing, NeedsRecovery, Expired
<1>22. CASE BootRecoverRefused
  BY <1>22 DEF BootRecoverRefused
<1>23. CASE UndoStart
  BY <1>23, GotoUpdates, TxnUpdates DEF UndoStart, Step, environment
<1>24. CASE UndoCheck
  BY <1>24, EnterUpdates DEF UndoCheck, Step, environment
<1>25. CASE UndoWrite
  BY <1>25, UndoMove DEF UndoWrite, Step, environment
<1>26. CASE UndoVerify
  BY <1>26, EnterUpdates DEF UndoVerify, Step, environment
<1>27. CASE UndoReload
  BY <1>27, EnterUpdates DEF UndoReload, Step, environment
<1>28. CASE UndoSave
  BY <1>28, ReleaseUpdates, TxnUpdates DEF UndoSave
<1>29. CASE UndoRaises
  BY <1>29, ReleaseUpdates, TxnUpdates DEF UndoRaises, SaveRecoveryFailed,
     StartAfterFailure
<1>30. CASE Crash
  BY <1>30, ReleaseUpdates DEF Crash, Adverse, StartAfterFailure
<1>31. CASE Fault
  BY <1>31, EnterUpdates, ReleaseUpdates, TxnUpdates DEF Fault, Adverse,
     SaveRecoveryFailed, StartAfterFailure
<1>32. CASE Reboot
  BY <1>32, ReleaseUpdates DEF Reboot, Adverse
<1>33. CASE DaemonStop
  BY <1>33 DEF DaemonStop, Adverse
<1>34. CASE DaemonStart
  BY <1>34 DEF DaemonStart
<1>35. CASE RetryStart
  BY <1>35 DEF RetryStart
<1>36. CASE Elapse
  BY <1>36 DEF Elapse
<1>37. CASE StepClock
  BY <1>37 DEF StepClock
<1>38. CASE ForeignEdit
  BY <1>38 DEF ForeignEdit
<1>39. CASE UNCHANGED vars
  BY <1>39 DEF vars
<1> QED
  BY <1>1, <1>2, <1>3, <1>4, <1>5, <1>6, <1>7, <1>8, <1>9, <1>10, <1>11,
     <1>12, <1>13, <1>14, <1>15, <1>16, <1>17, <1>18, <1>19, <1>20, <1>21,
     <1>22, <1>23, <1>24, <1>25, <1>26, <1>27, <1>28, <1>29, <1>30, <1>31,
     <1>32, <1>33, <1>34, <1>35, <1>36, <1>37, <1>38, <1>39 DEF Next, Prepare,
     Apply, Confirm, BootRecover, Undo, Environment

-----------------------------------------------------------------------------
\* Each operation keeps the journal in the state its place calls for.
LEMMA ControlStep ==
    ASSUME TypeOK, ControlInv, [Next]_vars
    PROVE  ControlInv'
<1> USE NAssumption, BoundsAssumption DEF TypeOK, ControlInv, Owned, Free,
     Held, Pcs, PreparePcs, ApplyPcs, UndoPcs, Terminal, Undecided, Statuses
<1>1. CASE PrepareBegin
  BY <1>1 DEF PrepareBegin, Step, environment
<1>2. CASE PrepareArchive
  BY <1>2, EnterUpdates DEF PrepareArchive
<1>3. CASE PrepareMarker
  BY <1>3, EnterUpdates DEF PrepareMarker, Step, environment
<1>4. CASE PrepareSave
  BY <1>4, ReleaseUpdates DEF PrepareSave, Step, environment
<1>5. ASSUME NEW c \in Callers, ApplyCheck(c) PROVE ControlInv'
  BY <1>5 DEF ApplyCheck, environment
<1>6. ASSUME NEW c \in Callers, ApplyBegin(c) PROVE ControlInv'
  BY <1>6, EnterUpdates DEF ApplyBegin, environment
<1>7. ASSUME NEW c \in Callers, ApplyGiveUp(c) PROVE ControlInv'
  BY <1>7 DEF ApplyGiveUp, environment
<1>8. CASE ApplyArm
  BY <1>8, GotoUpdates, TxnUpdates DEF ApplyArm, Step, environment
<1>9. CASE ApplyPublishCheck
  BY <1>9, EnterUpdates DEF ApplyPublishCheck, Step, environment
<1>10. CASE ApplyPublishWrite
  BY <1>10, PublishMove DEF ApplyPublishWrite, Step, environment
<1>11. CASE ApplyVerify
  BY <1>11, EnterUpdates DEF ApplyVerify, Step, environment
<1>12. CASE ApplyReload
  BY <1>12, EnterUpdates DEF ApplyReload, Step, environment
<1>13. CASE ApplySettle
  BY <1>13, ReleaseUpdates, TxnUpdates DEF ApplySettle, Step, environment
<1>14. CASE ApplyRaises
  BY <1>14, EnterUpdates DEF ApplyRaises, Step, environment
<1>15. CASE ConfirmBegin
  BY <1>15, EnterUpdates DEF ConfirmBegin, Step, environment
<1>16. CASE ConfirmSave
  BY <1>16, ReleaseUpdates, TxnUpdates DEF ConfirmSave, Step, environment
<1>17. CASE RefuseUnderLock
  BY <1>17, ReleaseUpdates DEF RefuseUnderLock, Step, environment
<1>18. CASE Rollback
  BY <1>18, EnterUpdates DEF Rollback, BeginUndo, Step, environment
<1>19. CASE TimerRecover
  BY <1>19, EnterUpdates DEF TimerRecover, BeginUndo, NeedsRecovery, Step,
     environment
<1>20. CASE BootRecoverUndo
  BY <1>20, EnterUpdates DEF BootRecoverUndo, NeedsRecovery
<1>21. CASE BootRecoverNothing
  BY <1>21 DEF BootRecoverNothing, NeedsRecovery, Expired
<1>22. CASE BootRecoverRefused
  BY <1>22 DEF BootRecoverRefused
<1>23. CASE UndoStart
  BY <1>23, GotoUpdates, TxnUpdates DEF UndoStart, Step, environment
<1>24. CASE UndoCheck
  BY <1>24, EnterUpdates DEF UndoCheck, Step, environment
<1>25. CASE UndoWrite
  BY <1>25, UndoMove DEF UndoWrite, Step, environment
<1>26. CASE UndoVerify
  BY <1>26, EnterUpdates DEF UndoVerify, Step, environment
<1>27. CASE UndoReload
  BY <1>27, EnterUpdates DEF UndoReload, Step, environment
<1>28. CASE UndoSave
  BY <1>28, ReleaseUpdates, TxnUpdates DEF UndoSave
<1>29. CASE UndoRaises
  BY <1>29, ReleaseUpdates, TxnUpdates DEF UndoRaises, SaveRecoveryFailed,
     StartAfterFailure
<1>30. CASE Crash
  BY <1>30, ReleaseUpdates DEF Crash, Adverse, StartAfterFailure
<1>31. CASE Fault
  BY <1>31, EnterUpdates, ReleaseUpdates, TxnUpdates DEF Fault, Adverse,
     SaveRecoveryFailed, StartAfterFailure
<1>32. CASE Reboot
  BY <1>32, ReleaseUpdates DEF Reboot, Adverse
<1>33. CASE DaemonStop
  BY <1>33 DEF DaemonStop, Adverse
<1>34. CASE DaemonStart
  BY <1>34 DEF DaemonStart
<1>35. CASE RetryStart
  BY <1>35 DEF RetryStart
<1>36. CASE Elapse
  BY <1>36 DEF Elapse
<1>37. CASE StepClock
  BY <1>37 DEF StepClock
<1>38. CASE ForeignEdit
  BY <1>38 DEF ForeignEdit
<1>39. CASE UNCHANGED vars
  BY <1>39 DEF vars
<1> QED
  BY <1>1, <1>2, <1>3, <1>4, <1>5, <1>6, <1>7, <1>8, <1>9, <1>10, <1>11,
     <1>12, <1>13, <1>14, <1>15, <1>16, <1>17, <1>18, <1>19, <1>20, <1>21,
     <1>22, <1>23, <1>24, <1>25, <1>26, <1>27, <1>28, <1>29, <1>30, <1>31,
     <1>32, <1>33, <1>34, <1>35, <1>36, <1>37, <1>38, <1>39 DEF Next, Prepare,
     Apply, Confirm, BootRecover, Undo, Environment

-----------------------------------------------------------------------------
\* Boot recovery keeps the start of the listener to itself.
LEMMA StartStep ==
    ASSUME TypeOK, ControlInv, StartInv, [Next]_vars
    PROVE  StartInv'
<1> USE NAssumption, BoundsAssumption DEF TypeOK, ControlInv, StartInv, Owned,
     Up, SshdStates, Free, Held, Pcs, PreparePcs, ApplyPcs, UndoPcs, Terminal,
     Undecided, Statuses
<1>1. CASE PrepareBegin
  BY <1>1 DEF PrepareBegin, Step, environment
<1>2. CASE PrepareArchive
  BY <1>2, EnterUpdates DEF PrepareArchive
<1>3. CASE PrepareMarker
  BY <1>3, EnterUpdates DEF PrepareMarker, Step, environment
<1>4. CASE PrepareSave
  BY <1>4, ReleaseUpdates DEF PrepareSave, Step, environment
<1>5. ASSUME NEW c \in Callers, ApplyCheck(c) PROVE StartInv'
  BY <1>5 DEF ApplyCheck, environment
<1>6. ASSUME NEW c \in Callers, ApplyBegin(c) PROVE StartInv'
  BY <1>6, EnterUpdates DEF ApplyBegin, environment
<1>7. ASSUME NEW c \in Callers, ApplyGiveUp(c) PROVE StartInv'
  BY <1>7 DEF ApplyGiveUp, environment
<1>8. CASE ApplyArm
  BY <1>8, GotoUpdates, TxnUpdates DEF ApplyArm, Step, environment
<1>9. CASE ApplyPublishCheck
  BY <1>9, EnterUpdates DEF ApplyPublishCheck, Step, environment
<1>10. CASE ApplyPublishWrite
  BY <1>10, PublishMove DEF ApplyPublishWrite, Step, environment
<1>11. CASE ApplyVerify
  BY <1>11, EnterUpdates DEF ApplyVerify, Step, environment
<1>12. CASE ApplyReload
  BY <1>12, EnterUpdates DEF ApplyReload, Step, environment
<1>13. CASE ApplySettle
  BY <1>13, ReleaseUpdates, TxnUpdates DEF ApplySettle, Step, environment
<1>14. CASE ApplyRaises
  BY <1>14, EnterUpdates DEF ApplyRaises, Step, environment
<1>15. CASE ConfirmBegin
  BY <1>15, EnterUpdates DEF ConfirmBegin, Step, environment
<1>16. CASE ConfirmSave
  BY <1>16, ReleaseUpdates, TxnUpdates DEF ConfirmSave, Step, environment
<1>17. CASE RefuseUnderLock
  BY <1>17, ReleaseUpdates DEF RefuseUnderLock, Step, environment
<1>18. CASE Rollback
  BY <1>18, EnterUpdates DEF Rollback, BeginUndo, Step, environment
<1>19. CASE TimerRecover
  BY <1>19, EnterUpdates DEF TimerRecover, BeginUndo, NeedsRecovery, Step,
     environment
<1>20. CASE BootRecoverUndo
  BY <1>20, EnterUpdates DEF BootRecoverUndo, NeedsRecovery
<1>21. CASE BootRecoverNothing
  BY <1>21 DEF BootRecoverNothing, NeedsRecovery, Expired
<1>22. CASE BootRecoverRefused
  BY <1>22 DEF BootRecoverRefused
<1>23. CASE UndoStart
  BY <1>23, GotoUpdates, TxnUpdates DEF UndoStart, Step, environment
<1>24. CASE UndoCheck
  BY <1>24, EnterUpdates DEF UndoCheck, Step, environment
<1>25. CASE UndoWrite
  BY <1>25, UndoMove DEF UndoWrite, Step, environment
<1>26. CASE UndoVerify
  BY <1>26, EnterUpdates DEF UndoVerify, Step, environment
<1>27. CASE UndoReload
  BY <1>27, EnterUpdates DEF UndoReload, Step, environment
<1>28. CASE UndoSave
  BY <1>28, ReleaseUpdates, TxnUpdates DEF UndoSave
<1>29. CASE UndoRaises
  BY <1>29, ReleaseUpdates, TxnUpdates DEF UndoRaises, SaveRecoveryFailed,
     StartAfterFailure
<1>30. CASE Crash
  BY <1>30, ReleaseUpdates DEF Crash, Adverse, StartAfterFailure
<1>31. CASE Fault
  BY <1>31, EnterUpdates, ReleaseUpdates, TxnUpdates DEF Fault, Adverse,
     SaveRecoveryFailed, StartAfterFailure
<1>32. CASE Reboot
  BY <1>32, ReleaseUpdates DEF Reboot, Adverse
<1>33. CASE DaemonStop
  BY <1>33 DEF DaemonStop, Adverse
<1>34. CASE DaemonStart
  BY <1>34 DEF DaemonStart
<1>35. CASE RetryStart
  BY <1>35 DEF RetryStart
<1>36. CASE Elapse
  BY <1>36 DEF Elapse
<1>37. CASE StepClock
  BY <1>37 DEF StepClock
<1>38. CASE ForeignEdit
  BY <1>38 DEF ForeignEdit
<1>39. CASE UNCHANGED vars
  BY <1>39 DEF vars
<1> QED
  BY <1>1, <1>2, <1>3, <1>4, <1>5, <1>6, <1>7, <1>8, <1>9, <1>10, <1>11,
     <1>12, <1>13, <1>14, <1>15, <1>16, <1>17, <1>18, <1>19, <1>20, <1>21,
     <1>22, <1>23, <1>24, <1>25, <1>26, <1>27, <1>28, <1>29, <1>30, <1>31,
     <1>32, <1>33, <1>34, <1>35, <1>36, <1>37, <1>38, <1>39 DEF Next, Prepare,
     Apply, Confirm, BootRecover, Undo, Environment

-----------------------------------------------------------------------------
\* The files follow the journal.
LEMMA DiskStep ==
    ASSUME TypeOK, ControlInv, DiskInv, [Next]_vars
    PROVE  DiskInv'
<1> USE NAssumption, BoundsAssumption DEF TypeOK, ControlInv, DiskInv, Owned,
     Free, Held, Pcs, PreparePcs, ApplyPcs, UndoPcs, Terminal, Undecided,
     Statuses
<1>1. CASE PrepareBegin
  BY <1>1, GraphKept DEF PrepareBegin, Step, environment
<1>2. CASE PrepareArchive
  BY <1>2, EnterUpdates, GraphKept DEF PrepareArchive
<1>3. CASE PrepareMarker
  BY <1>3, EnterUpdates, GraphKept DEF PrepareMarker, Step, environment
<1>4. CASE PrepareSave
  <2>1. /\ txn'.status = "prepared" /\ txn'.before = job.before
        /\ disk' = disk /\ edits' = edits /\ job'.at = "free"
    BY <1>4, ReleaseUpdates DEF PrepareSave, Step, environment
  <2>2. ASSUME edits = 0 PROVE disk' = txn'.before
    BY <1>4, <2>1, <2>2 DEF PrepareSave
  <2>3. ASSUME edits = 0 PROVE Graph("mixed")'
    BY <2>2, <2>3 DEF Graph
  <2> QED
    BY <2>1, <2>2, <2>3
<1>5. ASSUME NEW c \in Callers, ApplyCheck(c) PROVE DiskInv'
  BY <1>5, GraphKept DEF ApplyCheck, environment
<1>6. ASSUME NEW c \in Callers, ApplyBegin(c) PROVE DiskInv'
  BY <1>6, EnterUpdates, GraphKept DEF ApplyBegin, environment
<1>7. ASSUME NEW c \in Callers, ApplyGiveUp(c) PROVE DiskInv'
  BY <1>7, GraphKept DEF ApplyGiveUp, environment
<1>8. CASE ApplyArm
  BY <1>8, GotoUpdates, TxnUpdates, GraphKept DEF ApplyArm, Step, environment
<1>9. CASE ApplyPublishCheck
  BY <1>9, EnterUpdates, GraphKept DEF ApplyPublishCheck, Step, environment
<1>10. CASE ApplyPublishWrite
  <2>1. /\ txn.status = "applying" /\ job.i \in Owned /\ txn' = txn
        /\ edits' = edits
    BY <1>10 DEF ApplyPublishWrite, Step, environment
  <2>2. ASSUME edits = 0 PROVE Graph("mixed")'
    BY <1>10, <2>1, <2>2 DEF ApplyPublishWrite, Graph, Files, Configs, TxnType
  <2> QED
    BY <1>10, PublishMove, <2>1, <2>2
<1>11. CASE ApplyVerify
  BY <1>11, EnterUpdates, GraphKept, GraphPhases DEF ApplyVerify, Step,
     environment
<1>12. CASE ApplyReload
  BY <1>12, EnterUpdates, GraphKept DEF ApplyReload, Step, environment
<1>13. CASE ApplySettle
  BY <1>13, ReleaseUpdates, TxnUpdates, GraphKept DEF ApplySettle, Step,
     environment
<1>14. CASE ApplyRaises
  BY <1>14, EnterUpdates, GraphKept DEF ApplyRaises, Step, environment
<1>15. CASE ConfirmBegin
  BY <1>15, EnterUpdates, GraphKept DEF ConfirmBegin, Step, environment
<1>16. CASE ConfirmSave
  BY <1>16, ReleaseUpdates, TxnUpdates, GraphKept DEF ConfirmSave, Step,
     environment
<1>17. CASE RefuseUnderLock
  BY <1>17, ReleaseUpdates, GraphKept DEF RefuseUnderLock, Step, environment
<1>18. CASE Rollback
  BY <1>18, EnterUpdates, GraphKept DEF Rollback, BeginUndo, Step, environment
<1>19. CASE TimerRecover
  BY <1>19, EnterUpdates, GraphKept DEF TimerRecover, BeginUndo,
     NeedsRecovery, Step, environment
<1>20. CASE BootRecoverUndo
  BY <1>20, EnterUpdates, GraphKept DEF BootRecoverUndo, NeedsRecovery
<1>21. CASE BootRecoverNothing
  BY <1>21, GraphKept DEF BootRecoverNothing, NeedsRecovery, Expired
<1>22. CASE BootRecoverRefused
  BY <1>22, GraphKept DEF BootRecoverRefused
<1>23. CASE UndoStart
  BY <1>23, GotoUpdates, TxnUpdates, GraphKept DEF UndoStart, Step,
     environment
<1>24. CASE UndoCheck
  BY <1>24, EnterUpdates, GraphKept DEF UndoCheck, Step, environment
<1>25. CASE UndoWrite
  <2>1. /\ txn.status = "rolling_back" /\ job.i \in Owned /\ txn' = txn
        /\ edits' = edits
    BY <1>25 DEF UndoWrite, Step, environment
  <2>2. ASSUME edits = 0 PROVE Graph("mixed")'
    BY <1>25, <2>1, <2>2 DEF UndoWrite, Graph, Files, Configs, TxnType
  <2> QED
    BY <1>25, UndoMove, <2>1, <2>2
<1>26. CASE UndoVerify
  BY <1>26, EnterUpdates, GraphKept, GraphPhases DEF UndoVerify, Step,
     environment
<1>27. CASE UndoReload
  BY <1>27, EnterUpdates, GraphKept DEF UndoReload, Step, environment
<1>28. CASE UndoSave
  BY <1>28, ReleaseUpdates, TxnUpdates, GraphKept DEF UndoSave
<1>29. CASE UndoRaises
  BY <1>29, ReleaseUpdates, TxnUpdates, GraphKept DEF UndoRaises,
     SaveRecoveryFailed, StartAfterFailure
<1>30. CASE Crash
  BY <1>30, ReleaseUpdates, GraphKept DEF Crash, Adverse, StartAfterFailure
<1>31. CASE Fault
  BY <1>31, EnterUpdates, ReleaseUpdates, TxnUpdates, GraphKept DEF Fault,
     Adverse, SaveRecoveryFailed, StartAfterFailure
<1>32. CASE Reboot
  BY <1>32, ReleaseUpdates, GraphKept DEF Reboot, Adverse
<1>33. CASE DaemonStop
  BY <1>33, GraphKept DEF DaemonStop, Adverse
<1>34. CASE DaemonStart
  BY <1>34, GraphKept DEF DaemonStart
<1>35. CASE RetryStart
  BY <1>35, GraphKept DEF RetryStart
<1>36. CASE Elapse
  BY <1>36, GraphKept DEF Elapse
<1>37. CASE StepClock
  BY <1>37, GraphKept DEF StepClock
<1>38. CASE ForeignEdit
  BY <1>38, GraphKept DEF ForeignEdit
<1>39. CASE UNCHANGED vars
  BY <1>39, GraphKept DEF vars
<1> QED
  BY <1>1, <1>2, <1>3, <1>4, <1>5, <1>6, <1>7, <1>8, <1>9, <1>10, <1>11,
     <1>12, <1>13, <1>14, <1>15, <1>16, <1>17, <1>18, <1>19, <1>20, <1>21,
     <1>22, <1>23, <1>24, <1>25, <1>26, <1>27, <1>28, <1>29, <1>30, <1>31,
     <1>32, <1>33, <1>34, <1>35, <1>36, <1>37, <1>38, <1>39 DEF Next, Prepare,
     Apply, Confirm, BootRecover, Undo, Environment

-----------------------------------------------------------------------------
\* The daemon follows the files.
LEMMA DaemonStep ==
    ASSUME TypeOK, ControlInv, StartInv, DaemonInv, [Next]_vars
    PROVE  DaemonInv'
<1> USE NAssumption, BoundsAssumption DEF TypeOK, ControlInv, StartInv,
     DaemonInv, Owned, Up, Free, Held, Pcs, PreparePcs, ApplyPcs, UndoPcs,
     Terminal, Undecided, Statuses
<1>1. CASE PrepareBegin
  BY <1>1 DEF PrepareBegin, Step, environment
<1>2. CASE PrepareArchive
  BY <1>2, EnterUpdates DEF PrepareArchive
<1>3. CASE PrepareMarker
  BY <1>3, EnterUpdates DEF PrepareMarker, Step, environment
<1>4. CASE PrepareSave
  BY <1>4, ReleaseUpdates DEF PrepareSave, Step, environment
<1>5. ASSUME NEW c \in Callers, ApplyCheck(c) PROVE DaemonInv'
  BY <1>5 DEF ApplyCheck, environment
<1>6. ASSUME NEW c \in Callers, ApplyBegin(c) PROVE DaemonInv'
  BY <1>6, EnterUpdates DEF ApplyBegin, environment
<1>7. ASSUME NEW c \in Callers, ApplyGiveUp(c) PROVE DaemonInv'
  BY <1>7 DEF ApplyGiveUp, environment
<1>8. CASE ApplyArm
  BY <1>8, GotoUpdates, TxnUpdates DEF ApplyArm, Step, environment
<1>9. CASE ApplyPublishCheck
  BY <1>9, EnterUpdates DEF ApplyPublishCheck, Step, environment
<1>10. CASE ApplyPublishWrite
  BY <1>10, PublishMove DEF ApplyPublishWrite, Step, environment
<1>11. CASE ApplyVerify
  BY <1>11, EnterUpdates DEF ApplyVerify, Step, environment
<1>12. CASE ApplyReload
  BY <1>12, EnterUpdates DEF ApplyReload, Step, environment
<1>13. CASE ApplySettle
  BY <1>13, ReleaseUpdates, TxnUpdates DEF ApplySettle, Step, environment
<1>14. CASE ApplyRaises
  BY <1>14, EnterUpdates DEF ApplyRaises, Step, environment
<1>15. CASE ConfirmBegin
  BY <1>15, EnterUpdates DEF ConfirmBegin, Step, environment
<1>16. CASE ConfirmSave
  BY <1>16, ReleaseUpdates, TxnUpdates DEF ConfirmSave, Step, environment
<1>17. CASE RefuseUnderLock
  BY <1>17, ReleaseUpdates DEF RefuseUnderLock, Step, environment
<1>18. CASE Rollback
  BY <1>18, EnterUpdates DEF Rollback, BeginUndo, Step, environment
<1>19. CASE TimerRecover
  BY <1>19, EnterUpdates DEF TimerRecover, BeginUndo, NeedsRecovery, Step,
     environment
<1>20. CASE BootRecoverUndo
  BY <1>20, EnterUpdates DEF BootRecoverUndo, NeedsRecovery
<1>21. CASE BootRecoverNothing
  BY <1>21 DEF BootRecoverNothing, NeedsRecovery, Expired
<1>22. CASE BootRecoverRefused
  BY <1>22 DEF BootRecoverRefused
<1>23. CASE UndoStart
  BY <1>23, GotoUpdates, TxnUpdates DEF UndoStart, Step, environment
<1>24. CASE UndoCheck
  BY <1>24, EnterUpdates DEF UndoCheck, Step, environment
<1>25. CASE UndoWrite
  BY <1>25, UndoMove DEF UndoWrite, Step, environment
<1>26. CASE UndoVerify
  BY <1>26, EnterUpdates DEF UndoVerify, Step, environment
<1>27. CASE UndoReload
  BY <1>27, EnterUpdates DEF UndoReload, Step, environment
<1>28. CASE UndoSave
  BY <1>28, ReleaseUpdates, TxnUpdates DEF UndoSave
<1>29. CASE UndoRaises
  BY <1>29, ReleaseUpdates, TxnUpdates DEF UndoRaises, SaveRecoveryFailed,
     StartAfterFailure
<1>30. CASE Crash
  BY <1>30, ReleaseUpdates DEF Crash, Adverse, StartAfterFailure
<1>31. CASE Fault
  BY <1>31, EnterUpdates, ReleaseUpdates, TxnUpdates DEF Fault, Adverse,
     SaveRecoveryFailed, StartAfterFailure
<1>32. CASE Reboot
  BY <1>32, ReleaseUpdates DEF Reboot, Adverse
<1>33. CASE DaemonStop
  BY <1>33 DEF DaemonStop, Adverse
<1>34. CASE DaemonStart
  BY <1>34 DEF DaemonStart
<1>35. CASE RetryStart
  BY <1>35 DEF RetryStart
<1>36. CASE Elapse
  BY <1>36 DEF Elapse
<1>37. CASE StepClock
  BY <1>37 DEF StepClock
<1>38. CASE ForeignEdit
  BY <1>38 DEF ForeignEdit
<1>39. CASE UNCHANGED vars
  BY <1>39 DEF vars
<1> QED
  BY <1>1, <1>2, <1>3, <1>4, <1>5, <1>6, <1>7, <1>8, <1>9, <1>10, <1>11,
     <1>12, <1>13, <1>14, <1>15, <1>16, <1>17, <1>18, <1>19, <1>20, <1>21,
     <1>22, <1>23, <1>24, <1>25, <1>26, <1>27, <1>28, <1>29, <1>30, <1>31,
     <1>32, <1>33, <1>34, <1>35, <1>36, <1>37, <1>38, <1>39 DEF Next, Prepare,
     Apply, Confirm, BootRecover, Undo, Environment

-----------------------------------------------------------------------------
\* A start is only allowed over a transaction of this boot.
LEMMA BootStep ==
    ASSUME TypeOK, ControlInv, BootInv, [Next]_vars
    PROVE  BootInv'
<1> USE NAssumption, BoundsAssumption DEF TypeOK, ControlInv, BootInv, Up,
     Free, Held, SshdStates, TxnType, Pcs, PreparePcs, ApplyPcs, UndoPcs,
     Terminal, Undecided, Statuses
<1>1. CASE PrepareBegin
  BY <1>1 DEF PrepareBegin, Step, environment
<1>2. CASE PrepareArchive
  BY <1>2, EnterUpdates DEF PrepareArchive
<1>3. CASE PrepareMarker
  BY <1>3, EnterUpdates DEF PrepareMarker, Step, environment
<1>4. CASE PrepareSave
  BY <1>4, ReleaseUpdates DEF PrepareSave, Step, environment
<1>5. ASSUME NEW c \in Callers, ApplyCheck(c) PROVE BootInv'
  BY <1>5 DEF ApplyCheck, environment
<1>6. ASSUME NEW c \in Callers, ApplyBegin(c) PROVE BootInv'
  BY <1>6, EnterUpdates DEF ApplyBegin, environment
<1>7. ASSUME NEW c \in Callers, ApplyGiveUp(c) PROVE BootInv'
  BY <1>7 DEF ApplyGiveUp, environment
<1>8. CASE ApplyArm
  BY <1>8, GotoUpdates, TxnUpdates DEF ApplyArm, Step, environment
<1>9. CASE ApplyPublishCheck
  BY <1>9, EnterUpdates DEF ApplyPublishCheck, Step, environment
<1>10. CASE ApplyPublishWrite
  BY <1>10, PublishMove DEF ApplyPublishWrite, Step, environment
<1>11. CASE ApplyVerify
  BY <1>11, EnterUpdates DEF ApplyVerify, Step, environment
<1>12. CASE ApplyReload
  BY <1>12, EnterUpdates DEF ApplyReload, Step, environment
<1>13. CASE ApplySettle
  BY <1>13, ReleaseUpdates, TxnUpdates DEF ApplySettle, Step, environment
<1>14. CASE ApplyRaises
  BY <1>14, EnterUpdates DEF ApplyRaises, Step, environment
<1>15. CASE ConfirmBegin
  BY <1>15, EnterUpdates DEF ConfirmBegin, Step, environment
<1>16. CASE ConfirmSave
  BY <1>16, ReleaseUpdates, TxnUpdates DEF ConfirmSave, Step, environment
<1>17. CASE RefuseUnderLock
  BY <1>17, ReleaseUpdates DEF RefuseUnderLock, Step, environment
<1>18. CASE Rollback
  BY <1>18, EnterUpdates DEF Rollback, BeginUndo, Step, environment
<1>19. CASE TimerRecover
  BY <1>19, EnterUpdates DEF TimerRecover, BeginUndo, NeedsRecovery, Step,
     environment
<1>20. CASE BootRecoverUndo
  BY <1>20, EnterUpdates DEF BootRecoverUndo, NeedsRecovery
<1>21. CASE BootRecoverNothing
  BY <1>21 DEF BootRecoverNothing, NeedsRecovery, Expired
<1>22. CASE BootRecoverRefused
  BY <1>22 DEF BootRecoverRefused
<1>23. CASE UndoStart
  BY <1>23, GotoUpdates, TxnUpdates DEF UndoStart, Step, environment
<1>24. CASE UndoCheck
  BY <1>24, EnterUpdates DEF UndoCheck, Step, environment
<1>25. CASE UndoWrite
  BY <1>25, UndoMove DEF UndoWrite, Step, environment
<1>26. CASE UndoVerify
  BY <1>26, EnterUpdates DEF UndoVerify, Step, environment
<1>27. CASE UndoReload
  BY <1>27, EnterUpdates DEF UndoReload, Step, environment
<1>28. CASE UndoSave
  BY <1>28, ReleaseUpdates, TxnUpdates DEF UndoSave
<1>29. CASE UndoRaises
  BY <1>29, ReleaseUpdates, TxnUpdates DEF UndoRaises, SaveRecoveryFailed,
     StartAfterFailure
<1>30. CASE Crash
  BY <1>30, ReleaseUpdates DEF Crash, Adverse, StartAfterFailure
<1>31. CASE Fault
  BY <1>31, EnterUpdates, ReleaseUpdates, TxnUpdates DEF Fault, Adverse,
     SaveRecoveryFailed, StartAfterFailure
<1>32. CASE Reboot
  BY <1>32, ReleaseUpdates DEF Reboot, Adverse
<1>33. CASE DaemonStop
  BY <1>33 DEF DaemonStop, Adverse
<1>34. CASE DaemonStart
  BY <1>34 DEF DaemonStart
<1>35. CASE RetryStart
  BY <1>35 DEF RetryStart
<1>36. CASE Elapse
  BY <1>36 DEF Elapse
<1>37. CASE StepClock
  BY <1>37 DEF StepClock
<1>38. CASE ForeignEdit
  BY <1>38 DEF ForeignEdit
<1>39. CASE UNCHANGED vars
  BY <1>39 DEF vars
<1> QED
  BY <1>1, <1>2, <1>3, <1>4, <1>5, <1>6, <1>7, <1>8, <1>9, <1>10, <1>11,
     <1>12, <1>13, <1>14, <1>15, <1>16, <1>17, <1>18, <1>19, <1>20, <1>21,
     <1>22, <1>23, <1>24, <1>25, <1>26, <1>27, <1>28, <1>29, <1>30, <1>31,
     <1>32, <1>33, <1>34, <1>35, <1>36, <1>37, <1>38, <1>39 DEF Next, Prepare,
     Apply, Confirm, BootRecover, Undo, Environment

-----------------------------------------------------------------------------
\* Prepare archives before it replaces.
LEMMA ArchiveStep ==
    ASSUME TypeOK, ControlInv, ArchiveInv, [Next]_vars
    PROVE  ArchiveInv'
<1> USE NAssumption, BoundsAssumption DEF TypeOK, ControlInv, ArchiveInv,
     TxnType, Pcs, PreparePcs, ApplyPcs, UndoPcs, Terminal, Undecided,
     Statuses
<1>1. CASE PrepareBegin
  BY <1>1 DEF PrepareBegin, Step, environment
<1>2. CASE PrepareArchive
  BY <1>2, EnterUpdates DEF PrepareArchive
<1>3. CASE PrepareMarker
  BY <1>3, EnterUpdates DEF PrepareMarker, Step, environment
<1>4. CASE PrepareSave
  BY <1>4, ReleaseUpdates DEF PrepareSave, Step, environment
<1>5. ASSUME NEW c \in Callers, ApplyCheck(c) PROVE ArchiveInv'
  BY <1>5 DEF ApplyCheck, environment
<1>6. ASSUME NEW c \in Callers, ApplyBegin(c) PROVE ArchiveInv'
  BY <1>6, EnterUpdates DEF ApplyBegin, environment
<1>7. ASSUME NEW c \in Callers, ApplyGiveUp(c) PROVE ArchiveInv'
  BY <1>7 DEF ApplyGiveUp, environment
<1>8. CASE ApplyArm
  BY <1>8, GotoUpdates, TxnUpdates DEF ApplyArm, Step, environment
<1>9. CASE ApplyPublishCheck
  BY <1>9, EnterUpdates DEF ApplyPublishCheck, Step, environment
<1>10. CASE ApplyPublishWrite
  BY <1>10, PublishMove DEF ApplyPublishWrite, Step, environment
<1>11. CASE ApplyVerify
  BY <1>11, EnterUpdates DEF ApplyVerify, Step, environment
<1>12. CASE ApplyReload
  BY <1>12, EnterUpdates DEF ApplyReload, Step, environment
<1>13. CASE ApplySettle
  BY <1>13, ReleaseUpdates, TxnUpdates DEF ApplySettle, Step, environment
<1>14. CASE ApplyRaises
  BY <1>14, EnterUpdates DEF ApplyRaises, Step, environment
<1>15. CASE ConfirmBegin
  BY <1>15, EnterUpdates DEF ConfirmBegin, Step, environment
<1>16. CASE ConfirmSave
  BY <1>16, ReleaseUpdates, TxnUpdates DEF ConfirmSave, Step, environment
<1>17. CASE RefuseUnderLock
  BY <1>17, ReleaseUpdates DEF RefuseUnderLock, Step, environment
<1>18. CASE Rollback
  BY <1>18, EnterUpdates DEF Rollback, BeginUndo, Step, environment
<1>19. CASE TimerRecover
  BY <1>19, EnterUpdates DEF TimerRecover, BeginUndo, NeedsRecovery, Step,
     environment
<1>20. CASE BootRecoverUndo
  BY <1>20, EnterUpdates DEF BootRecoverUndo, NeedsRecovery
<1>21. CASE BootRecoverNothing
  BY <1>21 DEF BootRecoverNothing, NeedsRecovery, Expired
<1>22. CASE BootRecoverRefused
  BY <1>22 DEF BootRecoverRefused
<1>23. CASE UndoStart
  BY <1>23, GotoUpdates, TxnUpdates DEF UndoStart, Step, environment
<1>24. CASE UndoCheck
  BY <1>24, EnterUpdates DEF UndoCheck, Step, environment
<1>25. CASE UndoWrite
  BY <1>25, UndoMove DEF UndoWrite, Step, environment
<1>26. CASE UndoVerify
  BY <1>26, EnterUpdates DEF UndoVerify, Step, environment
<1>27. CASE UndoReload
  BY <1>27, EnterUpdates DEF UndoReload, Step, environment
<1>28. CASE UndoSave
  BY <1>28, ReleaseUpdates, TxnUpdates DEF UndoSave
<1>29. CASE UndoRaises
  BY <1>29, ReleaseUpdates, TxnUpdates DEF UndoRaises, SaveRecoveryFailed,
     StartAfterFailure
<1>30. CASE Crash
  BY <1>30, ReleaseUpdates DEF Crash, Adverse, StartAfterFailure
<1>31. CASE Fault
  BY <1>31, EnterUpdates, ReleaseUpdates, TxnUpdates DEF Fault, Adverse,
     SaveRecoveryFailed, StartAfterFailure
<1>32. CASE Reboot
  BY <1>32, ReleaseUpdates DEF Reboot, Adverse
<1>33. CASE DaemonStop
  BY <1>33 DEF DaemonStop, Adverse
<1>34. CASE DaemonStart
  BY <1>34 DEF DaemonStart
<1>35. CASE RetryStart
  BY <1>35 DEF RetryStart
<1>36. CASE Elapse
  BY <1>36 DEF Elapse
<1>37. CASE StepClock
  BY <1>37 DEF StepClock
<1>38. CASE ForeignEdit
  BY <1>38 DEF ForeignEdit
<1>39. CASE UNCHANGED vars
  BY <1>39 DEF vars
<1> QED
  BY <1>1, <1>2, <1>3, <1>4, <1>5, <1>6, <1>7, <1>8, <1>9, <1>10, <1>11,
     <1>12, <1>13, <1>14, <1>15, <1>16, <1>17, <1>18, <1>19, <1>20, <1>21,
     <1>22, <1>23, <1>24, <1>25, <1>26, <1>27, <1>28, <1>29, <1>30, <1>31,
     <1>32, <1>33, <1>34, <1>35, <1>36, <1>37, <1>38, <1>39 DEF Next, Prepare,
     Apply, Confirm, BootRecover, Undo, Environment

-----------------------------------------------------------------------------
\* A write follows a check of the whole graph.
LEMMA WindowStep ==
    ASSUME TypeOK, ControlInv, WindowInv, [Next]_vars
    PROVE  WindowInv'
<1> USE NAssumption, BoundsAssumption DEF TypeOK, ControlInv, WindowInv,
     Graph, Files, Owned, Configs, TxnType, Pcs, PreparePcs, ApplyPcs,
     UndoPcs, Terminal, Undecided, Statuses
<1>1. CASE PrepareBegin
  BY <1>1 DEF PrepareBegin, Step, environment
<1>2. CASE PrepareArchive
  BY <1>2, EnterUpdates DEF PrepareArchive
<1>3. CASE PrepareMarker
  BY <1>3, EnterUpdates DEF PrepareMarker, Step, environment
<1>4. CASE PrepareSave
  BY <1>4, ReleaseUpdates DEF PrepareSave, Step, environment
<1>5. ASSUME NEW c \in Callers, ApplyCheck(c) PROVE WindowInv'
  BY <1>5 DEF ApplyCheck, environment
<1>6. ASSUME NEW c \in Callers, ApplyBegin(c) PROVE WindowInv'
  BY <1>6, EnterUpdates DEF ApplyBegin, environment
<1>7. ASSUME NEW c \in Callers, ApplyGiveUp(c) PROVE WindowInv'
  BY <1>7 DEF ApplyGiveUp, environment
<1>8. CASE ApplyArm
  BY <1>8, GotoUpdates, TxnUpdates DEF ApplyArm, Step, environment
<1>9. CASE ApplyPublishCheck
  BY <1>9, EnterUpdates DEF ApplyPublishCheck, Step, environment
<1>10. CASE ApplyPublishWrite
  BY <1>10, PublishMove DEF ApplyPublishWrite, Step, environment
<1>11. CASE ApplyVerify
  BY <1>11, EnterUpdates DEF ApplyVerify, Step, environment
<1>12. CASE ApplyReload
  BY <1>12, EnterUpdates DEF ApplyReload, Step, environment
<1>13. CASE ApplySettle
  BY <1>13, ReleaseUpdates, TxnUpdates DEF ApplySettle, Step, environment
<1>14. CASE ApplyRaises
  BY <1>14, EnterUpdates DEF ApplyRaises, Step, environment
<1>15. CASE ConfirmBegin
  BY <1>15, EnterUpdates DEF ConfirmBegin, Step, environment
<1>16. CASE ConfirmSave
  BY <1>16, ReleaseUpdates, TxnUpdates DEF ConfirmSave, Step, environment
<1>17. CASE RefuseUnderLock
  BY <1>17, ReleaseUpdates DEF RefuseUnderLock, Step, environment
<1>18. CASE Rollback
  BY <1>18, EnterUpdates DEF Rollback, BeginUndo, Step, environment
<1>19. CASE TimerRecover
  BY <1>19, EnterUpdates DEF TimerRecover, BeginUndo, NeedsRecovery, Step,
     environment
<1>20. CASE BootRecoverUndo
  BY <1>20, EnterUpdates DEF BootRecoverUndo, NeedsRecovery
<1>21. CASE BootRecoverNothing
  BY <1>21 DEF BootRecoverNothing, NeedsRecovery, Expired
<1>22. CASE BootRecoverRefused
  BY <1>22 DEF BootRecoverRefused
<1>23. CASE UndoStart
  BY <1>23, GotoUpdates, TxnUpdates DEF UndoStart, Step, environment
<1>24. CASE UndoCheck
  BY <1>24, EnterUpdates DEF UndoCheck, Step, environment
<1>25. CASE UndoWrite
  BY <1>25, UndoMove DEF UndoWrite, Step, environment
<1>26. CASE UndoVerify
  BY <1>26, EnterUpdates DEF UndoVerify, Step, environment
<1>27. CASE UndoReload
  BY <1>27, EnterUpdates DEF UndoReload, Step, environment
<1>28. CASE UndoSave
  BY <1>28, ReleaseUpdates, TxnUpdates DEF UndoSave
<1>29. CASE UndoRaises
  BY <1>29, ReleaseUpdates, TxnUpdates DEF UndoRaises, SaveRecoveryFailed,
     StartAfterFailure
<1>30. CASE Crash
  BY <1>30, ReleaseUpdates DEF Crash, Adverse, StartAfterFailure
<1>31. CASE Fault
  BY <1>31, EnterUpdates, ReleaseUpdates, TxnUpdates DEF Fault, Adverse,
     SaveRecoveryFailed, StartAfterFailure
<1>32. CASE Reboot
  BY <1>32, ReleaseUpdates DEF Reboot, Adverse
<1>33. CASE DaemonStop
  BY <1>33 DEF DaemonStop, Adverse
<1>34. CASE DaemonStart
  BY <1>34 DEF DaemonStart
<1>35. CASE RetryStart
  BY <1>35 DEF RetryStart
<1>36. CASE Elapse
  BY <1>36 DEF Elapse
<1>37. CASE StepClock
  BY <1>37 DEF StepClock
<1>38. CASE ForeignEdit
  BY <1>38 DEF ForeignEdit
<1>39. CASE UNCHANGED vars
  BY <1>39 DEF vars
<1> QED
  BY <1>1, <1>2, <1>3, <1>4, <1>5, <1>6, <1>7, <1>8, <1>9, <1>10, <1>11,
     <1>12, <1>13, <1>14, <1>15, <1>16, <1>17, <1>18, <1>19, <1>20, <1>21,
     <1>22, <1>23, <1>24, <1>25, <1>26, <1>27, <1>28, <1>29, <1>30, <1>31,
     <1>32, <1>33, <1>34, <1>35, <1>36, <1>37, <1>38, <1>39 DEF Next, Prepare,
     Apply, Confirm, BootRecover, Undo, Environment

-----------------------------------------------------------------------------
(* The invariant and what follows from it.                                 *)

\* The invariant holds initially, is preserved by every step, and so is
\* invariant.
LEMMA InitIInv == Init => IInv
  BY NAssumption, BoundsAssumption
     DEF Init, IInv, TypeOK, ControlInv, StartInv, DiskInv, DaemonInv, BootInv,
         ArchiveInv, WindowInv, TxnType, JobType, Configs, Files, SshdStates,
         Pcs, PreparePcs, ApplyPcs, UndoPcs, Terminal, Undecided

LEMMA IInvStep == IInv /\ [Next]_vars => IInv'
  BY TypeStep, ControlStep, StartStep, DiskStep, DaemonStep, BootStep,
     ArchiveStep, WindowStep DEF IInv

LEMMA Invariance == Spec => []IInv
  BY InitIInv, IInvStep, PTL DEF Spec

\* Every reachable state is well typed.
THEOREM Typed == Spec => []TypeOK
<1>1. IInv => TypeOK
  BY DEF IInv
<1> QED
  BY <1>1, Invariance, PTL

\* The journal tells what is on disk, whatever crashed in between
\* (_save before _publish in apply, _publish before _save in _rollback).
THEOREM JournalTellsDisk == Spec => []DiskMatchesRecord
<1>1. IInv => DiskMatchesRecord
  BY DEF IInv, DiskInv, DiskMatchesRecord
<1> QED
  BY <1>1, Invariance, PTL

\* A decided transaction is what the listening daemon serves.
THEOREM VerdictIsServed == Spec => []DaemonMatchesVerdict
<1>1. IInv => DaemonMatchesVerdict
  BY DEF IInv, DaemonInv, DaemonMatchesVerdict
<1> QED
  BY <1>1, Invariance, PTL

\* No listener over an undecided transaction of an earlier boot.
THEOREM NoListenerBeforeReconcile == Spec => []ListenerAfterReconcile
<1>1. IInv => ListenerAfterReconcile
  BY DEF IInv, BootInv, ListenerAfterReconcile, Up
<1> QED
  BY <1>1, Invariance, PTL

-----------------------------------------------------------------------------
(* Action properties.                                                      *)

\* One step of VerdictFinal.
FinalStep ==
    txn.status \in Terminal /\ txn' # txn =>
        /\ txn'.status = "prepared"
        /\ txn'.gen > txn.gen
        /\ [gen |-> txn.gen, status |-> txn.status] \in archived

\* Only prepare touches a decided record.
LEMMA FinalStepHolds ==
    ASSUME IInv, [Next]_vars
    PROVE  FinalStep \/ UNCHANGED vars
<1> USE NAssumption, BoundsAssumption DEF IInv, TypeOK, ControlInv,
     ArchiveInv, FinalStep, TxnType, Free, Held, Pcs, PreparePcs, ApplyPcs,
     UndoPcs, Terminal, Undecided, Statuses
<1>1. CASE PrepareBegin
  BY <1>1 DEF PrepareBegin, Step, environment
<1>2. CASE PrepareArchive
  BY <1>2, EnterUpdates DEF PrepareArchive
<1>3. CASE PrepareMarker
  BY <1>3, EnterUpdates DEF PrepareMarker, Step, environment
<1>4. CASE PrepareSave
  BY <1>4, ReleaseUpdates DEF PrepareSave, Step, environment
<1>5. ASSUME NEW c \in Callers, ApplyCheck(c) PROVE FinalStep \/ UNCHANGED vars
  BY <1>5 DEF ApplyCheck, environment
<1>6. ASSUME NEW c \in Callers, ApplyBegin(c) PROVE FinalStep \/ UNCHANGED vars
  BY <1>6, EnterUpdates DEF ApplyBegin, environment
<1>7. ASSUME NEW c \in Callers, ApplyGiveUp(c) PROVE FinalStep \/ UNCHANGED vars
  BY <1>7 DEF ApplyGiveUp, environment
<1>8. CASE ApplyArm
  BY <1>8, GotoUpdates, TxnUpdates DEF ApplyArm, Step, environment
<1>9. CASE ApplyPublishCheck
  BY <1>9, EnterUpdates DEF ApplyPublishCheck, Step, environment
<1>10. CASE ApplyPublishWrite
  BY <1>10, PublishMove DEF ApplyPublishWrite, Step, environment
<1>11. CASE ApplyVerify
  BY <1>11, EnterUpdates DEF ApplyVerify, Step, environment
<1>12. CASE ApplyReload
  BY <1>12, EnterUpdates DEF ApplyReload, Step, environment
<1>13. CASE ApplySettle
  BY <1>13, ReleaseUpdates, TxnUpdates DEF ApplySettle, Step, environment
<1>14. CASE ApplyRaises
  BY <1>14, EnterUpdates DEF ApplyRaises, Step, environment
<1>15. CASE ConfirmBegin
  BY <1>15, EnterUpdates DEF ConfirmBegin, Step, environment
<1>16. CASE ConfirmSave
  BY <1>16, ReleaseUpdates, TxnUpdates DEF ConfirmSave, Step, environment
<1>17. CASE RefuseUnderLock
  BY <1>17, ReleaseUpdates DEF RefuseUnderLock, Step, environment
<1>18. CASE Rollback
  BY <1>18, EnterUpdates DEF Rollback, BeginUndo, Step, environment
<1>19. CASE TimerRecover
  BY <1>19, EnterUpdates DEF TimerRecover, BeginUndo, NeedsRecovery, Step,
     environment
<1>20. CASE BootRecoverUndo
  BY <1>20, EnterUpdates DEF BootRecoverUndo, NeedsRecovery
<1>21. CASE BootRecoverNothing
  BY <1>21 DEF BootRecoverNothing, NeedsRecovery, Expired
<1>22. CASE BootRecoverRefused
  BY <1>22 DEF BootRecoverRefused
<1>23. CASE UndoStart
  BY <1>23, GotoUpdates, TxnUpdates DEF UndoStart, Step, environment
<1>24. CASE UndoCheck
  BY <1>24, EnterUpdates DEF UndoCheck, Step, environment
<1>25. CASE UndoWrite
  BY <1>25, UndoMove DEF UndoWrite, Step, environment
<1>26. CASE UndoVerify
  BY <1>26, EnterUpdates DEF UndoVerify, Step, environment
<1>27. CASE UndoReload
  BY <1>27, EnterUpdates DEF UndoReload, Step, environment
<1>28. CASE UndoSave
  BY <1>28, ReleaseUpdates, TxnUpdates DEF UndoSave
<1>29. CASE UndoRaises
  BY <1>29, ReleaseUpdates, TxnUpdates DEF UndoRaises, SaveRecoveryFailed,
     StartAfterFailure
<1>30. CASE Crash
  BY <1>30, ReleaseUpdates DEF Crash, Adverse, StartAfterFailure
<1>31. CASE Fault
  BY <1>31, EnterUpdates, ReleaseUpdates, TxnUpdates DEF Fault, Adverse,
     SaveRecoveryFailed, StartAfterFailure
<1>32. CASE Reboot
  BY <1>32, ReleaseUpdates DEF Reboot, Adverse
<1>33. CASE DaemonStop
  BY <1>33 DEF DaemonStop, Adverse
<1>34. CASE DaemonStart
  BY <1>34 DEF DaemonStart
<1>35. CASE RetryStart
  BY <1>35 DEF RetryStart
<1>36. CASE Elapse
  BY <1>36 DEF Elapse
<1>37. CASE StepClock
  BY <1>37 DEF StepClock
<1>38. CASE ForeignEdit
  BY <1>38 DEF ForeignEdit
<1>39. CASE UNCHANGED vars
  BY <1>39 DEF vars
<1> QED
  BY <1>1, <1>2, <1>3, <1>4, <1>5, <1>6, <1>7, <1>8, <1>9, <1>10, <1>11,
     <1>12, <1>13, <1>14, <1>15, <1>16, <1>17, <1>18, <1>19, <1>20, <1>21,
     <1>22, <1>23, <1>24, <1>25, <1>26, <1>27, <1>28, <1>29, <1>30, <1>31,
     <1>32, <1>33, <1>34, <1>35, <1>36, <1>37, <1>38, <1>39 DEF Next, Prepare,
     Apply, Confirm, BootRecover, Undo, Environment

\* A verdict is never changed, only superseded after it has been archived.
THEOREM VerdictStands == Spec => VerdictFinal
<1>1. IInv /\ [Next]_vars => [FinalStep]_vars
  BY FinalStepHolds
<1> QED
  BY <1>1, Invariance, PTL DEF Spec, VerdictFinal, FinalStep

-----------------------------------------------------------------------------
\* One step of DriftNotHidden.
DriftStep ==
    disk' # disk /\ edits' = edits =>
        \A f \in Files : disk[f] \in {txn.before[f], txn.after[f]}
                         \/ f \in window

\* Only a write that follows a check changes a file.
LEMMA DriftStepHolds ==
    ASSUME IInv, [Next]_vars
    PROVE  DriftStep \/ UNCHANGED vars
<1> USE NAssumption, BoundsAssumption DEF IInv, TypeOK, ControlInv, WindowInv,
     DriftStep, Pcs, PreparePcs, ApplyPcs, UndoPcs, Terminal, Undecided,
     Statuses
<1>1. CASE PrepareBegin
  BY <1>1 DEF PrepareBegin, Step, environment
<1>2. CASE PrepareArchive
  BY <1>2, EnterUpdates DEF PrepareArchive
<1>3. CASE PrepareMarker
  BY <1>3, EnterUpdates DEF PrepareMarker, Step, environment
<1>4. CASE PrepareSave
  BY <1>4, ReleaseUpdates DEF PrepareSave, Step, environment
<1>5. ASSUME NEW c \in Callers, ApplyCheck(c) PROVE DriftStep \/ UNCHANGED vars
  BY <1>5 DEF ApplyCheck, environment
<1>6. ASSUME NEW c \in Callers, ApplyBegin(c) PROVE DriftStep \/ UNCHANGED vars
  BY <1>6, EnterUpdates DEF ApplyBegin, environment
<1>7. ASSUME NEW c \in Callers, ApplyGiveUp(c) PROVE DriftStep \/ UNCHANGED vars
  BY <1>7 DEF ApplyGiveUp, environment
<1>8. CASE ApplyArm
  BY <1>8, GotoUpdates, TxnUpdates DEF ApplyArm, Step, environment
<1>9. CASE ApplyPublishCheck
  BY <1>9, EnterUpdates DEF ApplyPublishCheck, Step, environment
<1>10. CASE ApplyPublishWrite
  BY <1>10, PublishMove DEF ApplyPublishWrite, Step, environment
<1>11. CASE ApplyVerify
  BY <1>11, EnterUpdates DEF ApplyVerify, Step, environment
<1>12. CASE ApplyReload
  BY <1>12, EnterUpdates DEF ApplyReload, Step, environment
<1>13. CASE ApplySettle
  BY <1>13, ReleaseUpdates, TxnUpdates DEF ApplySettle, Step, environment
<1>14. CASE ApplyRaises
  BY <1>14, EnterUpdates DEF ApplyRaises, Step, environment
<1>15. CASE ConfirmBegin
  BY <1>15, EnterUpdates DEF ConfirmBegin, Step, environment
<1>16. CASE ConfirmSave
  BY <1>16, ReleaseUpdates, TxnUpdates DEF ConfirmSave, Step, environment
<1>17. CASE RefuseUnderLock
  BY <1>17, ReleaseUpdates DEF RefuseUnderLock, Step, environment
<1>18. CASE Rollback
  BY <1>18, EnterUpdates DEF Rollback, BeginUndo, Step, environment
<1>19. CASE TimerRecover
  BY <1>19, EnterUpdates DEF TimerRecover, BeginUndo, NeedsRecovery, Step,
     environment
<1>20. CASE BootRecoverUndo
  BY <1>20, EnterUpdates DEF BootRecoverUndo, NeedsRecovery
<1>21. CASE BootRecoverNothing
  BY <1>21 DEF BootRecoverNothing, NeedsRecovery, Expired
<1>22. CASE BootRecoverRefused
  BY <1>22 DEF BootRecoverRefused
<1>23. CASE UndoStart
  BY <1>23, GotoUpdates, TxnUpdates DEF UndoStart, Step, environment
<1>24. CASE UndoCheck
  BY <1>24, EnterUpdates DEF UndoCheck, Step, environment
<1>25. CASE UndoWrite
  BY <1>25, UndoMove DEF UndoWrite, Step, environment
<1>26. CASE UndoVerify
  BY <1>26, EnterUpdates DEF UndoVerify, Step, environment
<1>27. CASE UndoReload
  BY <1>27, EnterUpdates DEF UndoReload, Step, environment
<1>28. CASE UndoSave
  BY <1>28, ReleaseUpdates, TxnUpdates DEF UndoSave
<1>29. CASE UndoRaises
  BY <1>29, ReleaseUpdates, TxnUpdates DEF UndoRaises, SaveRecoveryFailed,
     StartAfterFailure
<1>30. CASE Crash
  BY <1>30, ReleaseUpdates DEF Crash, Adverse, StartAfterFailure
<1>31. CASE Fault
  BY <1>31, EnterUpdates, ReleaseUpdates, TxnUpdates DEF Fault, Adverse,
     SaveRecoveryFailed, StartAfterFailure
<1>32. CASE Reboot
  BY <1>32, ReleaseUpdates DEF Reboot, Adverse
<1>33. CASE DaemonStop
  BY <1>33 DEF DaemonStop, Adverse
<1>34. CASE DaemonStart
  BY <1>34 DEF DaemonStart
<1>35. CASE RetryStart
  BY <1>35 DEF RetryStart
<1>36. CASE Elapse
  BY <1>36 DEF Elapse
<1>37. CASE StepClock
  BY <1>37 DEF StepClock
<1>38. CASE ForeignEdit
  BY <1>38 DEF ForeignEdit
<1>39. CASE UNCHANGED vars
  BY <1>39 DEF vars
<1> QED
  BY <1>1, <1>2, <1>3, <1>4, <1>5, <1>6, <1>7, <1>8, <1>9, <1>10, <1>11,
     <1>12, <1>13, <1>14, <1>15, <1>16, <1>17, <1>18, <1>19, <1>20, <1>21,
     <1>22, <1>23, <1>24, <1>25, <1>26, <1>27, <1>28, <1>29, <1>30, <1>31,
     <1>32, <1>33, <1>34, <1>35, <1>36, <1>37, <1>38, <1>39 DEF Next, Prepare,
     Apply, Confirm, BootRecover, Undo, Environment

\* No write of the transaction hides a drift that its checks could have seen.
THEOREM DriftStaysVisible == Spec => DriftNotHidden
<1>1. IInv /\ [Next]_vars => [DriftStep]_vars
  BY DriftStepHolds
<1> QED
  BY <1>1, Invariance, PTL DEF Spec, DriftNotHidden, DriftStep

-----------------------------------------------------------------------------
\* One step of AppliesWhatWasChecked.
CheckedStep ==
    Free /\ job'.at = "fence" =>
        /\ txn.status = "prepared" /\ txn.boot = boot
        /\ \E c \in Callers : awaiting[c] = txn.gen /\ awaiting'[c] = 0

\* Of the steps that may take the free lock, only the second lock period of
\* apply ends at the fence.
LEMMA CheckedStepHolds ==
    ASSUME IInv, [Next]_vars, Free, job'.at = "fence"
    PROVE  \E c \in Callers : ApplyBegin(c)
<1> USE DEF Free
<1>1. TypeOK /\ {"archive", "confirm", "undoStart"} \subseteq Pcs
  BY DEF IInv, Pcs, PreparePcs, UndoPcs
<1>2. ~ HolderStep
  BY DEF HolderStep, PrepareArchive, PrepareMarker, PrepareSave, ApplyArm,
     ApplyPublishCheck, ApplyPublishWrite, ApplyVerify, ApplyReload,
     ApplySettle, ApplyRaises, ApplyPcs, ConfirmSave, RefuseUnderLock, Undo,
     UndoStart, UndoCheck, UndoWrite, UndoVerify, UndoReload, UndoSave,
     UndoRaises, UndoPcs
<1>3. ~ (PrepareBegin \/ ConfirmBegin \/ Rollback \/ TimerRecover)
  BY <1>1, EnterUpdates DEF PrepareBegin, ConfirmBegin, Rollback,
     TimerRecover, BeginUndo
<1>4. ~ BootRecover
  BY <1>1, EnterUpdates DEF BootRecover, BootRecoverUndo, BootRecoverNothing,
     BootRecoverRefused
<1>5. ~ (Crash \/ Fault \/ Reboot)
  BY <1>1, ReleaseUpdates DEF Crash, Fault, Reboot, Held, ApplyPcs, UndoPcs
<1>6. ~ (\/ DaemonStop \/ DaemonStart \/ RetryStart \/ Elapse \/ StepClock
         \/ ForeignEdit \/ UNCHANGED vars)
  BY DEF DaemonStop, DaemonStart, RetryStart, Elapse, StepClock, ForeignEdit,
     vars
<1>7. ~ \E c \in Callers : ApplyCheck(c) \/ ApplyGiveUp(c)
  BY DEF ApplyCheck, ApplyGiveUp, environment
<1> QED
  BY <1>2, <1>3, <1>4, <1>5, <1>6, <1>7 DEF Next, Prepare, Apply, Confirm,
     HolderStep, Environment

\* The second lock period of apply goes on only with the record of its first.
THEOREM CheckedIsApplied == Spec => AppliesWhatWasChecked
<1>1. IInv /\ [Next]_vars => [CheckedStep]_vars
  <2> SUFFICES ASSUME IInv, [Next]_vars, Free, job'.at = "fence"
               PROVE  CheckedStep
    BY DEF CheckedStep
  <2>1. PICK c \in Callers : ApplyBegin(c)
    BY CheckedStepHolds
  <2> QED
    BY <2>1 DEF ApplyBegin, Expired, CheckedStep, IInv, TypeOK
<1> QED
  BY <1>1, Invariance, PTL DEF Spec, AppliesWhatWasChecked, CheckedStep

-----------------------------------------------------------------------------
(* Implementation of the promise.                                          *)

\* The files on disk are always a blend of what is accepted and on trial.
LEMMA DiskIsBlend ==
    ASSUME IInv, edits = 0
    PROVE  disk \in Guard!Blend
<1> USE DEF IInv, TypeOK, DiskInv, Guard!Blend, Guard!Config, AcceptedConfig,
        TrialConfig
<1>1. disk \in [Files -> Content]
  BY DEF Configs
<1>2. CASE txn.status \in Undecided
  <2>1. AcceptedConfig = txn.before /\ TrialConfig = {txn.after}
    BY <1>2 DEF Undecided
  <2>2. \A f \in Files : disk[f] = txn.before[f] \/ disk[f] = txn.after[f]
    BY <1>2 DEF Graph
  <2> QED
    BY <1>1, <2>1, <2>2
<1>3. CASE txn.status \notin Undecided
  <2>1. AcceptedConfig = disk
    BY <1>3 DEF TxnType, Terminal
  <2> QED
    BY <1>1, <2>1
<1> QED
  BY <1>2, <1>3

\* The steps at which an observer of SshdGuard sees something.
LEMMA PrepareTries ==
    ASSUME IInv, edits = 0, PrepareSave
    PROVE  Guard!Try
<1> USE DEF PrepareSave, IInv, TypeOK, ControlInv, DiskInv
<1>1. /\ job.before = disk /\ job.after # disk
      /\ txn.status \in Terminal \cup {"absent"}
      /\ job.after \in Configs
  BY DEF PreparePcs, JobType
<1>2. AcceptedConfig = disk /\ AcceptedConfig' = disk
  BY <1>1 DEF AcceptedConfig, Terminal
<1>3. TrialConfig = {} /\ TrialConfig' = {job.after}
  BY <1>1 DEF TrialConfig, Terminal, Undecided
<1>4. ServingConfig' = ServingConfig
  BY DEF ServingConfig, Up, Step, environment
<1> QED
  BY <1>1, <1>2, <1>3, <1>4 DEF Guard!Try, Guard!Config, Configs

LEMMA ConfirmAccepts ==
    ASSUME IInv, edits = 0, ConfirmSave
    PROVE  Guard!Accept
<1> USE DEF ConfirmSave, IInv, TypeOK, ControlInv, DiskInv, DaemonInv
<1>1. /\ txn.status = "applied" /\ disk = txn.after
      /\ txn'.status = "committed" /\ txn'.after = txn.after
  BY TxnUpdates DEF Statuses, Terminal
<1>2. AcceptedConfig' = txn.after
  BY <1>1 DEF AcceptedConfig
<1>3. TrialConfig = {txn.after} /\ TrialConfig' = {}
  BY <1>1 DEF TrialConfig, Undecided
<1>4. ServingConfig \subseteq {txn.after} /\ ServingConfig' = ServingConfig
  BY <1>1 DEF ServingConfig, Up, Step, environment
<1> QED
  BY <1>2, <1>3, <1>4 DEF Guard!Accept

LEMMA UndoDrops ==
    ASSUME IInv, edits = 0, UndoSave
    PROVE  Guard!Drop
<1> USE DEF UndoSave, IInv, TypeOK, ControlInv, StartInv, DiskInv, DaemonInv
<1>1. /\ txn.status = "rolling_back" /\ disk = txn.before
      /\ txn'.status = "rolled_back" /\ txn'.before = txn.before
  BY TxnUpdates DEF Statuses, Terminal, UndoPcs
<1>2. AcceptedConfig = txn.before /\ AcceptedConfig' = txn.before
  BY <1>1 DEF AcceptedConfig
<1>3. TrialConfig = {txn.after} /\ TrialConfig' = {}
  BY <1>1 DEF TrialConfig, Undecided
<1>4. ServingConfig \subseteq {txn.before} /\ ServingConfig' = ServingConfig
  BY <1>1 DEF ServingConfig, Up
<1> QED
  BY <1>2, <1>3, <1>4 DEF Guard!Drop

LEMMA ReloadLoads ==
    ASSUME IInv, edits = 0,
           ApplyReload \/ UndoReload \/ DaemonStart \/ Reboot \/ DaemonStop
    PROVE  Guard!Load
<1>1. AcceptedConfig' = AcceptedConfig /\ TrialConfig' = TrialConfig
  BY DEF AcceptedConfig, TrialConfig, ApplyReload, UndoReload, DaemonStart,
         Reboot, DaemonStop
<1>2. ServingConfig' = {disk} \/ ServingConfig' = {}
  BY DEF ServingConfig, Up, ApplyReload, UndoReload, DaemonStart, Reboot,
         DaemonStop, Step, environment
<1> QED
  BY <1>1, <1>2, DiskIsBlend DEF Guard!Load

\* A status saved while undecided, and left undecided, shows nothing.
LEMMA UndecidedKept ==
    ASSUME TypeOK, txn.status \in Undecided, NEW s \in Undecided,
           txn' = WithStatus(s)
    PROVE  AcceptedConfig' = AcceptedConfig /\ TrialConfig' = TrialConfig
  BY TxnUpdates DEF AcceptedConfig, TrialConfig, Undecided, Statuses

\* Every other step is invisible in SshdGuard.
LEMMA StepKeepsPromise ==
    ASSUME IInv, edits = 0, edits' = 0, [Next]_vars
    PROVE  Guard!Change \/ UNCHANGED Guard!guard
<1> USE NAssumption, BoundsAssumption DEF IInv, TypeOK, ControlInv, StartInv,
     DiskInv, Guard!guard, AcceptedConfig, TrialConfig, ServingConfig, Up,
     TxnType, Free, Held, Pcs, PreparePcs, ApplyPcs, UndoPcs, Terminal,
     Undecided, Statuses
<1>1. CASE PrepareBegin
  BY <1>1 DEF PrepareBegin, Step, environment
<1>2. CASE PrepareArchive
  BY <1>2, EnterUpdates DEF PrepareArchive
<1>3. CASE PrepareMarker
  BY <1>3, EnterUpdates DEF PrepareMarker, Step, environment
<1>4. CASE PrepareSave
  BY <1>4, PrepareTries DEF Guard!Change
<1>5. ASSUME NEW c \in Callers, ApplyCheck(c) PROVE Guard!Change \/ UNCHANGED Guard!guard
  BY <1>5 DEF ApplyCheck, environment
<1>6. ASSUME NEW c \in Callers, ApplyBegin(c) PROVE Guard!Change \/ UNCHANGED Guard!guard
  BY <1>6, EnterUpdates DEF ApplyBegin, environment
<1>7. ASSUME NEW c \in Callers, ApplyGiveUp(c) PROVE Guard!Change \/ UNCHANGED Guard!guard
  BY <1>7 DEF ApplyGiveUp, environment
<1>8. CASE ApplyArm
  BY <1>8, GotoUpdates, TxnUpdates DEF ApplyArm, Step, environment
<1>9. CASE ApplyPublishCheck
  BY <1>9, EnterUpdates DEF ApplyPublishCheck, Step, environment
<1>10. CASE ApplyPublishWrite
  BY <1>10, PublishMove DEF ApplyPublishWrite, Step, environment
<1>11. CASE ApplyVerify
  BY <1>11, EnterUpdates DEF ApplyVerify, Step, environment
<1>12. CASE ApplyReload
  BY <1>12, ReloadLoads DEF Guard!Change
<1>13. CASE ApplySettle
  BY <1>13, ReleaseUpdates, TxnUpdates DEF ApplySettle, Step, environment
<1>14. CASE ApplyRaises
  BY <1>14, EnterUpdates DEF ApplyRaises, Step, environment
<1>15. CASE ConfirmBegin
  BY <1>15, EnterUpdates DEF ConfirmBegin, Step, environment
<1>16. CASE ConfirmSave
  BY <1>16, ConfirmAccepts DEF Guard!Change
<1>17. CASE RefuseUnderLock
  BY <1>17, ReleaseUpdates DEF RefuseUnderLock, Step, environment
<1>18. CASE Rollback
  BY <1>18, EnterUpdates DEF Rollback, BeginUndo, Step, environment
<1>19. CASE TimerRecover
  BY <1>19, EnterUpdates DEF TimerRecover, BeginUndo, NeedsRecovery, Step,
     environment
<1>20. CASE BootRecoverUndo
  BY <1>20, EnterUpdates DEF BootRecoverUndo, NeedsRecovery
<1>21. CASE BootRecoverNothing
  BY <1>21 DEF BootRecoverNothing, NeedsRecovery, Expired
<1>22. CASE BootRecoverRefused
  BY <1>22 DEF BootRecoverRefused
<1>23. CASE UndoStart
  <2>1. AcceptedConfig' = AcceptedConfig /\ TrialConfig' = TrialConfig
    <3>1. /\ txn.status \in Undecided /\ "rolling_back" \in Undecided
          /\ txn' = WithStatus("rolling_back")
      BY <1>23 DEF UndoStart
    <3> HIDE DEF AcceptedConfig, TrialConfig
    <3> QED
      BY <3>1, UndecidedKept
  <2>2. ServingConfig' = ServingConfig
    BY <1>23 DEF UndoStart, Step, environment
  <2> QED
    BY <2>1, <2>2
<1>24. CASE UndoCheck
  BY <1>24, EnterUpdates DEF UndoCheck, Step, environment
<1>25. CASE UndoWrite
  BY <1>25, UndoMove DEF UndoWrite, Step, environment
<1>26. CASE UndoVerify
  BY <1>26, EnterUpdates DEF UndoVerify, Step, environment
<1>27. CASE UndoReload
  BY <1>27, ReloadLoads DEF Guard!Change
<1>28. CASE UndoSave
  BY <1>28, UndoDrops DEF Guard!Change
<1>29. CASE UndoRaises
  <2>1. AcceptedConfig' = AcceptedConfig /\ TrialConfig' = TrialConfig
    <3>1. /\ txn.status \in Undecided /\ "recovery_failed" \in Undecided
          /\ txn' = WithStatus("recovery_failed")
      BY <1>29 DEF UndoRaises, SaveRecoveryFailed
    <3> HIDE DEF AcceptedConfig, TrialConfig
    <3> QED
      BY <3>1, UndecidedKept
  <2>2. ServingConfig' = ServingConfig
    BY <1>29 DEF UndoRaises, StartAfterFailure
  <2> QED
    BY <2>1, <2>2
<1>30. CASE Crash
  BY <1>30, ReleaseUpdates DEF Crash, Adverse, StartAfterFailure
<1>31. CASE Fault
  <2>1. AcceptedConfig' = AcceptedConfig /\ TrialConfig' = TrialConfig
    <3>1. CASE job.at \in UndoPcs /\ SaveRecoveryFailed
      <4>1. /\ txn.status \in Undecided /\ "recovery_failed" \in Undecided
            /\ txn' = WithStatus("recovery_failed")
        BY <1>31, <3>1 DEF SaveRecoveryFailed
      <4> HIDE DEF AcceptedConfig, TrialConfig
      <4> QED
        BY <4>1, UndecidedKept
    <3>2. CASE UNCHANGED txn
      BY <1>31, <3>2 DEF Fault
    <3> QED
      BY <1>31, <3>1, <3>2 DEF Fault
  <2>2. ServingConfig' = ServingConfig
    BY <1>31 DEF Fault, StartAfterFailure
  <2> QED
    BY <2>1, <2>2
<1>32. CASE Reboot
  BY <1>32, ReloadLoads DEF Guard!Change
<1>33. CASE DaemonStop
  BY <1>33, ReloadLoads DEF Guard!Change
<1>34. CASE DaemonStart
  BY <1>34, ReloadLoads DEF Guard!Change
<1>35. CASE RetryStart
  BY <1>35 DEF RetryStart
<1>36. CASE Elapse
  BY <1>36 DEF Elapse
<1>37. CASE StepClock
  BY <1>37 DEF StepClock
<1>38. CASE ForeignEdit
  BY <1>38 DEF ForeignEdit
<1>39. CASE UNCHANGED vars
  BY <1>39 DEF vars
<1> QED
  BY <1>1, <1>2, <1>3, <1>4, <1>5, <1>6, <1>7, <1>8, <1>9, <1>10, <1>11,
     <1>12, <1>13, <1>14, <1>15, <1>16, <1>17, <1>18, <1>19, <1>20, <1>21,
     <1>22, <1>23, <1>24, <1>25, <1>26, <1>27, <1>28, <1>29, <1>30, <1>31,
     <1>32, <1>33, <1>34, <1>35, <1>36, <1>37, <1>38, <1>39 DEF Next, Prepare,
     Apply, Confirm, BootRecover, Undo, Environment

\* With /etc/ssh left to the transaction, every behaviour of the journal, the
\* publication and the recovery units is one of trials accepted or dropped as
\* a whole.
THEOREM Implementation == ASSUME MaxEdits = 0 PROVE Spec => KeepsPromise
<1>1. Init => Guard!Start
  BY DEF Init, Guard!Start, Guard!Config, AcceptedConfig, TrialConfig,
         ServingConfig, Up, Undecided, Configs
<1>2. IInv => edits = 0
  BY DEF IInv, TypeOK, ControlInv
<1>3. IInv /\ IInv' /\ [Next]_vars => [Guard!Change]_(Guard!guard)
  <2>1. IInv' => edits' = 0
    BY DEF IInv, TypeOK, ControlInv
  <2> QED
    BY <1>2, <2>1, StepKeepsPromise
<1> QED
  BY <1>1, <1>3, Invariance, PTL DEF Spec, KeepsPromise, Guard!Promise
=============================================================================
