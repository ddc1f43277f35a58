-------------------------- MODULE SshdTransaction --------------------------
(***************************************************************************)
(* The durable SSH configuration transaction of one node                   *)
(* (ansible/roles/baseline/files/sshd_transaction.py) together with the    *)
(* systemd units that drive its recovery and the sshd daemon it protects.  *)
(*                                                                         *)
(* A candidate sshd configuration is journalled, published file by file,   *)
(* loaded by a reload of the daemon and then either confirmed or undone.   *)
(* Until it is confirmed, a timer, a boot-time service and the operator    *)
(* may all undo it.  Every operation runs under transaction.lock, which is *)
(* taken without waiting: a caller that finds it held gets 'busy' and      *)
(* changes nothing, so at most one operation is in progress and `job` is   *)
(* that operation.  Only apply lets the lock go half way; its callers in   *)
(* between are in `awaiting`.                                              *)
(*                                                                         *)
(* Files are numbered: 1..N are the owned files in publication order       *)
(* (OWNERSHIP_OWNED; BASELINE_OWNED is the case where the candidate        *)
(* leaves some of them alone), 0 stands for the rest of the include graph. *)
(* A content is the bytes and metadata of a file, absence included.        *)
(***************************************************************************)
EXTENDS Integers, FiniteSets
LOCAL INSTANCE TLC

CONSTANTS
    N,             \* number of owned files
    Content,       \* contents a file can have
    Callers,       \* root sessions that may call apply
    MaxGen,        \* bound: transactions prepared
    MaxEdits,      \* bound: edits of /etc/ssh by anyone else
    MaxAdversity   \* bound: crashes, reboots, I/O faults, daemon stops

ASSUME NAssumption == N \in Nat \ {0}
ASSUME BoundsAssumption == /\ MaxGen \in Nat
                           /\ MaxEdits \in Nat
                           /\ MaxAdversity \in Nat

VARIABLES
    disk,       \* /etc/ssh: the content of every file
    running,    \* the configuration the daemon last loaded
    sshd,       \* the ssh listener and its pending start, see SshdStates
    timer,      \* the recovery timer: "active" or "inactive" in this boot
    marker,     \* the file `initialized`: "present" or "missing"
    txn,        \* transaction.json; status "absent" when there is no file
    archived,   \* the <generation>.json files
    boot,       \* the boot id
    late,       \* the clocks that are outside [created, deadline) of txn
    job,        \* the operation holding transaction.lock
    awaiting,   \* apply calls between their two lock periods: generation or 0
    edits, adversity,  \* how often the environment has interfered
    window      \* files edited by others since the lock holder's last step

vars == <<disk, running, sshd, timer, marker, txn, archived, boot, late, job,
          awaiting, edits, adversity, window>>

Files   == 0 .. N
Owned   == 1 .. N
Configs == [Files -> Content]

Terminal  == {"committed", "rolled_back"}
Undecided == {"prepared", "applying", "applied", "rolling_back",
              "recovery_failed"}

\* Where an operation holding the lock can be: in prepare, in the guarded part
\* of apply, in _rollback, at apply's fence or before confirm's save.
PreparePcs == {"archive", "marker", "save"}
ApplyPcs   == {"check", "write", "verify", "reload", "settle"}
UndoPcs    == {"undoStart", "undoCheck", "undoWrite", "undoVerify",
               "undoReload", "undoSave"}
Pcs == {"free", "fence", "confirm"} \cup PreparePcs \cup ApplyPcs \cup UndoPcs

TxnType == [gen : Nat, status : Terminal \cup Undecided \cup {"absent"},
            before : Configs, after : Configs, boot : Nat]
JobType == [at : Pcs, i : 0 .. N, mode : {"online", "boot"}, after : Configs,
            before : Configs]

\* A start of ssh.service first runs vpn-sshd-boot-recover.service ("queued",
\* and "recovering" while it undoes a transaction).  If that succeeds the
\* listener may start ("ready"); if it fails, systemd gives the start up until
\* somebody asks again ("failed").
SshdStates == {"up", "queued", "recovering", "ready", "failed"}
Up == sshd = "up"

\* The deadline is kept on the wall clock and on the boot-time clock.
Clocks == {"wall", "boottime"}

Free == job.at = "free"
Held == job.at # "free"

\* Moves of the lock holder, and the save of a new status.
Enter(pc)     == [job EXCEPT !.at = pc]
Goto(pc, k)   == [job EXCEPT !.at = pc, !.i = k]
EnterAtBoot(pc) == [job EXCEPT !.at = pc, !.mode = "boot"]
WithStatus(s) == [txn EXCEPT !.status = s]
Release       == [job EXCEPT !.at = "free", !.mode = "online"]

-----------------------------------------------------------------------------
(* What the operations test.                                               *)

\* _load refuses with 'state-missing' when the marker survives the record.
Loadable == ~(txn.status = "absent" /\ marker = "present")

\* _expired: another boot, or either clock outside the window.
Expired == txn.boot # boot \/ late # {}

\* _graph: every path of the include graph has the content the phase allows.
Graph(phase) ==
    \A f \in Files :
        \/ phase \in {"before", "mixed"} /\ disk[f] = txn.before[f]
        \/ phase \in {"after", "mixed"}  /\ disk[f] = txn.after[f]

-----------------------------------------------------------------------------
Init ==
    /\ disk \in Configs
    /\ running = disk
    /\ sshd = "up"
    /\ timer = "active"
    /\ marker = "missing"
    /\ txn = [gen |-> 0, status |-> "absent", before |-> disk,
              after |-> disk, boot |-> 0]
    /\ archived = {}
    /\ boot = 0
    /\ late = {}
    /\ job = [at |-> "free", i |-> 0, mode |-> "online", after |-> disk,
              before |-> disk]
    /\ awaiting = [c \in Callers |-> 0]
    /\ edits = 0
    /\ adversity = 0
    /\ window = {}

environment == <<sshd, timer, boot, late, edits, adversity>>

\* A step of the lock holder: nothing was edited since it.
Step == window' = {} /\ UNCHANGED <<environment, awaiting>>

-----------------------------------------------------------------------------
(* prepare                                                                 *)

\* The candidate is planned from the files as they are; an unchanged
\* candidate returns without a record, so it is not a step.
PrepareBegin ==
    /\ Free
    /\ Loadable
    /\ txn.status \in Terminal \cup {"absent"}
    /\ txn.gen < MaxGen
    /\ \E after \in Configs \ {disk} :
         /\ after[0] = disk[0]
         /\ job' = [at |-> "archive", i |-> 0, mode |-> "online",
                    before |-> disk, after |-> after]
    /\ Step
    /\ UNCHANGED <<disk, running, marker, txn, archived>>

\* Archive the decided predecessor, then read both clocks and the boot id.
PrepareArchive ==
    /\ job.at = "archive"
    /\ archived' = IF txn.status = "absent" THEN archived
                   ELSE archived \cup {[gen |-> txn.gen, status |-> txn.status]}
    /\ late' = {}
    /\ job' = Enter("marker")
    /\ window' = {}
    /\ UNCHANGED <<disk, running, sshd, timer, marker, txn, boot, awaiting,
                   edits, adversity>>

\* The marker goes first: a crash before the record is an explicit orphan.
PrepareMarker ==
    /\ job.at = "marker"
    /\ marker' = "present"
    /\ job' = Enter("save")
    /\ Step
    /\ UNCHANGED <<disk, running, txn, archived>>

PrepareSave ==
    /\ job.at = "save"
    /\ txn' = [gen |-> txn.gen + 1, status |-> "prepared",
               before |-> job.before, after |-> job.after, boot |-> boot]
    /\ job' = Release
    /\ Step
    /\ UNCHANGED <<disk, running, marker, archived>>

-----------------------------------------------------------------------------
(* apply                                                                   *)

\* First lock period: remember the prepared generation and let the lock go
\* while the recovery worker is run for a fresh proof.
ApplyCheck(c) ==
    /\ Free
    /\ Loadable
    /\ awaiting[c] = 0
    /\ txn.status = "prepared"
    /\ ~Expired
    /\ awaiting' = [awaiting EXCEPT ![c] = txn.gen]
    /\ UNCHANGED <<disk, running, marker, txn, archived, job, window,
                   environment>>

\* Mutation: any prepared record will do.
ApplyBeginAnyRecord(c) ==
    /\ Free
    /\ Loadable
    /\ awaiting[c] # 0
    /\ ~Expired
    /\ txn.status = "prepared"
    /\ Graph("before")
    /\ job' = Enter("fence")
    /\ awaiting' = [awaiting EXCEPT ![c] = 0]
    /\ window' = {}
    /\ UNCHANGED <<disk, running, marker, txn, archived, environment>>

\* Second lock period: the record must be the one seen in the first.
ApplyBegin(c) ==
    /\ Free
    /\ Loadable
    /\ awaiting[c] # 0
    /\ awaiting[c] = txn.gen
    /\ ~Expired
    /\ txn.status = "prepared"
    /\ Graph("before")
    /\ job' = Enter("fence")
    /\ awaiting' = [awaiting EXCEPT ![c] = 0]
    /\ window' = {}
    /\ UNCHANGED <<disk, running, marker, txn, archived, environment>>

\* No proof, a failed check, 'busy' or the death of the caller.
ApplyGiveUp(c) ==
    /\ awaiting[c] # 0
    /\ awaiting' = [awaiting EXCEPT ![c] = 0]
    /\ UNCHANGED <<disk, running, marker, txn, archived, job, window,
                   environment>>

\* Mutation: the first write is not preceded by the record.
ApplyArmUnrecorded ==
    /\ job.at = "fence"
    /\ Graph("before")
    /\ ~Expired
    /\ job' = Goto("check", 1)
    /\ Step
    /\ UNCHANGED <<disk, running, marker, txn, archived>>

\* The recovery capability has been checked again (activation_fence).
ApplyArm ==
    /\ job.at = "fence"
    /\ Graph("before")
    /\ ~Expired
    /\ txn' = WithStatus("applying")
    /\ job' = Goto("check", 1)
    /\ Step
    /\ UNCHANGED <<disk, running, marker, archived>>

\* One round of the publication loop: check the graph ...
ApplyPublishCheck ==
    /\ job.at = "check"
    /\ ~Expired
    /\ Graph("mixed")
    /\ job' = Enter("write")
    /\ Step
    /\ UNCHANGED <<disk, running, marker, txn, archived>>

\* Mutation: the loop runs one file too far.
ApplyPublishWriteTooFar ==
    /\ job.at = "write"
    /\ disk' = [disk EXCEPT ![job.i] = txn.after[job.i]]
    /\ job' = IF job.i > N THEN Enter("verify")
              ELSE Goto("check", job.i + 1)
    /\ Step
    /\ UNCHANGED <<running, marker, txn, archived>>

\* ... and write the file, if the candidate changes it.
ApplyPublishWrite ==
    /\ job.at = "write"
    /\ disk' = IF txn.before[job.i] = txn.after[job.i] THEN disk
               ELSE [disk EXCEPT ![job.i] = txn.after[job.i]]
    /\ job' = IF job.i = N THEN Enter("verify")
              ELSE Goto("check", job.i + 1)
    /\ Step
    /\ UNCHANGED <<running, marker, txn, archived>>

\* Mutation: the reload is left out.
ApplyVerifyNoReload ==
    /\ job.at = "verify"
    /\ Graph("after")
    /\ ~Expired
    /\ job' = Enter("settle")
    /\ Step
    /\ UNCHANGED <<disk, running, marker, txn, archived>>

\* The whole graph must now be the candidate's, and its policy effective.
ApplyVerify ==
    /\ job.at = "verify"
    /\ Graph("after")
    /\ ~Expired
    /\ job' = Enter("reload")
    /\ Step
    /\ UNCHANGED <<disk, running, marker, txn, archived>>

ApplyReload ==
    /\ job.at = "reload"
    /\ Up
    /\ running' = disk
    /\ job' = Enter("settle")
    /\ Step
    /\ UNCHANGED <<disk, marker, txn, archived>>

ApplySettle ==
    /\ job.at = "settle"
    /\ ~Expired
    /\ txn' = WithStatus("applied")
    /\ job' = Release
    /\ Step
    /\ UNCHANGED <<disk, running, marker, archived>>

\* A check of the publication that does not hold.
ApplyCheckFails ==
    \/ job.at \in {"check", "verify", "settle"} /\ Expired
    \/ job.at = "check" /\ ~Graph("mixed")
    \/ job.at = "verify" /\ ~Graph("after")
    \/ job.at = "reload" /\ ~Up

\* Any exception of the publication enters _rollback, still under the lock.
ApplyRaises ==
    /\ job.at \in ApplyPcs
    /\ ApplyCheckFails
    /\ job' = Enter("undoStart")
    /\ Step
    /\ UNCHANGED <<disk, running, marker, txn, archived>>

-----------------------------------------------------------------------------
(* confirm                                                                 *)

ConfirmBegin ==
    /\ Free
    /\ Loadable
    /\ txn.status = "applied"
    /\ ~Expired
    /\ Graph("after")
    /\ job' = Enter("confirm")
    /\ Step
    /\ UNCHANGED <<disk, running, marker, txn, archived>>

\* After assert_effective the deadline is read once more.
ConfirmSave ==
    /\ job.at = "confirm"
    /\ ~Expired
    /\ txn' = WithStatus("committed")
    /\ job' = Release
    /\ Step
    /\ UNCHANGED <<disk, running, marker, archived>>

\* A check before the first write of apply or in confirm that does not hold
\* raises: the lock is released and nothing has changed.
RefuseUnderLock ==
    /\ \/ job.at = "confirm" /\ Expired
       \/ job.at = "fence" /\ (Expired \/ ~Graph("before"))
    /\ job' = Release
    /\ Step
    /\ UNCHANGED <<disk, running, marker, txn, archived>>

-----------------------------------------------------------------------------
(* rollback, recover and the shared _rollback                              *)

BeginUndo ==
    /\ job' = Enter("undoStart")
    /\ Step
    /\ UNCHANGED <<disk, running, marker, txn, archived>>

\* Mutation: a committed transaction can be rolled back.
RollbackCommitted ==
    /\ Free
    /\ Loadable
    /\ txn.status \in Undecided \cup {"committed"}
    /\ BeginUndo

\* The operator's explicit rollback of the current generation.
Rollback ==
    /\ Free
    /\ Loadable
    /\ txn.status \in Undecided
    /\ BeginUndo

\* Mutation: recovery only finishes what was begun.
NeedsRecoveryBegun ==
    /\ txn.status \in Undecided
    /\ txn.status \in {"rolling_back", "recovery_failed"}

\* recover acts on an interrupted or failed undo, and on any expired record.
NeedsRecovery ==
    /\ txn.status \in Undecided
    /\ txn.status \in {"rolling_back", "recovery_failed"} \/ Expired

\* One tick of vpn-sshd-recover.timer.
TimerRecover ==
    /\ Free
    /\ timer = "active"
    /\ Loadable
    /\ NeedsRecovery
    /\ BeginUndo

\* vpn-sshd-boot-recover.service, required by and ordered before sshd, finds
\* a record to undo ...
BootRecoverUndo ==
    /\ Free
    /\ sshd = "queued"
    /\ Loadable
    /\ NeedsRecovery
    /\ job' = EnterAtBoot("undoStart")
    /\ sshd' = "recovering"
    /\ window' = {}
    /\ UNCHANGED <<disk, running, timer, marker, txn, archived, boot, late,
                   awaiting, edits, adversity>>

\* ... or has nothing to do and lets the listener and the timer start.
BootRecoverNothing ==
    /\ Free
    /\ sshd = "queued"
    /\ Loadable
    /\ ~NeedsRecovery
    /\ sshd' = "ready"
    /\ timer' = "active"
    /\ UNCHANGED <<disk, running, marker, txn, archived, boot, late, job,
                   awaiting, edits, adversity, window>>

\* Mutation: a busy boot recovery is deferred like a busy timer tick.
BootRecoverDeferred ==
    /\ sshd = "queued"
    /\ Held \/ ~Loadable
    /\ sshd' = "ready"
    /\ UNCHANGED <<disk, running, timer, marker, txn, archived, boot, late,
                   job, awaiting, edits, adversity, window>>

\* Busy (exit 1, unlike the timer's deferral) or 'state-missing': the start
\* of the listener fails with it.
BootRecoverRefused ==
    /\ sshd = "queued"
    /\ Held \/ ~Loadable
    /\ sshd' = "failed"
    /\ UNCHANGED <<disk, running, timer, marker, txn, archived, boot, late,
                   job, awaiting, edits, adversity, window>>

UndoStart ==
    /\ job.at = "undoStart"
    /\ Graph("mixed")
    /\ txn' = WithStatus("rolling_back")
    /\ job' = Goto("undoCheck", N)
    /\ Step
    /\ UNCHANGED <<disk, running, marker, archived>>

\* Mutation: the graph is not checked before each write.
UndoCheckNothing ==
    /\ job.at = "undoCheck"
    /\ job' = Enter("undoWrite")
    /\ Step
    /\ UNCHANGED <<disk, running, marker, txn, archived>>

\* The files are restored in the reverse order of their publication.
UndoCheck ==
    /\ job.at = "undoCheck"
    /\ Graph("mixed")
    /\ job' = Enter("undoWrite")
    /\ Step
    /\ UNCHANGED <<disk, running, marker, txn, archived>>

UndoWrite ==
    /\ job.at = "undoWrite"
    /\ disk' = [disk EXCEPT ![job.i] = txn.before[job.i]]
    /\ job' = IF job.i = 1 THEN Enter("undoVerify")
              ELSE Goto("undoCheck", job.i - 1)
    /\ Step
    /\ UNCHANGED <<running, marker, txn, archived>>

\* Mutation: the undo never reloads the daemon.
UndoVerifyNoReload ==
    /\ job.at = "undoVerify"
    /\ Graph("before")
    /\ job' = Enter("undoSave")
    /\ Step
    /\ UNCHANGED <<disk, running, marker, txn, archived>>

\* At boot the daemon has not started, so there is nothing to reload.
UndoVerify ==
    /\ job.at = "undoVerify"
    /\ Graph("before")
    /\ job' = Enter(IF job.mode = "boot" THEN "undoSave" ELSE "undoReload")
    /\ Step
    /\ UNCHANGED <<disk, running, marker, txn, archived>>

UndoReload ==
    /\ job.at = "undoReload"
    /\ Up
    /\ running' = disk
    /\ job' = Enter("undoSave")
    /\ Step
    /\ UNCHANGED <<disk, marker, txn, archived>>

\* A boot recovery that succeeds also lets the listener and the timer start.
UndoSave ==
    /\ job.at = "undoSave"
    /\ txn' = WithStatus("rolled_back")
    /\ sshd' = IF job.mode = "boot" THEN "ready" ELSE sshd
    /\ timer' = IF job.mode = "boot" THEN "active" ELSE timer
    /\ job' = Release
    /\ window' = {}
    /\ UNCHANGED <<disk, running, marker, archived, boot, late, awaiting,
                   edits, adversity>>

UndoCheckFails ==
    \/ job.at \in {"undoStart", "undoCheck"} /\ ~Graph("mixed")
    \/ job.at = "undoVerify" /\ ~Graph("before")
    \/ job.at = "undoReload" /\ ~Up

\* The unit fails with the boot recovery it runs.
StartAfterFailure == IF job.mode = "boot" THEN "failed" ELSE sshd

\* Any exception of _rollback is recorded as recovery_failed.
SaveRecoveryFailed ==
    /\ txn' = WithStatus("recovery_failed")
    /\ job' = Release

UndoRaises ==
    /\ job.at \in UndoPcs
    /\ UndoCheckFails
    /\ SaveRecoveryFailed
    /\ sshd' = StartAfterFailure
    /\ window' = {}
    /\ UNCHANGED <<disk, running, timer, marker, archived, boot, late,
                   awaiting, edits, adversity>>

-----------------------------------------------------------------------------
(* The environment.                                                        *)

Adverse == adversity < MaxAdversity /\ adversity' = adversity + 1

\* The process holding the lock is killed; the kernel drops the flock.
Crash ==
    /\ Held
    /\ Adverse
    /\ job' = Release
    /\ sshd' = StartAfterFailure
    /\ UNCHANGED <<disk, running, timer, marker, txn, archived, boot, late,
                   awaiting, edits, window>>

\* An I/O error or a command failure: apply undoes, _rollback records the
\* failure, everything before the first write just raises.
Fault ==
    /\ Held
    /\ Adverse
    /\ \/ /\ job.at \in ApplyPcs
          /\ job' = Enter("undoStart")
          /\ UNCHANGED txn
       \/ /\ job.at \in UndoPcs
          /\ SaveRecoveryFailed
       \/ /\ job.at \in {"fence", "confirm"}
          /\ job' = Release
          /\ UNCHANGED txn
    /\ sshd' = IF job.at \in UndoPcs THEN StartAfterFailure ELSE sshd
    /\ UNCHANGED <<disk, running, timer, marker, archived, boot, late,
                   awaiting, edits, window>>

\* Every process dies; the new boot has another id and no listener yet.
Reboot ==
    /\ Adverse
    /\ boot' = boot + 1
    /\ sshd' = "queued"
    /\ timer' = "inactive"
    /\ job' = Release
    /\ awaiting' = [c \in Callers |-> 0]
    /\ UNCHANGED <<disk, running, marker, txn, archived, late, edits, window>>

\* ssh.service is stopped to be restarted (a package upgrade, for one).
DaemonStop ==
    /\ Up
    /\ Adverse
    /\ sshd' = "queued"
    /\ UNCHANGED <<disk, running, timer, marker, txn, archived, boot, late,
                   job, awaiting, edits, window>>

\* systemd starts the listener once boot recovery has succeeded.
DaemonStart ==
    /\ sshd = "ready"
    /\ sshd' = "up"
    /\ running' = disk
    /\ UNCHANGED <<disk, timer, marker, txn, archived, boot, late, job,
                   awaiting, edits, adversity, window>>

\* Somebody at the console starts ssh.service again after a failure.
RetryStart ==
    /\ sshd = "failed"
    /\ sshd' = "queued"
    /\ UNCHANGED <<disk, running, timer, marker, txn, archived, boot, late,
                   job, awaiting, edits, adversity, window>>

\* The deadline passes on the boot-time clock.
Elapse ==
    /\ "boottime" \notin late
    /\ late' = late \cup {"boottime"}
    /\ UNCHANGED <<disk, running, sshd, timer, marker, txn, archived, boot,
                   job, awaiting, edits, adversity, window>>

\* The wall clock is stepped out of the window, or back into it.
StepClock ==
    /\ late' = IF "wall" \in late THEN late \ {"wall"} ELSE late \cup {"wall"}
    /\ UNCHANGED <<disk, running, sshd, timer, marker, txn, archived, boot,
                   job, awaiting, edits, adversity, window>>

\* Somebody else changes a file below /etc/ssh.
ForeignEdit ==
    /\ edits < MaxEdits
    /\ \E f \in Files, v \in Content :
         /\ disk[f] # v
         /\ disk' = [disk EXCEPT ![f] = v]
         /\ window' = window \cup {f}
    /\ edits' = edits + 1
    /\ UNCHANGED <<running, sshd, timer, marker, txn, archived, boot, late,
                   job, awaiting, adversity>>

-----------------------------------------------------------------------------
Prepare == PrepareBegin \/ PrepareArchive \/ PrepareMarker \/ PrepareSave

Apply ==
    \/ \E c \in Callers : ApplyCheck(c) \/ ApplyBegin(c) \/ ApplyGiveUp(c)
    \/ ApplyArm \/ ApplyPublishCheck \/ ApplyPublishWrite \/ ApplyVerify
    \/ ApplyReload \/ ApplySettle \/ ApplyRaises

Confirm == ConfirmBegin \/ ConfirmSave \/ RefuseUnderLock

BootRecover == BootRecoverUndo \/ BootRecoverNothing \/ BootRecoverRefused

Undo == UndoStart \/ UndoCheck \/ UndoWrite \/ UndoVerify \/ UndoReload
        \/ UndoSave \/ UndoRaises

Environment == Crash \/ Fault \/ Reboot \/ DaemonStop \/ DaemonStart
               \/ RetryStart \/ Elapse \/ StepClock \/ ForeignEdit

Next == Prepare \/ Apply \/ Confirm \/ Rollback \/ TimerRecover
        \/ BootRecover \/ Undo \/ Environment

Spec == Init /\ [][Next]_vars

\* The steps of the process that holds the lock, whatever it runs.
HolderStep ==
    \/ PrepareArchive \/ PrepareMarker \/ PrepareSave
    \/ ApplyArm \/ ApplyPublishCheck \/ ApplyPublishWrite \/ ApplyVerify
    \/ ApplyReload \/ ApplySettle \/ ApplyRaises
    \/ ConfirmSave \/ RefuseUnderLock \/ Undo

-----------------------------------------------------------------------------
(* Properties.                                                             *)

\* Every variable has the type its declaration says.
TypeOK ==
    /\ disk \in Configs
    /\ running \in Configs
    /\ sshd \in SshdStates
    /\ timer \in {"active", "inactive"}
    /\ marker \in {"present", "missing"}
    /\ txn \in TxnType
    /\ archived \subseteq [gen : Nat, status : Terminal]
    /\ boot \in Nat
    /\ late \subseteq Clocks
    /\ job \in JobType
    /\ awaiting \in [Callers -> Nat]
    /\ edits \in Nat
    /\ adversity \in Nat
    /\ window \subseteq Files

\* As long as nobody else edits /etc/ssh, the journal tells what is on disk,
\* across any crash, fault or reboot: a prepared or rolled back transaction
\* left every file as it was before, an applied or committed one has put every
\* file in its new form, and an undecided one mixes the two and nothing else.
DiskMatchesRecord ==
    edits = 0 =>
        /\ txn.status \in {"prepared", "rolled_back"} => disk = txn.before
        /\ txn.status \in {"applied", "committed"} => disk = txn.after
        /\ txn.status \in Undecided => Graph("mixed")

\* A listening daemon serves what the verdict says: with a transaction decided
\* (or applied, or none at all) and no foreign edit, sshd has loaded exactly
\* the files on disk.  A reload lost to a crash, a reboot or a restart of
\* sshd in the middle never survives the verdict.
DaemonMatchesVerdict ==
    edits = 0 /\ Up /\ txn.status \in Terminal \cup {"absent", "applied"}
        => running = disk

\* sshd never listens over an undecided transaction of an earlier boot: boot
\* recovery is required by the listener and fails instead of letting it start
\* over uncertain state.
ListenerAfterReconcile ==
    Up /\ txn.status \in Undecided => txn.boot = boot

\* A verdict is final: no late confirm, rollback, timer tick or boot recovery
\* changes it.  A decided record is replaced only by a newer generation, and
\* only once the archive holds it.
VerdictFinal ==
    [][txn.status \in Terminal /\ txn' # txn =>
          /\ txn'.status = "prepared"
          /\ txn'.gen > txn.gen
          /\ [gen |-> txn.gen, status |-> txn.status] \in archived]_vars

\* "Partial restore must not hide drift": the transaction writes a file only
\* if no file of the graph holds a foreign content, except for edits made
\* after the check that precedes the write.
DriftNotHidden ==
    [][disk' # disk /\ edits' = edits =>
          \A f \in Files : disk[f] \in {txn.before[f], txn.after[f]}
                           \/ f \in window]_vars

\* An apply publishes only the generation it was called for: whatever happened
\* while its caller was without the lock (another caller's transaction, a
\* rollback and a new prepare, an expiry), the caller goes on only with the
\* very record it had checked, still prepared and unexpired.
AppliesWhatWasChecked ==
    [][Free /\ job'.at = "fence" =>
          /\ txn.status = "prepared" /\ txn.boot = boot
          /\ \E c \in Callers : awaiting[c] = txn.gen /\ awaiting'[c] = 0]_vars

-----------------------------------------------------------------------------
(* Implementation of the promise.                                          *)

\* What the journal makes of the three variables of SshdGuard.
AcceptedConfig ==
    CASE txn.status = "absent"    -> disk
      [] txn.status = "committed" -> txn.after
      [] OTHER                    -> txn.before
TrialConfig   == IF txn.status \in Undecided THEN {txn.after} ELSE {}
ServingConfig == IF Up THEN {running} ELSE {}

Guard == INSTANCE SshdGuard WITH
    Names <- Files, Value <- Content, accepted <- AcceptedConfig,
    trial <- TrialConfig, serving <- ServingConfig

\* With /etc/ssh left alone by others, the journal, the file by file
\* publication, the reloads, the recovery units and every crash between them
\* amount to trials accepted or dropped as a whole.
KeepsPromise == Guard!Promise
PromiseStart == Guard!Start
PromiseStep == Guard!Change \/ UNCHANGED Guard!guard

-----------------------------------------------------------------------------
(* For TLC: neither the callers nor the contents are distinguished.        *)
Symmetry == Permutations(Callers) \cup Permutations(Content)

=============================================================================
