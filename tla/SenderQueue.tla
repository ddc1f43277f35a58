---------------------------- MODULE SenderQueue ----------------------------
(***************************************************************************)
(* Activation of the remote-write sender with compensation of its retained *)
(* queue: observability_runtime_accept.py (Sender, reconcile, execute) and *)
(* observability_runtime_queue.py (QueueSnapshot).  The file publication   *)
(* of transport_runtime_transaction.py underneath is reduced to its        *)
(* pending and accepted records (RuntimeTransaction models its detail).    *)
(*                                                                         *)
(* The publisher is one process under one lock.  todo is what it still has *)
(* to do: the head is the statement it is at, "try-..." marks the end of a *)
(* try block, the empty sequence means that no publisher runs.             *)
(***************************************************************************)
EXTENDS Naturals, Sequences, FiniteSets

CONSTANTS Versions,     \* sender generations that can be published
          Entries,      \* files of the native queue
          Contents,     \* what a file of the queue can hold
          Gone,         \* the selection or receipt of a retired sender
          None,         \* an absent record or file
          Empty,        \* a file created but not yet written
          Faults,       \* which faults the environment may inject
          MaxFault      \* and how many of them

SenderAssumption ==
    /\ Versions \cap {Gone, None} = {}
    /\ Contents \cap {None, Empty} = {}
    /\ Faults \subseteq {"kill", "reboot", "refuse", "unready", "crash", "stop"}
    /\ MaxFault \in Nat

VARIABLES sel,       \* the published selection: the unit file and its links
          accepted,  \* accepted.json
          pending,   \* pending.json: [before, after]
          startup,   \* startup.json: [committed]
          saved,     \* queue-snapshot.json
          backup,    \* the snapshot directory in the state root
          stage,     \* the restore directory in the queue's store
          queue,     \* the live queue
          unit,      \* systemd: [state, ok], ok being Result=success
          want,      \* the generation this run applies
          todo,      \* the publisher's continuation
          capture,   \* Sender.capture
          rolled,    \* restored_ready and queue_proven
          faults,    \* faults injected so far
          orig       \* history: the queue a snapshot in force must give back

disk == <<sel, accepted, pending, startup, want>>
snap == <<saved, backup, stage>>
vars == <<sel, accepted, pending, startup, want, saved, backup, stage, queue, unit,
          todo, capture, rolled, faults, orig>>

Blank == [e \in Entries |-> None]

\* The signature that binds a snapshot to the intent it was taken for.
Owner(kind, b, a) == [kind |-> kind, before |-> b, after |-> a]
PendingOwner == Owner("publish", pending.before, pending.after)
StartupOwner == Owner("startup", accepted, accepted)

Committed == pending # None /\ accepted = pending.after
Present(f) == {e \in Entries : f[e] # None}

TypeOK ==
    /\ sel \in Versions \cup {Gone}
    /\ accepted \in Versions \cup {Gone, None}
    /\ pending # None => /\ pending.before \in Versions \cup {Gone, None}
                         /\ pending.after \in Versions \cup {Gone}
                         /\ sel \in {pending.before, pending.after, Gone}
    /\ startup # None => startup.committed \in BOOLEAN
    /\ saved # None =>
          /\ saved.phase \in {"preparing", "retained", "restored", "aborted", "cleaning"}
          /\ saved.claim \subseteq Present(saved.tree)
          /\ saved.restore = None \/ saved.restore \subseteq Present(saved.tree)
    /\ \A e \in Entries : /\ queue[e] \in Contents \cup {None}
                          /\ backup[e] \in Contents \cup {None, Empty}
                          /\ stage[e] \in Contents \cup {None, Empty}
    /\ unit.state \in {"off", "on", "auto"} /\ unit.ok \in BOOLEAN
    /\ capture \in BOOLEAN /\ rolled \in BOOLEAN
    /\ faults \in 0..MaxFault
    /\ want \in Versions \cup {None}

(* A host before the first activation: no unit and an empty queue. *)
Init ==
    /\ sel = Gone /\ accepted = None /\ pending = None /\ startup = None
    /\ saved = None /\ backup = Blank /\ stage = Blank
    /\ queue = Blank
    /\ unit = [state |-> "off", ok |-> TRUE]
    /\ want = None /\ todo = <<>> /\ capture = FALSE /\ rolled = FALSE
    /\ faults = 0 /\ orig = None

-----------------------------------------------------------------------------
(* Control of the publisher. *)

At(step) == todo # <<>> /\ Head(todo) = step

\* Replace the head of todo by the given steps.
Do(steps) == todo' = steps \o Tail(todo)

\* A refusal unwinds to the end of the innermost try block and runs its
\* handler; without one it ends the run.
Handler(mark) ==
    CASE mark = "try-apply"  -> <<"recover", "refused">>
      [] mark = "try-retire" -> <<"recover", "raise">>
      [] mark = "try-ensure" -> <<"stop", "snaprestore", "clean", "unstartup", "raise">>

Unwind(t) ==
    LET marks == {i \in 1..Len(t) : t[i] \in {"try-apply", "try-retire", "try-ensure"}}
    IN IF marks = {} THEN <<>>
       ELSE LET i == CHOOSE i \in marks : \A j \in marks : i <= j
                \* leaving ensure keeps its callers; apply and retire end the run
            IN Handler(t[i]) \o (IF t[i] = "try-ensure"
                                 THEN SubSeq(t, i + 3, Len(t)) ELSE <<>>)

Raise == todo' = Unwind(Tail(todo))

May(fault) == fault \in Faults /\ faults < MaxFault

(* The unit's ExecStartPre: admission() of the publication records, then   *)
(* the snapshot's phase.                                                   *)
Admits ==
    LET prepared == saved # None /\ saved.phase \in {"retained", "restored", "aborted"}
    IN /\ pending # None => todo # <<>> /\ prepared
       /\ startup # None => todo # <<>> /\ prepared

-----------------------------------------------------------------------------
(* QueueSnapshot.capture: the record first, then every entry is created,   *)
(* claimed in the record and filled, and only then the snapshot retained.  *)

CaptureBegin(owner) ==
    IF saved # None
    THEN /\ IF saved.owner = owner THEN Do(<<>>) ELSE Raise
         /\ UNCHANGED <<saved, backup, orig, faults>>
    ELSE \/ /\ saved' = [phase |-> "preparing", owner |-> owner, tree |-> queue,
                         claim |-> {}, sha |-> {}, restore |-> None]
            /\ backup' = Blank
            /\ orig' = queue
            /\ Do(<<"copy">>)
            /\ UNCHANGED faults
         \/ \* capacity, orphan count, native layout: refused before any record
            /\ May("refuse")
            /\ faults' = faults + 1
            /\ Raise
            /\ UNCHANGED <<saved, backup, orig>>

Capture ==
    /\ At("capture")
    /\ CaptureBegin(IF startup # None THEN StartupOwner ELSE PendingOwner)
    /\ UNCHANGED <<disk, stage, queue, unit, capture, rolled>>

CopyCreate(e) ==
    /\ At("copy")
    /\ saved.tree[e] # None /\ backup[e] = None
    /\ \A x \in Entries : backup[x] # Empty
    /\ backup' = [backup EXCEPT ![e] = Empty]
    /\ UNCHANGED <<disk, saved, stage, queue, unit, todo, capture, rolled, faults, orig>>

CopyClaim(e) ==
    /\ At("copy")
    /\ backup[e] = Empty /\ e \notin saved.claim
    /\ saved' = [saved EXCEPT !.claim = @ \cup {e},
                              !.sha = {x \in Entries : backup[x] \in Contents}]
    /\ UNCHANGED <<disk, backup, stage, queue, unit, todo, capture, rolled, faults, orig>>

CopyData(e) ==
    /\ At("copy")
    /\ backup[e] = Empty /\ e \in saved.claim
    /\ IF queue[e] = saved.tree[e]
       THEN backup' = [backup EXCEPT ![e] = queue[e]] /\ UNCHANGED todo
       ELSE Raise /\ UNCHANGED backup
    /\ UNCHANGED <<disk, saved, stage, queue, unit, capture, rolled, faults, orig>>

\* Mutation: retained is recorded without waiting for every entry.
CopyEndEarly ==
    /\ At("copy")
    /\ saved' = [saved EXCEPT !.phase = "retained", !.sha = Present(saved.tree)]
    /\ Do(<<>>)
    /\ UNCHANGED <<disk, backup, stage, queue, unit, capture, rolled, faults, orig>>

CopyEnd ==
    /\ At("copy")
    /\ \A e \in Entries : backup[e] # Empty
    /\ Present(backup) = Present(saved.tree)
    /\ IF queue = saved.tree
       THEN /\ saved' = [saved EXCEPT !.phase = "retained", !.sha = Present(saved.tree)]
            /\ Do(<<>>)
       ELSE Raise /\ UNCHANGED saved
    /\ UNCHANGED <<disk, backup, stage, queue, unit, capture, rolled, faults, orig>>

(* QueueSnapshot.backup: the copy agrees with its record. *)
BackupIntact ==
    LET complete == saved.phase \in {"retained", "restored"}
    IN /\ complete => backup = saved.tree
       /\ \A e \in Present(backup) :
             /\ saved.tree[e] # None
             /\ e \notin saved.claim => backup[e] = Empty
             /\ e \in saved.sha => backup[e] = saved.tree[e]

-----------------------------------------------------------------------------
(* QueueSnapshot.restore: the candidate's queue is emptied, the retained   *)
(* copy is staged beside it, entry by entry, and renamed into place.       *)

SnapRestore ==
    /\ At("snaprestore")
    /\ IF saved = None \/ saved.phase \in {"restored", "aborted", "cleaning"}
       THEN Do(<<>>) /\ UNCHANGED <<saved, orig>>
       ELSE IF ~BackupIntact
       THEN Raise /\ UNCHANGED <<saved, orig>>
       ELSE IF saved.phase = "preparing"
       THEN /\ saved' = [saved EXCEPT !.phase = "aborted"]
            /\ orig' = None
            /\ Do(<<>>)
       ELSE /\ Do(IF saved.restore = None THEN <<"empty">> ELSE <<"unstage", "empty">>)
            /\ UNCHANGED <<saved, orig>>
    /\ UNCHANGED <<disk, backup, stage, queue, unit, capture, rolled, faults>>

RemoveLive(e) ==
    /\ At("empty")
    /\ queue[e] # None
    /\ queue' = [queue EXCEPT ![e] = None]
    /\ UNCHANGED <<disk, snap, unit, todo, capture, rolled, faults, orig>>

(* A new restore directory and its claim; a directory whose claim was      *)
(* never recorded stays behind, empty, under another name.                 *)
StageOpen ==
    /\ At("empty")
    /\ Present(queue) = {}
    /\ stage' = Blank
    /\ saved' = [saved EXCEPT !.restore = {}]
    /\ Do(<<"stage">>)
    /\ UNCHANGED <<disk, backup, queue, unit, capture, rolled, faults, orig>>

StageCreate(e) ==
    /\ At("stage")
    /\ saved.tree[e] # None /\ e \notin saved.restore /\ stage[e] = None
    /\ \A x \in Entries : stage[x] # Empty
    /\ stage' = [stage EXCEPT ![e] = Empty]
    /\ UNCHANGED <<disk, saved, backup, queue, unit, todo, capture, rolled, faults, orig>>

StageClaim(e) ==
    /\ At("stage")
    /\ stage[e] = Empty /\ e \notin saved.restore
    /\ saved' = [saved EXCEPT !.restore = @ \cup {e}]
    /\ UNCHANGED <<disk, backup, stage, queue, unit, todo, capture, rolled, faults, orig>>

StageData(e) ==
    /\ At("stage")
    /\ stage[e] = Empty /\ e \in saved.restore
    /\ IF backup[e] = saved.tree[e]
       THEN stage' = [stage EXCEPT ![e] = backup[e]] /\ UNCHANGED todo
       ELSE Raise /\ UNCHANGED stage
    /\ UNCHANGED <<disk, saved, backup, queue, unit, capture, rolled, faults, orig>>

StageEnd ==
    /\ At("stage")
    /\ stage = saved.tree
    /\ Do(<<"move">>)
    /\ UNCHANGED <<disk, snap, queue, unit, capture, rolled, faults, orig>>

Move(e) ==
    /\ At("move")
    /\ stage[e] # None
    /\ queue' = [queue EXCEPT ![e] = stage[e]]
    /\ stage' = [stage EXCEPT ![e] = None]
    /\ UNCHANGED <<disk, saved, backup, unit, todo, capture, rolled, faults, orig>>

MoveEnd ==
    /\ At("move")
    /\ Present(stage) = {}
    /\ saved' = [saved EXCEPT !.phase = "restored"]
    /\ orig' = None
    /\ Do(<<"unstage">>)
    /\ UNCHANGED <<disk, backup, stage, queue, unit, capture, rolled, faults>>

(* QueueSnapshot.clear_restore: only claimed entries are removed; an       *)
(* unclaimed one must be empty and stays behind in its directory.          *)
UnstageEntry(e) ==
    /\ At("unstage")
    /\ e \in saved.restore /\ stage[e] # None
    /\ stage' = [stage EXCEPT ![e] = None]
    /\ UNCHANGED <<disk, saved, backup, queue, unit, todo, capture, rolled, faults, orig>>

UnstageEnd ==
    /\ At("unstage")
    /\ Present(stage) \cap saved.restore = {}
    /\ IF \A e \in Entries : stage[e] \in {None, Empty}
       THEN /\ stage' = Blank
            /\ saved' = [saved EXCEPT !.restore = None]
            /\ Do(<<>>)
       ELSE Raise /\ UNCHANGED <<stage, saved>>
    /\ UNCHANGED <<disk, backup, queue, unit, capture, rolled, faults, orig>>

(* QueueSnapshot.cleanup. *)
Clean ==
    /\ At("clean")
    /\ Do(IF saved = None THEN <<>>
          ELSE IF saved.restore # None THEN <<"unstage", "retire-backup">>
          ELSE <<"retire-backup">>)
    /\ UNCHANGED <<disk, snap, queue, unit, capture, rolled, faults, orig>>

CleanBegin ==
    /\ At("retire-backup")
    /\ IF BackupIntact
       THEN saved' = [saved EXCEPT !.phase = "cleaning"] /\ Do(<<"wipe">>)
       ELSE Raise /\ UNCHANGED saved
    /\ UNCHANGED <<disk, backup, stage, queue, unit, capture, rolled, faults, orig>>

WipeEntry(e) ==
    /\ At("wipe")
    /\ e \in saved.claim /\ backup[e] # None
    /\ backup' = [backup EXCEPT ![e] = None]
    /\ UNCHANGED <<disk, saved, stage, queue, unit, todo, capture, rolled, faults, orig>>

WipeEnd ==
    /\ At("wipe")
    /\ Present(backup) \cap saved.claim = {}
    /\ IF \A e \in Entries : backup[e] \in {None, Empty}
       THEN saved' = None /\ backup' = Blank /\ Do(<<>>)
       ELSE Raise /\ UNCHANGED <<saved, backup>>
    /\ UNCHANGED <<disk, stage, queue, unit, capture, rolled, faults, orig>>

-----------------------------------------------------------------------------
(* Sender: the adapter the transaction calls. *)

\* stop(), which also takes the snapshot when the caller asked for it: only
\* after a graceful stop, under an intent, before anything is published.
Stop ==
    /\ At("stop")
    /\ LET ok == unit.ok \/ unit.state = "on"
       IN /\ unit' = [state |-> "off", ok |-> ok]
          /\ capture' = FALSE
          /\ IF ~capture THEN Do(<<>>)
             ELSE IF \/ sel \in Versions /\ ~ok
                     \/ pending = None
                     \/ sel # (IF pending.before = None THEN Gone ELSE pending.before)
             THEN Raise
             ELSE Do(<<"capture">>)
    /\ UNCHANGED <<disk, snap, queue, rolled, faults, orig>>

\* systemctl start: refused by the guard, or running.
StartUnit ==
    IF Admits
    THEN unit' = [state |-> "on", ok |-> TRUE] /\ Do(<<>>)
    ELSE unit' = [state |-> "auto", ok |-> FALSE] /\ Raise

Start ==
    /\ At("start")
    /\ IF sel = Gone
       THEN unit' = [unit EXCEPT !.state = "off"] /\ Do(<<>>)
       ELSE StartUnit
    /\ UNCHANGED <<disk, snap, queue, capture, rolled, faults, orig>>

Ready ==
    /\ At("ready")
    /\ \/ /\ IF (sel = Gone) = (unit.state = "on") THEN Raise ELSE Do(<<>>)
          /\ UNCHANGED faults
       \/ /\ May("unready")
          /\ sel # Gone
          /\ faults' = faults + 1
          /\ Raise
    /\ UNCHANGED <<disk, snap, queue, unit, capture, rolled, orig>>

\* restore(units): the snapshot must belong to this intent, and without one
\* nothing may have been published.
Restore ==
    /\ At("restore")
    /\ IF \/ saved # None /\ saved.owner # PendingOwner
          \/ saved = None /\ sel # (IF pending.before = None THEN Gone ELSE pending.before)
       THEN Raise /\ UNCHANGED rolled
       ELSE /\ rolled' = (saved # None /\ saved.phase \in {"retained", "restored"})
            /\ Do(<<"snaprestore", "restart">>)
    /\ UNCHANGED <<disk, snap, queue, unit, capture, faults, orig>>

\* The previous sender comes back when it was active in the units of its receipt, which
\* the commit took from a ready sender; without a receipt there was no unit.
Restart ==
    /\ At("restart")
    /\ IF pending.before \in Versions THEN StartUnit ELSE Do(<<>>) /\ UNCHANGED unit
    /\ UNCHANGED <<disk, snap, queue, capture, rolled, faults, orig>>

\* ensure(): starting an accepted but stopped sender is a queue transaction
\* of its own, recorded in startup.json.
Ensure ==
    /\ At("ensure")
    /\ IF sel = Gone \/ unit.state = "on"
       THEN Do(<<>>) /\ UNCHANGED startup
       ELSE /\ startup' = [committed |-> FALSE]
            /\ Do(<<"stop", "capture", "start", "ready", "startcommit",
                    "try-ensure", "clean", "unstartup">>)
    /\ UNCHANGED <<sel, accepted, pending, want, snap, queue, unit, capture, rolled, faults, orig>>

StartCommit ==
    /\ At("startcommit")
    /\ startup' = [committed |-> TRUE]
    /\ orig' = None
    /\ Do(<<>>)
    /\ UNCHANGED <<sel, accepted, pending, want, snap, queue, unit, capture, rolled, faults>>

Unstartup ==
    /\ At("unstartup")
    /\ startup' = None
    /\ Do(<<>>)
    /\ UNCHANGED <<sel, accepted, pending, want, snap, queue, unit, capture, rolled, faults, orig>>

-----------------------------------------------------------------------------
(* reconcile(): what every run does before its own action. *)

Reconcile == <<"finish", "startup", "owner", "recover", "settle", "finish">>

\* finish_retirement: the receipt of a retired sender goes last.
FinishRetirement ==
    /\ At("finish")
    /\ accepted' = IF saved = None /\ pending = None /\ accepted = Gone THEN None ELSE accepted
    /\ Do(<<>>)
    /\ UNCHANGED <<sel, pending, startup, want, snap, queue, unit, capture, rolled, faults, orig>>

ReconcileStartup ==
    /\ At("startup")
    /\ IF startup = None THEN Do(<<>>)
       ELSE IF \/ pending # None /\ ~Committed
               \/ sel # accepted
               \/ saved # None /\ saved.owner # StartupOwner
       THEN Raise
       ELSE Do((IF startup.committed THEN <<>> ELSE <<"stop", "snaprestore">>)
               \o <<"clean", "unstartup">>)
    /\ UNCHANGED <<disk, snap, queue, unit, capture, rolled, faults, orig>>

ReconcileOwner ==
    /\ At("owner")
    /\ IF pending = None THEN Do(<<>>) /\ UNCHANGED capture
       ELSE IF saved # None /\ saved.owner # PendingOwner
       THEN Raise /\ UNCHANGED capture
       ELSE IF Committed
       THEN Do(IF saved # None THEN <<"clean">> ELSE <<>>) /\ UNCHANGED capture
       ELSE IF saved = None
       THEN IF sel # (IF pending.before = None THEN Gone ELSE pending.before)
            THEN Raise /\ UNCHANGED capture
            ELSE capture' = TRUE /\ Do(<<>>)
       ELSE Do(<<>>) /\ UNCHANGED capture
    /\ UNCHANGED <<disk, snap, queue, unit, rolled, faults, orig>>

\* Transaction.recover with this adapter.
Recover ==
    /\ At("recover")
    /\ Do(IF pending = None THEN <<>>
          ELSE IF Committed THEN <<"ensure", "ready", "txclean">>
          ELSE <<"stop", "unpublish", "restore">>
               \o (IF pending.before = None THEN <<>> ELSE <<"ready">>) \o <<"txclean">>)
    /\ UNCHANGED <<disk, snap, queue, unit, capture, rolled, faults, orig>>

Unpublish ==
    /\ At("unpublish")
    /\ sel' = IF pending.before = None THEN Gone ELSE pending.before
    /\ Do(<<>>)
    /\ UNCHANGED <<accepted, pending, startup, want, snap, queue, unit, capture, rolled, faults, orig>>

TxClean ==
    /\ At("txclean")
    /\ pending' = None
    /\ Do(<<>>)
    /\ UNCHANGED <<sel, accepted, startup, want, snap, queue, unit, capture, rolled, faults, orig>>

\* What is left of a snapshot goes only when it was given back or when the
\* selection it protected is the accepted one.
Settle ==
    /\ At("settle")
    /\ IF saved = None THEN Do(<<>>)
       ELSE IF /\ saved.phase \notin {"restored", "aborted", "cleaning"}
               /\ accepted # saved.owner.after
       THEN Raise
       ELSE Do(<<"clean">>)
    /\ UNCHANGED <<disk, snap, queue, unit, capture, rolled, faults, orig>>

-----------------------------------------------------------------------------
(* execute(): the apply, retire and recover commands. *)

Run(steps, v) ==
    /\ todo = <<>>
    /\ todo' = Reconcile \o steps
    /\ want' = v
    /\ capture' = FALSE /\ rolled' = FALSE
    /\ UNCHANGED <<sel, accepted, pending, startup, snap, queue, unit, faults, orig>>

RunRecover == Run(<<>>, None)
RunApply(v) == Run(<<"apply">>, v)
RunRetire == Run(<<"retire">>, None)

\* Transaction.apply: preparation ends with the pending record.
Apply ==
    /\ At("apply")
    /\ capture' = TRUE
    /\ IF accepted # None /\ accepted # sel THEN Raise /\ UNCHANGED pending
       ELSE IF accepted = want
       THEN Do(<<"ensure", "ready">>) /\ UNCHANGED pending
       ELSE /\ pending' = [before |-> accepted, after |-> want]
            /\ Do(<<"stop", "publish", "start", "ready", "commit", "try-apply",
                    "txclean", "clean">>)
    /\ UNCHANGED <<sel, accepted, startup, want, snap, queue, unit, rolled, faults, orig>>

Retire ==
    /\ At("retire")
    /\ IF accepted = None THEN Do(<<>>) /\ UNCHANGED <<pending, capture>>
       ELSE /\ pending' = [before |-> accepted, after |-> Gone]
            /\ capture' = TRUE
            /\ Do(<<"stop", "publish", "start", "ready", "commit", "try-retire",
                    "txclean", "clean", "finish">>)
    /\ UNCHANGED <<sel, accepted, startup, want, snap, queue, unit, rolled, faults, orig>>

Publish ==
    /\ At("publish")
    /\ sel' = pending.after
    /\ Do(<<>>)
    /\ UNCHANGED <<accepted, pending, startup, want, snap, queue, unit, capture, rolled, faults, orig>>

Commit ==
    /\ At("commit")
    /\ accepted' = pending.after
    /\ orig' = None
    /\ Do(<<>>)
    /\ UNCHANGED <<sel, pending, startup, want, snap, queue, unit, capture, rolled, faults>>

\* Leaving a try block without an exception.
PassTry ==
    /\ At("try-apply") \/ At("try-retire") \/ At("try-ensure")
    /\ Do(<<>>)
    /\ UNCHANGED <<disk, snap, queue, unit, capture, rolled, faults, orig>>

\* candidate-refused: a proven compensation also retires its snapshot.
Refused ==
    /\ At("refused")
    /\ todo' = IF pending = None /\ rolled THEN <<"clean">> ELSE <<>>
    /\ UNCHANGED <<disk, snap, queue, unit, capture, rolled, faults, orig>>

ReRaise ==
    /\ At("raise")
    /\ Raise
    /\ UNCHANGED <<disk, snap, queue, unit, capture, rolled, faults, orig>>

Publisher ==
    \/ Capture \/ CopyEnd \/ SnapRestore \/ StageOpen \/ StageEnd \/ MoveEnd
    \/ UnstageEnd \/ Clean \/ CleanBegin \/ WipeEnd
    \/ Stop \/ Start \/ Ready \/ Restore \/ Restart \/ Ensure \/ StartCommit
    \/ Unstartup \/ FinishRetirement \/ ReconcileStartup \/ ReconcileOwner
    \/ Recover \/ Unpublish \/ TxClean \/ Settle \/ Retire \/ Publish \/ Commit \/ Apply
    \/ PassTry \/ Refused \/ ReRaise
    \/ \E e \in Entries :
          \/ CopyCreate(e) \/ CopyClaim(e) \/ CopyData(e) \/ RemoveLive(e)
          \/ StageCreate(e) \/ StageClaim(e) \/ StageData(e) \/ Move(e)
          \/ UnstageEntry(e) \/ WipeEntry(e)

-----------------------------------------------------------------------------
(* The sender process and systemd. *)

\* A running sender appends to its queue and drains it.
Work(e, c) ==
    /\ unit.state = "on"
    /\ queue[e] # c
    /\ queue' = [queue EXCEPT ![e] = c]
    /\ UNCHANGED <<disk, snap, unit, todo, capture, rolled, faults, orig>>

\* A start at boot or by Restart=on-failure, admitted or refused by the guard;
\* a refused one is tried again and leaves Result=exit-code.
AutoStart ==
    /\ unit.state = "auto" /\ sel # Gone
    /\ unit' = IF Admits THEN [state |-> "on", ok |-> TRUE]
               ELSE [state |-> "auto", ok |-> FALSE]
    /\ UNCHANGED <<disk, snap, queue, todo, capture, rolled, faults, orig>>

Fault(kind) == May(kind) /\ faults' = faults + 1

SenderCrash ==
    /\ Fault("crash")
    /\ unit.state = "on"
    /\ unit' = [state |-> "auto", ok |-> FALSE]
    /\ UNCHANGED <<disk, snap, queue, todo, capture, rolled, orig>>

OperatorStop ==
    /\ Fault("stop")
    /\ unit.state = "on" /\ todo = <<>>
    /\ unit' = [state |-> "off", ok |-> TRUE]
    /\ UNCHANGED <<disk, snap, queue, todo, capture, rolled, orig>>

PublisherKilled ==
    /\ Fault("kill")
    /\ todo # <<>>
    /\ todo' = <<>> /\ want' = None /\ capture' = FALSE /\ rolled' = FALSE
    /\ UNCHANGED <<sel, accepted, pending, startup, snap, queue, unit, orig>>

HostReboot ==
    /\ Fault("reboot")
    /\ todo' = <<>> /\ want' = None /\ capture' = FALSE /\ rolled' = FALSE
    /\ unit' = [state |-> IF sel = Gone THEN "off" ELSE "auto", ok |-> TRUE]
    /\ UNCHANGED <<sel, accepted, pending, startup, snap, queue, orig>>

Next ==
    \/ Publisher
    \/ RunRecover \/ RunRetire \/ \E v \in Versions : RunApply(v)
    \/ \E e \in Entries, c \in Contents \cup {None} : Work(e, c)
    \/ AutoStart \/ SenderCrash \/ OperatorStop \/ PublisherKilled \/ HostReboot

Spec == Init /\ [][Next]_vars

-----------------------------------------------------------------------------
(* From the first byte copied until the samples are given back or the      *)
(* candidate is accepted, the queue the old sender left is either still    *)
(* live, untouched, or held complete by a retained snapshot, whatever the  *)
(* candidate wrote and wherever the publisher died.                        *)
Recoverable ==
    orig # None =>
        \/ queue = orig
        \/ saved # None /\ saved.phase = "retained" /\ backup = orig

(* A snapshot is called restored or aborted only when the live queue is,   *)
(* entry for entry, the one that was captured.                             *)
RestoredExactly ==
    (orig # None /\ orig' = None /\ accepted' = accepted /\ startup' = startup)
       => queue' = orig

(* "Empty the candidate first; backup + restore never form three copies":  *)
(* while the publisher stages or renames the retained copy, no entry is    *)
(* held in the live queue, the stage and the backup at once.               *)
AtMostTwoCopies ==
    At("stage") \/ At("move") =>
        \A e \in Entries : ~(/\ queue[e] \in Contents /\ stage[e] \in Contents
                             /\ backup[e] \in Contents)

(* The publisher empties a live queue only to undo a selection or a        *)
(* startup that was not committed: samples an accepted sender queued are   *)
(* never rolled back.                                                      *)
RewindsOnlyUncommitted ==
    At("empty") => \/ pending # None /\ ~Committed
                   \/ startup # None /\ ~startup.committed

(* What an interrupted publisher left for the role's retries to end: an    *)
(* intent, a startup record or a snapshot.                                 *)
Unfinished == pending # None \/ startup # None \/ saved # None

=============================================================================
