---------------------------- MODULE BuildReceipt ----------------------------
(***************************************************************************)
(* Publication of a source build by runtime_build_receipt.py: the outputs  *)
(* of one project, their receipt and the write-ahead journal.  A file is   *)
(* its inode: 0 is no file, i is the file that transaction i built, and    *)
(* Foreign one that nobody built.  Removal goes through a second name (the *)
(* quarantine), so a name is held as "name", "both", "tomb" or "none".     *)
(* The project lock admits one convergence at a time.                      *)
(***************************************************************************)
EXTENDS Naturals

CONSTANTS Outs,         \* number of outputs, published in this order
          Srcs,         \* source revisions (positive numbers)
          MaxTx,        \* bound: transactions
          MaxFaults,    \* bound: kills and failed system calls
          MaxChanges,   \* bound: requests for another revision, edits of an output
          Reproducible, \* whether two builds of a revision are the same bytes
          KillEarly,    \* whether a kill may fall before the journal exists
          Drifts        \* whether an output may be edited or removed

VARIABLES live,     \* installed outputs
          tmp, bak, roll,  \* the transaction's names beside each output
          jn,       \* names of the journal that exist
          tx,       \* the transaction that is open: the journal's content
          receipt,
          lost,     \* inodes that a lost backup name still links
          made,     \* source revision of each inode
          want,     \* the requested revision
          run,      \* the convergence that holds the lock
          ids, faults, changes
vars == <<live, tmp, bak, roll, jn, tx, receipt, lost, made, want, run, ids, faults, changes>>

Out == 1..Outs
Foreign == MaxTx + 1
Ino == 0..Foreign
Hold == {"none", "name", "both", "tomb"}
NoReceipt == [src |-> 0, ino |-> 0]
Nothing == [o \in Out |-> "none"]
NoTx == [id |-> 0, before |-> [o \in Out |-> 0], prev |-> NoReceipt, next |-> NoReceipt]
Idle == [pc |-> "idle", src |-> 0, i |-> 0, outcome |-> "none", result |-> "none"]
Receipts == [src : {0} \cup Srcs, ino : 0..MaxTx]
\* The fields of a journal: a file identity is an inode.
Journals == [id : 0..MaxTx, before : [Out -> Ino], prev : Receipts, next : Receipts]

TypeOK ==
    /\ live \in [Out -> Ino]
    /\ tmp \in [Out -> Hold] /\ bak \in [Out -> Hold] /\ roll \in [Out -> Hold]
    /\ jn \subseteq {"new", "newtomb", "canon", "tomb"}
    /\ tx \in Journals
    /\ receipt \in Receipts
    /\ lost \in [Out -> SUBSET Ino] /\ made \in [1..MaxTx -> {0} \cup Srcs] /\ want \in Srcs
    /\ run \in [pc : {"idle", "entry", "cleanup", "rollback", "journal", "inspect", "build",
                      "prepare", "backup", "write", "link", "unlink", "publish", "receipt",
                      "discard"},
                src : {0} \cup Srcs, i : 0..(Outs + 1),
                outcome : {"none", "committed", "precommit"},
                result : {"none", "changed", "pending", "current", "failed"}]
    /\ ids \in 0..MaxTx /\ faults \in 0..MaxFaults /\ changes \in 0..MaxChanges
    /\ jn \cap {"canon", "tomb"} # {} => tx.id # 0

Init ==
    /\ live = [o \in Out |-> 0] /\ tmp = Nothing /\ bak = Nothing /\ roll = Nothing
    /\ jn = {} /\ tx = NoTx /\ receipt = NoReceipt
    /\ lost = [o \in Out |-> {}] /\ made = [i \in 1..MaxTx |-> 0]
    /\ want \in Srcs /\ run = Idle
    /\ ids = 0 /\ faults = 0 /\ changes = 0

(***************************************************************************)
(* Identities                                                              *)
(***************************************************************************)
Fault == faults < MaxFaults /\ faults' = faults + 1
At(pc) == run.pc = pc
Go(pc, i) == run' = [run EXCEPT !.pc = pc, !.i = i]
End(result) == run' = [Idle EXCEPT !.result = result, !.src = run.src, !.outcome = run.outcome]
Files == <<live, tmp, bak, roll>>
Ledger == <<tx, receipt, lost, made, ids>>
Env == <<want, changes>>

\* Equality of receipts and of an output with the receipt goes by the digests.
Same(a, b) == a.src = b.src /\ (Reproducible \/ a.ino = b.ino)
Digest(o) ==
    /\ live[o] \in 1..MaxTx
    /\ made[live[o]] = receipt.src
    /\ Reproducible \/ live[o] = receipt.ino
\* _open_output_at(): another name of the inode makes the output unsafe.
Linked(o) == live[o] \in lost[o]

\* _transaction_entry(): the journal, under either of its names.
Entry == jn \cap {"canon", "tomb"} # {}

(***************************************************************************)
(* _quarantine_remove(): link a second name, drop the first, drop the      *)
(* second.  A later call takes over at the name it finds.                  *)
(***************************************************************************)
Step(h) == CASE h = "name" -> "both" [] h = "both" -> "tomb" [] OTHER -> "none"
Held(o) == bak[o] # "none" \/ tmp[o] # "none" \/ roll[o] # "none"

\* Backup, then temporary file, then the node a rollback left.
Remove(o) ==
    /\ IF bak[o] # "none" THEN bak' = [bak EXCEPT ![o] = Step(@)] /\ UNCHANGED <<tmp, roll>>
       ELSE IF tmp[o] # "none" THEN tmp' = [tmp EXCEPT ![o] = Step(@)] /\ UNCHANGED <<bak, roll>>
       ELSE roll' = [roll EXCEPT ![o] = Step(@)] /\ UNCHANGED <<tmp, bak>>
    /\ UNCHANGED live

(***************************************************************************)
(* _reconcile_transaction_locked()                                         *)
(***************************************************************************)
\* _preflight_committed_output(), _preflight_precommit_output()
Committed(o) == live[o] = tx.id /\ roll[o] \notin {"name", "both"}
Named(h) == h \in {"name", "both"}
Precommit(o) ==
    \/ live[o] = tx.before[o]
    \/ live[o] = tx.id /\ (tx.before[o] = 0 \/ Named(bak[o]))
    \/ live[o] = 0 /\ Named(roll[o]) /\ Named(bak[o])

RemoveNew ==
    /\ At("entry") /\ Entry /\ "new" \in jn
    /\ jn' = IF "newtomb" \in jn THEN jn \ {"new"} ELSE jn \cup {"newtomb"}
    /\ UNCHANGED <<Files, Ledger, Env, run, faults>>

\* The receipt tells whether the transaction committed.
Classify ==
    /\ At("entry") /\ "new" \notin jn
    /\ IF ~Entry THEN run' = [run EXCEPT !.pc = "inspect"]
       ELSE IF Same(receipt, tx.next)
         THEN IF \A o \in Out : Committed(o)
                THEN run' = [run EXCEPT !.pc = "cleanup", !.outcome = "committed"]
                ELSE End("failed")
       ELSE IF Same(receipt, tx.prev)
         THEN IF \A o \in Out : Precommit(o)
                THEN run' = [run EXCEPT !.pc = "rollback", !.outcome = "precommit"]
                ELSE End("failed")
       ELSE End("failed")
    /\ UNCHANGED <<Files, Ledger, Env, jn, faults>>

Cleanup ==
    /\ At("cleanup")
    /\ \/ /\ \E o \in Out : Held(o) /\ (\A p \in 1..(o - 1) : ~Held(p)) /\ Remove(o)
          /\ UNCHANGED run
       \/ /\ \A o \in Out : ~Held(o)
          /\ Go("journal", run.i) /\ UNCHANGED Files
    /\ UNCHANGED <<Ledger, Env, jn, faults>>

\* _rollback_output(), from the last output to the first.
Undone(o) == live[o] = tx.before[o] /\ ~Held(o)
RollbackOne(o) ==
    IF live[o] = tx.id
      THEN /\ live' = [live EXCEPT ![o] = 0] /\ roll' = [roll EXCEPT ![o] = "name"]
           /\ UNCHANGED <<tmp, bak>>
    ELSE IF live[o] # tx.before[o]
      THEN live' = [live EXCEPT ![o] = tx.before[o]] /\ UNCHANGED <<tmp, bak, roll>>
    ELSE Remove(o)
Rollback ==
    /\ At("rollback")
    /\ \/ /\ \E o \in Out : ~Undone(o) /\ (\A p \in (o + 1)..Outs : Undone(p)) /\ RollbackOne(o)
          /\ UNCHANGED run
       \/ /\ \A o \in Out : Undone(o)
          /\ Go("journal", run.i) /\ UNCHANGED Files
    /\ UNCHANGED <<Ledger, Env, jn, faults>>

\* _remove_transaction_journal(), and what the recovery means for this request.
RemoveJournal ==
    /\ At("journal") /\ Entry
    /\ jn' = CASE jn \cap {"canon", "tomb"} = {"canon"} -> jn \cup {"tomb"}
               [] jn \cap {"canon", "tomb"} = {"canon", "tomb"} -> jn \ {"canon"}
               [] OTHER -> jn \ {"tomb"}
    /\ UNCHANGED <<Files, Ledger, Env, run, faults>>

\* A convergence that began by recovering goes on unless its own revision was committed;
\* one that recovers its own transaction ends.
Own == run.i = 1
Recovered ==
    /\ At("journal") /\ ~Entry
    /\ jn' = {} /\ tx' = NoTx
    /\ IF run.outcome = "committed" /\ (Own \/ tx.next.src = run.src) THEN End("changed")
       ELSE IF Own THEN End("failed")
       ELSE Go("inspect", 0)
    /\ UNCHANGED <<Files, receipt, lost, made, ids, Env, faults>>

(***************************************************************************)
(* converge()                                                              *)
(***************************************************************************)
Converge ==
    /\ At("idle")
    /\ run' = [Idle EXCEPT !.pc = "entry", !.src = want]
    /\ UNCHANGED <<Files, Ledger, Env, jn, faults>>

\* inspect(): revision, then each output in turn.
Missing == \E o \in Out : live[o] = 0 /\ \A p \in 1..(o - 1) : live[p] # 0 /\ ~Linked(p)
Unsafe == \E o \in Out : Linked(o) /\ \A p \in 1..(o - 1) : live[p] # 0
Inspect ==
    /\ At("inspect")
    /\ IF receipt.src # run.src \/ Missing THEN Go("build", 0)
       ELSE IF Unsafe THEN End("failed")
       ELSE IF \A o \in Out : Digest(o) THEN End("current")
       ELSE Go("build", 0)
    /\ UNCHANGED <<Files, Ledger, Env, jn, faults>>

\* The build steps (see BuildGuardian); their outputs are staged.
Build ==
    /\ At("build") /\ ids < MaxTx
    /\ ids' = ids + 1
    /\ made' = [made EXCEPT ![ids'] = run.src]
    /\ tx' = [id |-> ids', before |-> live, prev |-> receipt,
              next |-> [src |-> run.src, ino |-> ids']]
    /\ Go("prepare", 1)
    /\ UNCHANGED <<Files, receipt, lost, Env, jn, faults>>

Prepare ==
    /\ At("prepare")
    /\ tmp' = [tmp EXCEPT ![run.i] = "name"]
    /\ IF run.i = Outs THEN Go("backup", 1) ELSE Go("prepare", run.i + 1)
    /\ UNCHANGED <<live, bak, roll, Ledger, Env, jn, faults>>

Backup ==
    /\ At("backup")
    /\ bak' = IF tx.before[run.i] = 0 THEN bak ELSE [bak EXCEPT ![run.i] = "name"]
    /\ IF run.i = Outs THEN Go("write", 0) ELSE Go("backup", run.i + 1)
    /\ UNCHANGED <<live, tmp, roll, Ledger, Env, jn, faults>>

\* _write_transaction_journal(): a complete file, its canonical name, then one name.
WriteJournal ==
    /\ At("write")
    /\ jn' = {"new"} /\ Go("link", 0)
    /\ UNCHANGED <<Files, Ledger, Env, faults>>
LinkJournal ==
    /\ At("link")
    /\ jn' = jn \cup {"canon"} /\ Go("unlink", 0)
    /\ UNCHANGED <<Files, Ledger, Env, faults>>
UnlinkNew ==
    /\ At("unlink")
    /\ jn' = CASE "new" \in jn /\ "newtomb" \notin jn -> jn \cup {"newtomb"}
               [] "new" \in jn -> jn \ {"new"}
               [] OTHER -> jn \ {"newtomb"}
    /\ IF jn' = {"canon"} THEN Go("publish", 1) ELSE UNCHANGED run
    /\ UNCHANGED <<Files, Ledger, Env, faults>>

\* _publish_outputs()
Publish ==
    /\ At("publish")
    /\ live' = [live EXCEPT ![run.i] = tx.id] /\ tmp' = [tmp EXCEPT ![run.i] = "none"]
    /\ IF run.i = Outs THEN Go("receipt", 0) ELSE Go("publish", run.i + 1)
    /\ UNCHANGED <<bak, roll, Ledger, Env, jn, faults>>

\* The receipt commits; the transaction is then reconciled like any other.
WriteReceipt ==
    /\ At("receipt")
    /\ receipt' = tx.next
    /\ Go("entry", 1)
    /\ UNCHANGED <<Files, tx, lost, made, ids, Env, jn, faults>>

\* _discard_publications(): no journal was published; of every output the temporary file
\* goes before the backup.
Withdraw(o) ==
    /\ IF tmp[o] # "none" THEN tmp' = [tmp EXCEPT ![o] = Step(@)] /\ UNCHANGED bak
       ELSE bak' = [bak EXCEPT ![o] = Step(@)] /\ UNCHANGED tmp
    /\ UNCHANGED <<live, roll>>
Discard ==
    /\ At("discard")
    /\ \/ /\ \E o \in Out : Held(o) /\ (\A p \in 1..(o - 1) : ~Held(p)) /\ Withdraw(o)
          /\ UNCHANGED <<run, tx>>
       \/ /\ \A o \in Out : ~Held(o)
          /\ End("failed") /\ tx' = NoTx /\ UNCHANGED Files
    /\ UNCHANGED <<receipt, lost, made, ids, Env, jn, faults>>

(***************************************************************************)
(* Failures                                                                *)
(***************************************************************************)
\* An error or an interrupt in converge().
Fails ==
    /\ Fault
    /\ \/ /\ run.pc \in {"build", "inspect"} /\ End("failed") /\ UNCHANGED jn
       \/ /\ run.pc \in {"prepare", "backup", "write", "link"} /\ Go("discard", 0)
          /\ jn' = {}
       \/ /\ run.pc \in {"unlink", "publish", "receipt"} /\ Go("entry", 1) /\ UNCHANGED jn
    /\ UNCHANGED <<Files, Ledger, Env>>

\* An error in the reconciliation: after the commit the result is still a success, with
\* the cleanup pending while a journal is there; before it the journal stays.
ReconcileFails ==
    /\ Fault /\ run.pc \in {"entry", "cleanup", "rollback", "journal"} /\ Entry
    /\ IF run.outcome = "committed" /\ (Own \/ tx.next.src = run.src)
         THEN End("pending") ELSE End("failed")
    /\ UNCHANGED <<Files, Ledger, Env, jn>>

\* A kill.  Without a journal nobody finds the names of the transaction again.
Kill ==
    /\ ~At("idle") /\ Fault
    /\ Entry \/ KillEarly
    /\ run' = Idle
    /\ IF Entry THEN UNCHANGED <<tmp, bak, roll, tx, lost, jn>>
       ELSE /\ tmp' = Nothing /\ bak' = Nothing /\ roll' = Nothing /\ tx' = NoTx /\ jn' = {}
            /\ lost' = [o \in Out |-> IF bak[o] = "none" THEN lost[o]
                                      ELSE lost[o] \cup {tx.before[o]}]
    /\ UNCHANGED <<live, receipt, made, ids, Env>>

(***************************************************************************)
(* Environment                                                             *)
(***************************************************************************)
Request ==
    /\ At("idle") /\ changes < MaxChanges
    /\ \E s \in Srcs \ {want} : want' = s
    /\ changes' = changes + 1
    /\ run' = Idle
    /\ UNCHANGED <<Files, Ledger, jn, faults>>

\* Somebody edits or removes an output while no transaction is open.
Drift ==
    /\ Drifts /\ At("idle") /\ ~Entry /\ changes < MaxChanges
    /\ \E o \in Out, i \in {0, Foreign} : live[o] # i /\ live' = [live EXCEPT ![o] = i]
    /\ changes' = changes + 1
    /\ run' = Idle
    /\ UNCHANGED <<tmp, bak, roll, Ledger, jn, want, faults>>

Work ==
    \/ RemoveNew \/ Classify \/ Cleanup \/ Rollback \/ RemoveJournal \/ Recovered
    \/ Inspect \/ Build \/ Prepare \/ Backup \/ WriteJournal \/ LinkJournal \/ UnlinkNew
    \/ Publish \/ WriteReceipt \/ Discard
Next == Converge \/ Work \/ Fails \/ ReconcileFails \/ Kill \/ Request \/ Drift

Spec == Init /\ [][Next]_vars

(***************************************************************************)
(* Properties                                                              *)
(***************************************************************************)

\* Without an open journal the installed outputs are all those of the receipt, whatever was
\* killed or failed before; an output somebody edited is the only exception.
Settled ==
    (At("idle") /\ ~Entry) =>
        \A o \in Out : live[o] \in {0, Foreign} \/ Digest(o)

\* A transaction is atomic: the journal goes only when every output is the new one, or
\* every output is the very file it was before.
AllOrNothing ==
    (At("journal") /\ tx.id # 0) =>
        \/ run.outcome = "committed" /\ \A o \in Out : live[o] = tx.id
        \/ run.outcome = "precommit" /\ live = tx.before

\* A convergence that reports success has installed the revision it was asked for, and its
\* receipt says so.
ReportsTruth ==
    (At("idle") /\ run.result \in {"changed", "current", "pending"}) =>
        receipt.src = run.src /\ \A o \in Out : Digest(o)

=============================================================================
