---------------------------- MODULE TailnetGuest ----------------------------
(***************************************************************************)
(* The guest side of the Tailnet promotion: the durable transaction of     *)
(* scripts/tailnet-network-guest.py over the nftables fragment with the    *)
(* Tailnet SSH source sets, the recover timer and the boot-recover unit    *)
(* that nftables.service requires.                                         *)
(*                                                                         *)
(* A call holds transaction.lock from its first check to its last save, so *)
(* at most one runs (op); the others answer busy.  Each save, publication  *)
(* and reload is a step, and the helper may be killed, or the machine      *)
(* rebooted, between any two.  A save is a temporary file renamed over     *)
(* transaction.json; a kill in between leaves the temporary file.          *)
(***************************************************************************)
EXTENDS Naturals

CONSTANTS
    Fragments,  \* the canonical fragments controllers send
    Base,       \* the one a node starts with
    Foreign,    \* a fragment someone else wrote
    Unloaded,   \* no ruleset is loaded: nftables did not start
    MaxGen,     \* transactions prepared
    MaxFaults   \* failed steps, killed helpers, reboots and foreign edits

GuestAssumption ==
    /\ Base \in Fragments /\ {Foreign, Unloaded} \cap Fragments = {} /\ Foreign # Unloaded
    /\ MaxGen \in Nat \ {0} /\ MaxFaults \in Nat

VARIABLES
    txn,      \* transaction.json: status, generation and plan
    debris,   \* a temporary file is left in the state directory
    file,     \* the fragment on disk
    nft,      \* the fragment the loaded ruleset was read from
    op,       \* the call that holds the lock and its next step
    late,     \* generations that have expired (deadline, or another boot)
    booting,  \* the machine boots: boot-recover runs before nftables
    faults

vars == <<txn, debris, file, nft, op, late, booting, faults>>

NoTxn == [st |-> "idle", gen |-> 0, before |-> Base, after |-> Base]
NoOp  == [kind |-> "none", step |-> "none"]
Op(kind, step) == [kind |-> kind, step |-> step]

TERMINAL == {"idle", "committed", "rolled_back"}
Undecided == {"applying", "rolling_back", "recovery_failed"}

TypeOK ==
    /\ txn \in [st : TERMINAL \cup Undecided \cup {"prepared", "applied"}, gen : 0 .. MaxGen,
               before : Fragments, after : Fragments]
    /\ debris \in BOOLEAN
    /\ file \in Fragments \cup {Foreign}
    /\ nft \in Fragments \cup {Foreign, Unloaded}
    /\ op \in [kind : {"none", "prepare", "apply", "confirm", "rollback", "boot"},
               step : {"none", "mark", "publish", "check", "reload", "verify", "seal", "fail"}]
    /\ late \subseteq 1 .. MaxGen
    /\ booting \in BOOLEAN
    /\ faults \in 0 .. MaxFaults

Init ==
    /\ txn = NoTxn
    /\ debris = FALSE
    /\ file = Base /\ nft = Base
    /\ op = NoOp
    /\ late = {} /\ booting = FALSE
    /\ faults = 0

Fault == faults < MaxFaults /\ faults' = faults + 1

-----------------------------------------------------------------------------
(* Loading the transaction and starting a call.                            *)

\* _load: without a transaction, any file but the lock means state-orphaned.
Loads == txn.st = "idle" => ~debris

Starts(o) ==
    /\ op = NoOp /\ Loads
    /\ op' = o
    /\ UNCHANGED <<txn, debris, file, nft, late, booting, faults>>

\* prepare refuses a pending transaction and a fragment that is not canonical;
\* an unchanged fragment is answered without a transaction.
prepare ==
    /\ ~booting
    /\ txn.st \in TERMINAL /\ txn.gen < MaxGen
    /\ file \in Fragments
    /\ Starts(Op("prepare", "seal"))

\* apply and confirm check the identity, the deadline and the fragment.
apply ==
    /\ ~booting
    /\ txn.st = "prepared" /\ txn.gen \notin late /\ file = txn.before
    /\ Starts(Op("apply", "mark"))

confirm ==
    /\ ~booting
    /\ txn.st = "applied" /\ txn.gen \notin late /\ file = txn.after
    /\ nft = txn.after
    /\ Starts(Op("confirm", "seal"))

\* _rollback starts with a fragment that is one of the two, or ends at once.
Rollback(kind) == Op(kind, IF file \in {txn.before, txn.after} THEN "mark" ELSE "fail")

rollback ==
    /\ ~booting
    /\ txn.st \notin TERMINAL
    /\ Starts(Rollback("rollback"))

recover ==
    /\ ~booting
    /\ txn.st \in Undecided \/ (txn.st \in {"prepared", "applied"} /\ txn.gen \in late)
    /\ Starts(Rollback("rollback"))

boot_recover ==
    /\ booting
    /\ txn.st \notin TERMINAL
    /\ Starts(Rollback("boot"))

-----------------------------------------------------------------------------
(* The steps of a call.                                                    *)

After(kind, step) ==
    CASE step = "mark"    -> "publish"
      [] step = "publish" -> "check"
      [] step = "check"   -> IF kind = "boot" THEN "seal" ELSE "reload"
      [] step = "reload"  -> "verify"
      [] step = "verify"  -> "seal"

Advances == op' = [op EXCEPT !.step = After(op.kind, op.step)]

\* apply undoes itself; a rollback that fails says so.
Fails == op' = IF op.kind = "apply" THEN Rollback("rollback") ELSE [op EXCEPT !.step = "fail"]

Mark ==
    /\ op.step = "mark"
    /\ txn' = [txn EXCEPT !.st = IF op.kind = "apply" THEN "applying" ELSE "rolling_back"]
    /\ Advances
    /\ UNCHANGED <<debris, file, nft, late, booting, faults>>

Publish ==
    /\ op.step = "publish"
    /\ \/ file' = (IF op.kind = "apply" THEN txn.after ELSE txn.before) /\ Advances /\ UNCHANGED faults
       \/ Fails /\ Fault /\ UNCHANGED file
    /\ UNCHANGED <<txn, debris, nft, late, booting>>

\* nft -c, and for apply the deadline once more.
Check ==
    /\ op.step = "check"
    /\ \/ ~(op.kind = "apply" /\ txn.gen \in late) /\ Advances /\ UNCHANGED faults
       \/ op.kind = "apply" /\ txn.gen \in late /\ Fails /\ UNCHANGED faults
       \/ Fails /\ Fault
    /\ UNCHANGED <<txn, debris, file, nft, late, booting>>

\* systemctl reload nftables: impossible when the service did not start.
Reload ==
    /\ op.step = "reload"
    /\ \/ nft # Unloaded /\ nft' = file /\ Advances /\ UNCHANGED faults
       \/ nft = Unloaded /\ Fails /\ UNCHANGED <<nft, faults>>
       \/ Fails /\ Fault /\ UNCHANGED nft
    /\ UNCHANGED <<txn, debris, file, late, booting>>

\* The sets are read back and the resolver, route and sshd fences compared.
Verify ==
    /\ op.step = "verify"
    /\ \/ Advances /\ UNCHANGED faults
       \/ Fails /\ Fault
    /\ UNCHANGED <<txn, debris, file, nft, late, booting>>

Sealed == [apply |-> "applied", confirm |-> "committed",
           rollback |-> "rolled_back", boot |-> "rolled_back"]

Seal ==
    /\ op.step = "seal"
    /\ \/ op.kind # "prepare" /\ txn' = [txn EXCEPT !.st = Sealed[op.kind]]
       \/ op.kind = "prepare" /\ \E candidate \in Fragments \ {file} :
             txn' = [st |-> "prepared", gen |-> txn.gen + 1, before |-> file, after |-> candidate]
    /\ op' = NoOp
    /\ UNCHANGED <<debris, file, nft, late, booting, faults>>

\* A save that fails ends the call, or, inside the two try blocks, undoes it.
SaveFails ==
    /\ op.step \in {"mark", "seal"} /\ Fault
    /\ IF op.kind \in {"rollback", "boot"} \/ op = Op("apply", "seal") THEN Fails ELSE op' = NoOp
    /\ UNCHANGED <<txn, debris, file, nft, late, booting>>

\* recovery_failed; a boot-recover that fails keeps nftables from starting.
Fail ==
    /\ op.step = "fail"
    /\ txn' = [txn EXCEPT !.st = "recovery_failed"]
    /\ op' = NoOp
    /\ booting' = FALSE
    /\ UNCHANGED <<debris, file, nft, late, faults>>

\* nftables.service, once boot-recover has nothing to do; when the transaction
\* does not load, boot-recover fails and so does the service.
LoadRules ==
    /\ booting /\ op = NoOp
    /\ txn.st \in TERMINAL
    /\ nft' = IF Loads THEN file ELSE nft
    /\ booting' = FALSE
    /\ UNCHANGED <<txn, debris, file, op, late, faults>>

-----------------------------------------------------------------------------
(* The world around the call.                                              *)

Expires ==
    /\ txn.gen > 0 /\ txn.gen \notin late
    /\ late' = late \cup {txn.gen}
    /\ UNCHANGED <<txn, debris, file, nft, op, booting, faults>>

Torn == op.step \in {"mark", "seal", "fail"}

\* A helper that dies at boot fails its unit.
Killed ==
    /\ op # NoOp /\ Fault
    /\ op' = NoOp /\ booting' = FALSE
    /\ debris' \in (IF Torn THEN {debris, TRUE} ELSE {debris})
    /\ UNCHANGED <<txn, file, nft, late>>

Reboot ==
    /\ Fault
    /\ op' = NoOp /\ booting' = TRUE /\ nft' = Unloaded
    /\ debris' \in (IF Torn THEN {debris, TRUE} ELSE {debris})
    /\ late' = late \cup ({txn.gen} \ {0})
    /\ UNCHANGED <<txn, file>>

\* Between two calls somebody else writes the fragment.
ForeignEdit ==
    /\ op = NoOp /\ Fault
    /\ file # Foreign /\ file' = Foreign
    /\ UNCHANGED <<txn, debris, nft, op, late, booting>>

Calls == prepare \/ apply \/ confirm \/ rollback \/ recover \/ boot_recover

Steps == Mark \/ Publish \/ Check \/ Reload \/ Verify \/ Seal \/ Fail

Next == Calls \/ Steps \/ SaveFails \/ LoadRules \/ Expires \/ Killed \/ Reboot \/ ForeignEdit

Spec == Init /\ [][Next]_vars

-----------------------------------------------------------------------------
(* Properties.                                                             *)

\* A decision holds in the kernel too: once a transaction is rolled back its
\* candidate is not loaded, and once it is committed the old sets are not,
\* wherever a helper was killed or the machine rebooted.
Settled ==
    op = NoOp /\ ~booting =>
        /\ txn.st = "rolled_back" => nft # txn.after
        /\ txn.st = "committed" => nft # txn.before

\* A boot never loads a candidate nobody confirmed: boot-recover restores the
\* fragment before nftables reads it, or nftables does not start.
BootsConfirmedOnly ==
    booting /\ ~booting' /\ txn.gen > 0 /\ nft' = txn.after => txn.st = "committed"

\* What somebody else wrote into the fragment is never overwritten by the way
\* back of a transaction that did not expect it (_graph "mixed").
ForeignKept == file = Foreign => file' = Foreign

\* The promise the controller builds on.  A running apply has not happened yet,
\* saved work without an end is unfinished, and a deadline that passes while an
\* apply or a confirm runs, past its check, counts from the end of the call.
P == INSTANCE GuestPromise WITH
         guest <- [st |-> IF op.kind = "apply" THEN "prepared"
                          ELSE IF txn.st \in Undecided THEN "unfinished" ELSE txn.st,
                   gen |-> txn.gen],
         glate <- IF op.kind \in {"apply", "confirm"} THEN late \ {txn.gen} ELSE late

\* The transaction with all its steps, kills and reboots implements the promise.
KeepsPromise == P!PromiseSpec
PromiseStart == P!PromiseInit
PromiseStep == P!PromiseNext

-----------------------------------------------------------------------------
(* Fairness: a running call goes on, the recover timer and the boot units  *)
(* run, and deadlines pass.                                                *)

=============================================================================
