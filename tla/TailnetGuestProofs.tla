------------------------- MODULE TailnetGuestProofs -------------------------
(***************************************************************************)
(* Safety of the guest transaction of the Tailnet firewall for any set of  *)
(* fragments and any number of generations, kills, reboots and edits, and  *)
(* that it implements GuestPromise, what the promotion builds on.          *)
(***************************************************************************)
EXTENDS TailnetGuest, TLAPS

-----------------------------------------------------------------------------
(* The inductive invariant                                                 *)

\* A call does what its kind may, in the order of its steps; only boot-recover
\* runs while the machine boots.
CallInv ==
  /\ op.kind = "none" => op = NoOp
  /\ op.kind \in {"prepare", "confirm"} => op.step = "seal"
  /\ op.kind = "apply" => op.step \in {"mark", "publish", "check", "reload", "verify", "seal"}
  /\ op.kind = "rollback" =>
       op.step \in {"mark", "publish", "check", "reload", "verify", "seal", "fail"}
  /\ op.kind = "boot" => op.step \in {"mark", "publish", "check", "seal", "fail"}
  /\ op.kind = "boot" => booting
  /\ op.kind \in {"prepare", "apply", "confirm", "rollback"} => ~ booting

\* What transaction.json says while a call works on it.
JournalInv ==
  /\ txn.st = "idle" => txn.gen = 0
  /\ txn.st # "idle" => txn.before # txn.after
  /\ op.kind = "prepare" => txn.st \in TERMINAL /\ txn.gen < MaxGen /\ file \in Fragments
  /\ op.kind = "apply" => txn.st = IF op.step = "mark" THEN "prepared" ELSE "applying"
  /\ op.kind = "confirm" => txn.st = "applied"
  /\ op.kind \in {"rollback", "boot"} =>
       /\ txn.st \notin TERMINAL
       /\ op.step \notin {"mark", "fail"} => txn.st = "rolling_back"

\* What the fragment and the loaded rules are while a call works on them.
FileInv ==
  /\ op.kind = "apply" => file = IF op.step \in {"mark", "publish"} THEN txn.before ELSE txn.after
  /\ op.kind = "confirm" => file = txn.after /\ nft = txn.after
  /\ op.kind \in {"rollback", "boot"} =>
       /\ op.step \in {"mark", "publish"} => file \in {txn.before, txn.after}
       /\ op.step \in {"check", "reload", "verify", "seal"} => file = txn.before
  /\ op = Op("apply", "verify") \/ op = Op("apply", "seal") => nft = txn.after
  /\ op = Op("rollback", "verify") \/ op = Op("rollback", "seal") => nft = txn.before
  /\ booting => nft = Unloaded

\* A decided transaction is what is on disk and in the kernel.
DecidedInv ==
  /\ txn.st = "rolled_back" => file # txn.after /\ nft # txn.after
  /\ txn.st = "committed" => file # txn.before /\ nft # txn.before

IInv == TypeOK /\ CallInv /\ JournalInv /\ FileInv /\ DecidedInv

-----------------------------------------------------------------------------
(* Every step keeps the invariant                                          *)

\* How a call goes on, and how it fails.
LEMMA Moves ==
    ASSUME TypeOK
    PROVE  /\ Advances => op' = [kind |-> op.kind, step |-> After(op.kind, op.step)]
           /\ Fails => op' = IF op.kind = "apply" THEN Rollback("rollback")
                             ELSE [kind |-> op.kind, step |-> "fail"]
BY DEF TypeOK, Advances, Fails

\* prepare opens on a decided transaction and a canonical fragment.
LEMMA PrepareStep ==
    ASSUME GuestAssumption, IInv, prepare PROVE IInv'
<1> USE DEF GuestAssumption, IInv, NoOp, Op, TERMINAL, Undecided
<1>1. TypeOK'
  BY DEF prepare, Starts, TypeOK, CallInv, JournalInv, FileInv, Fault
<1>2. CallInv'
  BY DEF prepare, Starts, TypeOK, CallInv, FileInv, JournalInv
<1>3. JournalInv'
  BY DEF prepare, Starts, TypeOK, CallInv, JournalInv, FileInv
<1>4. FileInv'
  BY DEF prepare, Starts, TypeOK, CallInv, JournalInv, FileInv
<1>5. DecidedInv'
  BY DEF prepare, Starts, TypeOK, CallInv, JournalInv, FileInv, DecidedInv
<1>6. QED
  BY <1>1, <1>2, <1>3, <1>4, <1>5

\* apply opens on a prepared transaction whose fragment is the old one.
LEMMA ApplyStep ==
    ASSUME GuestAssumption, IInv, apply PROVE IInv'
<1> USE DEF GuestAssumption, IInv, NoOp, Op, TERMINAL, Undecided
<1>1. TypeOK'
  BY DEF apply, Starts, TypeOK, CallInv, JournalInv, FileInv, Fault
<1>2. CallInv'
  BY DEF apply, Starts, TypeOK, CallInv, FileInv, JournalInv
<1>3. JournalInv'
  BY DEF apply, Starts, TypeOK, CallInv, JournalInv, FileInv
<1>4. FileInv'
  BY DEF apply, Starts, TypeOK, CallInv, JournalInv, FileInv
<1>5. DecidedInv'
  BY DEF apply, Starts, TypeOK, CallInv, JournalInv, FileInv, DecidedInv
<1>6. QED
  BY <1>1, <1>2, <1>3, <1>4, <1>5

\* confirm opens on an applied transaction that is loaded.
LEMMA ConfirmStep ==
    ASSUME GuestAssumption, IInv, confirm PROVE IInv'
<1> USE DEF GuestAssumption, IInv, NoOp, Op, TERMINAL, Undecided
<1>1. TypeOK'
  BY DEF confirm, Starts, TypeOK, CallInv, JournalInv, FileInv, Fault
<1>2. CallInv'
  BY DEF confirm, Starts, TypeOK, CallInv, FileInv, JournalInv
<1>3. JournalInv'
  BY DEF confirm, Starts, TypeOK, CallInv, JournalInv, FileInv
<1>4. FileInv'
  BY DEF confirm, Starts, TypeOK, CallInv, JournalInv, FileInv
<1>5. DecidedInv'
  BY DEF confirm, Starts, TypeOK, CallInv, JournalInv, FileInv, DecidedInv
<1>6. QED
  BY <1>1, <1>2, <1>3, <1>4, <1>5

\* rollback opens on an undecided transaction.
LEMMA RollbackStep ==
    ASSUME GuestAssumption, IInv, rollback PROVE IInv'
<1> USE DEF GuestAssumption, IInv, NoOp, Op, TERMINAL, Undecided
<1>1. TypeOK'
  BY DEF rollback, Starts, Rollback, TypeOK, CallInv, JournalInv, FileInv, Fault
<1>2. CallInv'
  BY DEF rollback, Starts, Rollback, TypeOK, CallInv, FileInv, JournalInv
<1>3. JournalInv'
  BY DEF rollback, Starts, Rollback, TypeOK, CallInv, JournalInv, FileInv
<1>4. FileInv'
  BY DEF rollback, Starts, Rollback, TypeOK, CallInv, JournalInv, FileInv
<1>5. DecidedInv'
  BY DEF rollback, Starts, Rollback, TypeOK, CallInv, JournalInv, FileInv, DecidedInv
<1>6. QED
  BY <1>1, <1>2, <1>3, <1>4, <1>5

\* The recover timer opens on unfinished or expired work.
LEMMA RecoverStep ==
    ASSUME GuestAssumption, IInv, recover PROVE IInv'
<1> USE DEF GuestAssumption, IInv, NoOp, Op, TERMINAL, Undecided
<1>1. TypeOK'
  BY DEF recover, Starts, Rollback, TypeOK, CallInv, JournalInv, FileInv, Fault
<1>2. CallInv'
  BY DEF recover, Starts, Rollback, TypeOK, CallInv, FileInv, JournalInv
<1>3. JournalInv'
  BY DEF recover, Starts, Rollback, TypeOK, CallInv, JournalInv, FileInv
<1>4. FileInv'
  BY DEF recover, Starts, Rollback, TypeOK, CallInv, JournalInv, FileInv
<1>5. DecidedInv'
  BY DEF recover, Starts, Rollback, TypeOK, CallInv, JournalInv, FileInv, DecidedInv
<1>6. QED
  BY <1>1, <1>2, <1>3, <1>4, <1>5

\* boot-recover opens before nftables has loaded anything.
LEMMA BootRecoverStep ==
    ASSUME GuestAssumption, IInv, boot_recover PROVE IInv'
<1> USE DEF GuestAssumption, IInv, NoOp, Op, TERMINAL, Undecided
<1>1. TypeOK'
  BY DEF boot_recover, Starts, Rollback, TypeOK, CallInv, JournalInv, FileInv, Fault
<1>2. CallInv'
  BY DEF boot_recover, Starts, Rollback, TypeOK, CallInv, FileInv, JournalInv
<1>3. JournalInv'
  BY DEF boot_recover, Starts, Rollback, TypeOK, CallInv, JournalInv, FileInv
<1>4. FileInv'
  BY DEF boot_recover, Starts, Rollback, TypeOK, CallInv, JournalInv, FileInv
<1>5. DecidedInv'
  BY DEF boot_recover, Starts, Rollback, TypeOK, CallInv, JournalInv, FileInv, DecidedInv
<1>6. QED
  BY <1>1, <1>2, <1>3, <1>4, <1>5

\* The status is saved before the fragment is touched.
LEMMA MarkStep ==
    ASSUME GuestAssumption, IInv, Mark PROVE IInv'
<1> USE DEF GuestAssumption, IInv, NoOp, Op, TERMINAL, Undecided
<1>1. TypeOK'
  BY Moves DEF Mark, After, Rollback, TypeOK, CallInv, JournalInv, FileInv, Fault
<1>2. CallInv'
  BY Moves DEF Mark, After, Rollback, TypeOK, CallInv, FileInv, JournalInv
<1>3. JournalInv'
  BY Moves DEF Mark, After, Rollback, TypeOK, CallInv, JournalInv, FileInv
<1>4. FileInv'
  BY Moves DEF Mark, After, Rollback, TypeOK, CallInv, JournalInv, FileInv
<1>5. DecidedInv'
  BY Moves DEF Mark, After, Rollback, TypeOK, CallInv, JournalInv, FileInv, DecidedInv
<1>6. QED
  BY <1>1, <1>2, <1>3, <1>4, <1>5

\* The fragment of the plan is published, or the call fails.
LEMMA PublishStep ==
    ASSUME GuestAssumption, IInv, Publish PROVE IInv'
<1> USE DEF GuestAssumption, IInv, NoOp, Op, TERMINAL, Undecided
<1>1. TypeOK'
  BY Moves DEF Publish, After, Rollback, TypeOK, CallInv, JournalInv, FileInv, Fault
<1>2. CallInv'
  BY Moves DEF Publish, After, Rollback, TypeOK, CallInv, FileInv, JournalInv
<1>3. JournalInv'
  BY Moves DEF Publish, After, Rollback, TypeOK, CallInv, JournalInv, FileInv
<1>4. FileInv'
  BY Moves DEF Publish, After, Rollback, TypeOK, CallInv, JournalInv, FileInv
<1>5. DecidedInv'
  BY Moves DEF Publish, After, Rollback, TypeOK, CallInv, JournalInv, FileInv, DecidedInv
<1>6. QED
  BY <1>1, <1>2, <1>3, <1>4, <1>5

\* nft -c lets the call go on, or the call fails.
LEMMA CheckStep ==
    ASSUME GuestAssumption, IInv, Check PROVE IInv'
<1> USE DEF GuestAssumption, IInv, NoOp, Op, TERMINAL, Undecided
<1>1. TypeOK'
  BY Moves DEF Check, After, Rollback, TypeOK, CallInv, JournalInv, FileInv, Fault
<1>2. CallInv'
  BY Moves DEF Check, After, Rollback, TypeOK, CallInv, FileInv, JournalInv
<1>3. JournalInv'
  BY Moves DEF Check, After, Rollback, TypeOK, CallInv, JournalInv, FileInv
<1>4. FileInv'
  BY Moves DEF Check, After, Rollback, TypeOK, CallInv, JournalInv, FileInv
<1>5. DecidedInv'
  BY Moves DEF Check, After, Rollback, TypeOK, CallInv, JournalInv, FileInv, DecidedInv
<1>6. QED
  BY <1>1, <1>2, <1>3, <1>4, <1>5

\* A reload loads what is on disk, or the call fails.
LEMMA ReloadStep ==
    ASSUME GuestAssumption, IInv, Reload PROVE IInv'
<1> USE DEF GuestAssumption, IInv, NoOp, Op, TERMINAL, Undecided
<1>1. TypeOK'
  BY Moves DEF Reload, After, Rollback, TypeOK, CallInv, JournalInv, FileInv, Fault
<1>2. CallInv'
  BY Moves DEF Reload, After, Rollback, TypeOK, CallInv, FileInv, JournalInv
<1>3. JournalInv'
  BY Moves DEF Reload, After, Rollback, TypeOK, CallInv, JournalInv, FileInv
<1>4. FileInv'
  BY Moves DEF Reload, After, Rollback, TypeOK, CallInv, JournalInv, FileInv
<1>5. DecidedInv'
  BY Moves DEF Reload, After, Rollback, TypeOK, CallInv, JournalInv, FileInv, DecidedInv
<1>6. QED
  BY <1>1, <1>2, <1>3, <1>4, <1>5

\* Reading back changes nothing.
LEMMA VerifyStep ==
    ASSUME GuestAssumption, IInv, Verify PROVE IInv'
<1> USE DEF GuestAssumption, IInv, NoOp, Op, TERMINAL, Undecided
<1>1. TypeOK'
  BY Moves DEF Verify, After, Rollback, TypeOK, CallInv, JournalInv, FileInv, Fault
<1>2. CallInv'
  BY Moves DEF Verify, After, Rollback, TypeOK, CallInv, FileInv, JournalInv
<1>3. JournalInv'
  BY Moves DEF Verify, After, Rollback, TypeOK, CallInv, JournalInv, FileInv
<1>4. FileInv'
  BY Moves DEF Verify, After, Rollback, TypeOK, CallInv, JournalInv, FileInv
<1>5. DecidedInv'
  BY Moves DEF Verify, After, Rollback, TypeOK, CallInv, JournalInv, FileInv, DecidedInv
<1>6. QED
  BY <1>1, <1>2, <1>3, <1>4, <1>5

\* The decision is saved last.
LEMMA SealStep ==
    ASSUME GuestAssumption, IInv, Seal PROVE IInv'
<1> USE DEF GuestAssumption, IInv, NoOp, Op, TERMINAL, Undecided
<1>1. TypeOK'
  BY DEF Seal, Sealed, TypeOK, CallInv, JournalInv, FileInv, Fault
<1>2. CallInv'
  BY DEF Seal, Sealed, TypeOK, CallInv, FileInv, JournalInv
<1>3. JournalInv'
  BY DEF Seal, Sealed, TypeOK, CallInv, JournalInv, FileInv
<1>4. FileInv'
  BY DEF Seal, Sealed, TypeOK, CallInv, JournalInv, FileInv
<1>5. DecidedInv'
  BY DEF Seal, Sealed, TypeOK, CallInv, JournalInv, FileInv, DecidedInv
<1>6. QED
  BY <1>1, <1>2, <1>3, <1>4, <1>5

\* A save that fails ends or undoes the call.
LEMMA SaveFailsStep ==
    ASSUME GuestAssumption, IInv, SaveFails PROVE IInv'
<1> USE DEF GuestAssumption, IInv, NoOp, Op, TERMINAL, Undecided
<1>1. TypeOK'
  BY Moves DEF SaveFails, Rollback, Fault, TypeOK, CallInv, JournalInv, FileInv
<1>2. CallInv'
  BY Moves DEF SaveFails, Rollback, Fault, TypeOK, CallInv, FileInv, JournalInv
<1>3. JournalInv'
  BY Moves DEF SaveFails, Rollback, Fault, TypeOK, CallInv, JournalInv, FileInv
<1>4. FileInv'
  BY Moves DEF SaveFails, Rollback, Fault, TypeOK, CallInv, JournalInv, FileInv
<1>5. DecidedInv'
  BY Moves DEF SaveFails, Rollback, Fault, TypeOK, CallInv, JournalInv, FileInv, DecidedInv
<1>6. QED
  BY <1>1, <1>2, <1>3, <1>4, <1>5

\* A failed rollback says so.
LEMMA FailStep ==
    ASSUME GuestAssumption, IInv, Fail PROVE IInv'
<1> USE DEF GuestAssumption, IInv, NoOp, Op, TERMINAL, Undecided
<1>1. TypeOK'
  BY DEF Fail, TypeOK, CallInv, JournalInv, FileInv, Fault
<1>2. CallInv'
  BY DEF Fail, TypeOK, CallInv, FileInv, JournalInv
<1>3. JournalInv'
  BY DEF Fail, TypeOK, CallInv, JournalInv, FileInv
<1>4. FileInv'
  BY DEF Fail, TypeOK, CallInv, JournalInv, FileInv
<1>5. DecidedInv'
  BY DEF Fail, TypeOK, CallInv, JournalInv, FileInv, DecidedInv
<1>6. QED
  BY <1>1, <1>2, <1>3, <1>4, <1>5

\* nftables loads what boot-recover left.
LEMMA LoadRulesStep ==
    ASSUME GuestAssumption, IInv, LoadRules PROVE IInv'
<1> USE DEF GuestAssumption, IInv, NoOp, Op, TERMINAL, Undecided
<1>1. TypeOK'
  BY DEF LoadRules, Loads, TypeOK, CallInv, JournalInv, FileInv, Fault
<1>2. CallInv'
  BY DEF LoadRules, Loads, TypeOK, CallInv, FileInv, JournalInv
<1>3. JournalInv'
  BY DEF LoadRules, Loads, TypeOK, CallInv, JournalInv, FileInv
<1>4. FileInv'
  BY DEF LoadRules, Loads, TypeOK, CallInv, JournalInv, FileInv
<1>5. DecidedInv'
  BY DEF LoadRules, Loads, TypeOK, CallInv, JournalInv, FileInv, DecidedInv
<1>6. QED
  BY <1>1, <1>2, <1>3, <1>4, <1>5

\* A deadline passes.
LEMMA ExpiresStep ==
    ASSUME GuestAssumption, IInv, Expires PROVE IInv'
<1> USE DEF GuestAssumption, IInv, NoOp, Op, TERMINAL, Undecided
<1>1. TypeOK'
  <2>1. txn.gen \in 1 .. MaxGen
    BY DEF TypeOK, Expires
  <2>2. late' \subseteq 1 .. MaxGen
    BY <2>1 DEF TypeOK, Expires
  <2>3. QED
    BY <2>2 DEF TypeOK, Expires
<1>2. CallInv'
  BY DEF Expires, TypeOK, CallInv, FileInv, JournalInv
<1>3. JournalInv'
  BY DEF Expires, TypeOK, CallInv, JournalInv, FileInv
<1>4. FileInv'
  BY DEF Expires, TypeOK, CallInv, JournalInv, FileInv
<1>5. DecidedInv'
  BY DEF Expires, TypeOK, CallInv, JournalInv, FileInv, DecidedInv
<1>6. QED
  BY <1>1, <1>2, <1>3, <1>4, <1>5

\* A killed helper leaves what it had saved.
LEMMA KilledStep ==
    ASSUME GuestAssumption, IInv, Killed PROVE IInv'
<1> USE DEF GuestAssumption, IInv, NoOp, Op, TERMINAL, Undecided
<1>1. TypeOK'
  <2>1. debris' \in BOOLEAN
    BY Zenon DEF TypeOK, Killed
  <2>2. faults' \in 0 .. MaxFaults
    BY DEF TypeOK, Killed, Fault
  <2>3. QED
    BY <2>1, <2>2 DEF TypeOK, Killed
<1>2. CallInv'
  BY DEF Killed, Fault, TypeOK, CallInv, FileInv, JournalInv
<1>3. JournalInv'
  BY DEF Killed, Fault, TypeOK, CallInv, JournalInv, FileInv
<1>4. FileInv'
  BY DEF Killed, Fault, TypeOK, CallInv, JournalInv, FileInv
<1>5. DecidedInv'
  BY DEF Killed, Fault, TypeOK, CallInv, JournalInv, FileInv, DecidedInv
<1>6. QED
  BY <1>1, <1>2, <1>3, <1>4, <1>5

\* A reboot unloads the rules.
LEMMA RebootStep ==
    ASSUME GuestAssumption, IInv, Reboot PROVE IInv'
<1> USE DEF GuestAssumption, IInv, NoOp, Op, TERMINAL, Undecided
<1>1. TypeOK'
  <2>1. debris' \in BOOLEAN
    BY Zenon DEF TypeOK, Reboot
  <2>2. faults' \in 0 .. MaxFaults
    BY DEF TypeOK, Reboot, Fault
  <2>3. {txn.gen} \ {0} \subseteq 1 .. MaxGen
    BY DEF TypeOK
  <2>4. late' \subseteq 1 .. MaxGen
    BY <2>3 DEF TypeOK, Reboot
  <2>5. QED
    BY <2>1, <2>2, <2>4 DEF TypeOK, Reboot
<1>2. CallInv'
  BY DEF Reboot, Fault, TypeOK, CallInv, FileInv, JournalInv
<1>3. JournalInv'
  BY DEF Reboot, Fault, TypeOK, CallInv, JournalInv, FileInv
<1>4. FileInv'
  BY DEF Reboot, Fault, TypeOK, CallInv, JournalInv, FileInv
<1>5. DecidedInv'
  BY DEF Reboot, Fault, TypeOK, CallInv, JournalInv, FileInv, DecidedInv
<1>6. QED
  BY <1>1, <1>2, <1>3, <1>4, <1>5

\* Somebody else writes the fragment between two calls.
LEMMA ForeignEditStep ==
    ASSUME GuestAssumption, IInv, ForeignEdit PROVE IInv'
<1> USE DEF GuestAssumption, IInv, NoOp, Op, TERMINAL, Undecided
<1>1. TypeOK'
  BY DEF ForeignEdit, Fault, TypeOK, CallInv, JournalInv, FileInv
<1>2. CallInv'
  BY DEF ForeignEdit, Fault, TypeOK, CallInv, FileInv, JournalInv
<1>3. JournalInv'
  BY DEF ForeignEdit, Fault, TypeOK, CallInv, JournalInv, FileInv
<1>4. FileInv'
  BY DEF ForeignEdit, Fault, TypeOK, CallInv, JournalInv, FileInv
<1>5. DecidedInv'
  BY DEF ForeignEdit, Fault, TypeOK, CallInv, JournalInv, FileInv, DecidedInv
<1>6. QED
  BY <1>1, <1>2, <1>3, <1>4, <1>5


-----------------------------------------------------------------------------
(* The theorems                                                            *)

LEMMA InitInv == ASSUME GuestAssumption, Init PROVE IInv
<1> USE DEF GuestAssumption, Init, NoTxn, NoOp, Op
<1>1. TypeOK
  <2>1. txn \in [st : TERMINAL \cup Undecided \cup {"prepared", "applied"}, gen : 0 .. MaxGen,
                before : Fragments, after : Fragments]
    BY DEF TERMINAL
  <2>2. op \in [kind : {"none", "prepare", "apply", "confirm", "rollback", "boot"},
               step : {"none", "mark", "publish", "check", "reload", "verify", "seal", "fail"}]
    OBVIOUS
  <2>3. late \subseteq 1 .. MaxGen /\ faults \in 0 .. MaxFaults
    OBVIOUS
  <2>4. debris \in BOOLEAN /\ booting \in BOOLEAN
    OBVIOUS
  <2>5. file \in Fragments \cup {Foreign} /\ nft \in Fragments \cup {Foreign, Unloaded}
    OBVIOUS
  <2>6. QED
    BY <2>1, <2>2, <2>3, <2>4, <2>5, Zenon DEF TypeOK
<1>2. CallInv
  BY DEF CallInv
<1>3. JournalInv
  BY DEF JournalInv
<1>4. FileInv
  BY DEF FileInv
<1>5. DecidedInv
  BY DEF DecidedInv
<1>6. QED
  BY <1>1, <1>2, <1>3, <1>4, <1>5 DEF IInv

LEMMA StepInv == ASSUME GuestAssumption, IInv, [Next]_vars PROVE IInv'
<1>1. CASE UNCHANGED vars
  BY <1>1 DEF vars, IInv, TypeOK, CallInv, JournalInv, FileInv, DecidedInv, NoOp, Op
<1>2. CASE Calls
  BY <1>2, PrepareStep, ApplyStep, ConfirmStep, RollbackStep, RecoverStep, BootRecoverStep
     DEF Calls
<1>3. CASE Steps
  BY <1>3, MarkStep, PublishStep, CheckStep, ReloadStep, VerifyStep, SealStep, FailStep
     DEF Steps
<1>4. CASE SaveFails \/ LoadRules \/ Expires \/ Killed \/ Reboot \/ ForeignEdit
  BY <1>4, SaveFailsStep, LoadRulesStep, ExpiresStep, KilledStep, RebootStep, ForeignEditStep
<1>5. QED
  BY <1>1, <1>2, <1>3, <1>4 DEF Next

LEMMA Invariance == ASSUME GuestAssumption PROVE Spec => []IInv
<1>1. Init => IInv
  BY InitInv
<1>2. IInv /\ [Next]_vars => IInv'
  BY StepInv
<1>3. QED
  BY <1>1, <1>2, PTL DEF Spec

\* The transaction, the fragment, the loaded rules and the running call of
\* tailnet-network-guest.py always have their types.
THEOREM Typed == ASSUME GuestAssumption PROVE Spec => []TypeOK
<1>1. IInv => TypeOK
  BY DEF IInv
<1>2. QED
  BY <1>1, Invariance, PTL

\* However often helpers are killed, saves fail and the machine reboots: once a
\* transaction is rolled back its candidate is not in the kernel, and once it is
\* committed the old sets are not.
THEOREM SettledAlways == ASSUME GuestAssumption PROVE Spec => []Settled
<1>1. IInv => Settled
  BY DEF IInv, DecidedInv, Settled
<1>2. QED
  BY <1>1, Invariance, PTL

\* A boot never loads a candidate that nobody confirmed.
THEOREM BootsConfirmedOnlyAlways ==
    ASSUME GuestAssumption PROVE Spec => [][BootsConfirmedOnly]_vars
<1>1. ASSUME IInv, [Next]_vars PROVE [BootsConfirmedOnly]_vars
  <2>1. SUFFICES ASSUME booting, ~ booting', txn.gen > 0, nft' = txn.after
                 PROVE  txn.st = "committed"
    BY DEF BootsConfirmedOnly
  <2>2. nft # txn.after /\ txn.after \in Fragments /\ txn.after # Unloaded
    BY <1>1, <2>1 DEF IInv, FileInv, TypeOK, GuestAssumption
  <2>3. LoadRules
    BY <1>1, <2>1, <2>2
       DEF Next, Calls, Steps, prepare, apply, confirm, rollback, recover, boot_recover, Starts,
           Mark, Publish, Check, Reload, Verify, Seal, Fail, SaveFails, Expires, Killed, Reboot,
           ForeignEdit, vars
  <2>4. op = NoOp /\ txn.st \in TERMINAL /\ nft' = IF Loads THEN file ELSE nft
    BY <2>3 DEF LoadRules
  <2>5. file = txn.after /\ txn.st # "idle"
    BY <1>1, <2>1, <2>2, <2>4 DEF IInv, JournalInv, TypeOK
  <2>6. QED
    BY <1>1, <2>4, <2>5 DEF IInv, DecidedInv, TERMINAL
<1>2. QED
  BY <1>1, Invariance, PTL DEF Spec

\* No way back and no apply overwrites what somebody else wrote into the fragment.
THEOREM ForeignKeptAlways == ASSUME GuestAssumption PROVE Spec => [][ForeignKept]_vars
<1>1. ASSUME IInv, [Next]_vars PROVE [ForeignKept]_vars
  <2>1. SUFFICES ASSUME file = Foreign, file' # file PROVE FALSE
    BY DEF ForeignKept
  <2>2. Publish
    BY <1>1, <2>1
       DEF Next, Calls, Steps, prepare, apply, confirm, rollback, recover, boot_recover, Starts,
           Mark, Check, Reload, Verify, Seal, Fail, SaveFails, Expires, Killed, Reboot,
           ForeignEdit, LoadRules, vars
  <2>3. op.kind \in {"apply", "rollback", "boot"} /\ op.step = "publish"
    BY <1>1, <2>2 DEF IInv, TypeOK, CallInv, NoOp, Publish
  <2>4. file \in {txn.before, txn.after} /\ {txn.before, txn.after} \subseteq Fragments
    BY <1>1, <2>3 DEF IInv, TypeOK, FileInv
  <2>5. QED
    BY <2>1, <2>4 DEF GuestAssumption
<1>2. QED
  BY <1>1, Invariance, PTL DEF Spec

-----------------------------------------------------------------------------
(* Implementation of GuestPromise                                          *)

\* What the controller sees of the transaction: its status, and the deadlines
\* that have passed.
ShownSt == IF op.kind = "apply" THEN "prepared"
           ELSE IF txn.st \in Undecided THEN "unfinished" ELSE txn.st
ShownLate == IF op.kind \in {"apply", "confirm"} THEN late \ {txn.gen} ELSE late

LateMoves == ShownLate' \in {ShownLate, ShownLate \cup {txn.gen}}

\* A deadline passes by itself, or shows at the end of the call it passed in.
LEMMA LateShows ==
    ASSUME TypeOK, txn'.gen = txn.gen, late' = late \/ late' = late \cup ({txn.gen} \ {0}),
           op'.kind \in {"apply", "confirm"} =>
               op.kind \in {"apply", "confirm"} \/ txn.gen \notin late'
    PROVE  LateMoves
<1>1. CASE op.kind \in {"apply", "confirm"}
  <2>1. ShownLate = late \ {txn.gen}
    BY <1>1 DEF ShownLate
  <2>2. CASE op'.kind \in {"apply", "confirm"}
    <3>1. ShownLate' = late' \ {txn.gen}
      BY <2>2 DEF ShownLate
    <3>2. late' \ {txn.gen} = late \ {txn.gen}
      OBVIOUS
    <3>3. QED
      BY <2>1, <3>1, <3>2 DEF LateMoves
  <2>3. CASE op'.kind \notin {"apply", "confirm"}
    <3>1. ShownLate' = late'
      BY <2>3 DEF ShownLate
    <3>2. 0 \notin late
      BY DEF TypeOK
    <3>3. late' = late \ {txn.gen} \/ late' = (late \ {txn.gen}) \cup {txn.gen}
      BY <3>2
    <3>4. QED
      BY <2>1, <3>1, <3>3 DEF LateMoves
  <2>4. QED
    BY <2>2, <2>3
<1>2. CASE op.kind \notin {"apply", "confirm"}
  <2>1. ShownLate = late
    BY <1>2 DEF ShownLate
  <2>2. ShownLate' = late'
    BY <1>2 DEF ShownLate
  <2>3. late' = late \/ late' = late \cup {txn.gen}
    OBVIOUS
  <2>4. QED
    BY <2>1, <2>2, <2>3 DEF LateMoves
<1>3. QED
  BY <1>1, <1>2

\* The moves of GuestPromise, in what the controller sees.
LEMMA Stutters ==
    ASSUME ShownSt' = ShownSt, txn'.gen = txn.gen, LateMoves
    PROVE  P!PromiseNext
BY DEF P!PromiseNext, ShownSt, ShownLate, LateMoves

LEMMA Prepared ==
    ASSUME TypeOK, ShownSt \in TERMINAL, ShownSt' = "prepared", txn'.gen = txn.gen + 1, LateMoves
    PROVE  P!PromiseNext
<1>1. P!Prepares(txn.gen + 1)
  BY DEF P!Prepares, P!Terminal, TERMINAL, ShownSt, TypeOK
<1>2. QED
  BY <1>1 DEF P!PromiseNext, P!GuestMoves, ShownLate, LateMoves

LEMMA Applied ==
    ASSUME op.kind = "apply", ShownSt' \in {"applied", "rolled_back", "unfinished"},
           txn'.gen = txn.gen, LateMoves
    PROVE  P!PromiseNext
<1>1. P!Applies(txn.gen) \/ P!ApplyFails(txn.gen)
  BY DEF P!Applies, P!ApplyFails, P!CanApply, P!Own, P!Becomes, ShownSt
<1>2. QED
  BY <1>1 DEF P!PromiseNext, P!GuestMoves, ShownLate, LateMoves

LEMMA Confirmed ==
    ASSUME op.kind = "confirm", ShownSt = "applied", ShownSt' = "committed",
           txn'.gen = txn.gen, LateMoves
    PROVE  P!PromiseNext
<1>1. P!Confirms(txn.gen)
  BY DEF P!Confirms, P!CanConfirm, P!Own, P!Becomes, ShownSt
<1>2. QED
  BY <1>1 DEF P!PromiseNext, P!GuestMoves, ShownLate, LateMoves

LEMMA Reverted ==
    ASSUME ShownSt \notin TERMINAL, ShownSt' \in {"rolled_back", "unfinished"},
           txn'.gen = txn.gen, LateMoves
    PROVE  P!PromiseNext
<1>1. P!RollsBack(txn.gen) \/ P!RollbackFails(txn.gen)
  BY DEF P!RollsBack, P!RollbackFails, P!CanRollback, P!Own, P!Becomes, ShownSt, TERMINAL
<1>2. QED
  BY <1>1 DEF P!PromiseNext, P!GuestMoves, ShownLate, LateMoves

\* A call that starts changes nothing the controller sees: apply and confirm
\* start before their deadline only.
LEMMA CallShows == ASSUME IInv, Calls PROVE P!PromiseNext
<1>1. op = NoOp /\ UNCHANGED <<txn, late>>
  BY DEF Calls, prepare, apply, confirm, rollback, recover, boot_recover, Starts
<1>2. op'.kind = "apply" => txn.st = "prepared" /\ txn.gen \notin late
  BY DEF Calls, prepare, apply, confirm, rollback, recover, boot_recover, Starts, Op, Rollback
<1>3. op'.kind = "confirm" => txn.gen \notin late
  BY DEF Calls, prepare, apply, confirm, rollback, recover, boot_recover, Starts, Op, Rollback
<1>4. ShownSt' = ShownSt
  BY <1>1, <1>2 DEF ShownSt, NoOp, Undecided
<1>5. LateMoves
  BY <1>1, <1>2, <1>3, LateShows DEF IInv
<1>6. QED
  BY <1>1, <1>4, <1>5, Stutters

\* What a call may become while its transaction keeps its generation.
LEMMA StepShowsLate ==
    ASSUME IInv, Steps \/ SaveFails, txn'.gen = txn.gen
    PROVE  LateMoves
<1>1. late' = late
  BY DEF Steps, SaveFails, Mark, Publish, Check, Reload, Verify, Seal, Fail
<1>2. op'.kind \in {op.kind, "none", "rollback"}
  BY Moves DEF IInv, TypeOK, Steps, SaveFails, Mark, Publish, Check, Reload, Verify, Seal, Fail,
               Rollback, Op, NoOp
<1>3. QED
  BY <1>1, <1>2, LateShows DEF IInv

\* A failing step of apply gives the transaction to the way back; of any other
\* call it changes nothing the controller sees.
LEMMA FailsShow ==
    ASSUME IInv, Fails, UNCHANGED txn, LateMoves, op.kind \in {"apply", "rollback", "boot"},
           op.kind = "apply" => op.step # "mark"
    PROVE  P!PromiseNext
<1>1. CASE op.kind = "apply"
  <2>1. op'.kind = "rollback" /\ txn'.st = "applying"
    BY <1>1, Moves DEF IInv, TypeOK, JournalInv, Rollback, Op
  <2>2. ShownSt' = "unfinished"
    BY <2>1 DEF ShownSt, Undecided
  <2>3. QED
    BY <1>1, <2>2, Applied
<1>2. CASE op.kind # "apply"
  <2>1. op'.kind = op.kind
    BY <1>2, Moves DEF IInv
  <2>2. ShownSt' = ShownSt
    BY <1>2, <2>1 DEF ShownSt
  <2>3. QED
    BY <2>2, Stutters
<1>3. QED
  BY <1>1, <1>2

\* A call that goes on without a save changes nothing the controller sees.
LEMMA AdvancesShow ==
    ASSUME IInv, Advances, UNCHANGED txn, LateMoves
    PROVE  P!PromiseNext
<1>1. op'.kind = op.kind
  BY Moves DEF IInv
<1>2. ShownSt' = ShownSt
  BY <1>1 DEF ShownSt
<1>3. QED
  BY <1>2, Stutters

LEMMA WorkShows ==
    ASSUME IInv, Publish \/ Check \/ Reload \/ Verify
    PROVE  P!PromiseNext
<1>1. UNCHANGED txn /\ (Advances \/ Fails)
  BY DEF Publish, Check, Reload, Verify
<1>2. LateMoves
  BY <1>1, StepShowsLate DEF Steps
<1>3. op.kind \in {"apply", "rollback", "boot"} /\ op.step # "mark"
  BY DEF IInv, TypeOK, CallInv, NoOp, Publish, Check, Reload, Verify
<1>4. QED
  BY <1>1, <1>2, <1>3, FailsShow, AdvancesShow

LEMMA MarkShows == ASSUME IInv, Mark PROVE P!PromiseNext
<1>1. txn'.gen = txn.gen
  BY DEF Mark, IInv, TypeOK
<1>2. LateMoves
  BY <1>1, StepShowsLate DEF Steps
<1>3. op'.kind = op.kind
  BY Moves DEF Mark, IInv
<1>4. op.kind \in {"apply", "rollback", "boot"}
  BY DEF Mark, IInv, TypeOK, CallInv, NoOp
<1>5. CASE op.kind = "apply"
  BY <1>1, <1>2, <1>3, <1>5, Stutters DEF ShownSt
<1>6. CASE op.kind # "apply"
  <2>1. ShownSt \notin TERMINAL
    BY <1>4, <1>6 DEF IInv, TypeOK, JournalInv, ShownSt, TERMINAL, Undecided
  <2>2. txn'.st = "rolling_back"
    BY <1>6 DEF Mark, IInv, TypeOK
  <2>3. ShownSt' = "unfinished"
    BY <1>3, <1>6, <2>2 DEF ShownSt, Undecided
  <2>4. QED
    BY <1>1, <1>2, <2>1, <2>3, Reverted
<1>7. QED
  BY <1>5, <1>6

LEMMA SealShows == ASSUME IInv, Seal PROVE P!PromiseNext
<1>1. op' = NoOp /\ op'.kind = "none" /\ op.step = "seal" /\ late' = late
  BY DEF Seal, NoOp
<1>2. op.kind \in {"prepare", "apply", "confirm", "rollback", "boot"}
  BY <1>1 DEF IInv, TypeOK, CallInv, NoOp
<1>3. CASE op.kind = "prepare"
  <2>1. txn'.st = "prepared" /\ txn'.gen = txn.gen + 1
    BY <1>3 DEF Seal
  <2>2. ShownSt \in TERMINAL
    BY <1>3 DEF ShownSt, IInv, JournalInv, TERMINAL, Undecided
  <2>3. ShownSt' = "prepared"
    BY <1>1, <2>1 DEF ShownSt, Undecided
  <2>4. LateMoves
    BY <1>1, <1>3 DEF LateMoves, ShownLate
  <2>5. QED
    BY <2>1, <2>2, <2>3, <2>4, Prepared DEF IInv
<1>4. CASE op.kind # "prepare"
  <2>1. txn' = [txn EXCEPT !.st = Sealed[op.kind]]
    BY <1>4 DEF Seal
  <2>2. txn'.gen = txn.gen /\ txn'.st = Sealed[op.kind]
    BY <2>1 DEF IInv, TypeOK
  <2>3. LateMoves
    BY <2>2, StepShowsLate DEF Steps
  <2>4. CASE op.kind = "apply"
    <3>1. ShownSt' = "applied"
      BY <1>1, <2>2, <2>4 DEF Sealed, ShownSt, Undecided
    <3>2. QED
      BY <2>2, <2>3, <2>4, <3>1, Applied
  <2>5. CASE op.kind = "confirm"
    <3>1. ShownSt' = "committed" /\ ShownSt = "applied"
      BY <1>1, <2>2, <2>5 DEF Sealed, ShownSt, Undecided, IInv, JournalInv
    <3>2. QED
      BY <2>2, <2>3, <2>5, <3>1, Confirmed
  <2>6. CASE op.kind \in {"rollback", "boot"}
    <3>1. ShownSt' = "rolled_back"
      BY <1>1, <2>2, <2>6 DEF Sealed, ShownSt, Undecided
    <3>2. ShownSt \notin TERMINAL
      BY <2>6 DEF IInv, TypeOK, JournalInv, ShownSt, TERMINAL, Undecided
    <3>3. QED
      BY <2>2, <2>3, <3>1, <3>2, Reverted
  <2>7. QED
    BY <1>2, <1>4, <2>4, <2>5, <2>6
<1>5. QED
  BY <1>3, <1>4

LEMMA FailShows == ASSUME IInv, Fail PROVE P!PromiseNext
<1>1. txn'.gen = txn.gen /\ txn'.st = "recovery_failed"
  BY DEF Fail, IInv, TypeOK
<1>2. LateMoves
  BY <1>1, StepShowsLate DEF Steps
<1>3. op.kind \in {"rollback", "boot"}
  BY DEF Fail, IInv, TypeOK, CallInv, NoOp
<1>4. ShownSt \notin TERMINAL
  BY <1>3 DEF IInv, TypeOK, JournalInv, ShownSt, TERMINAL, Undecided
<1>5. ShownSt' = "unfinished"
  BY <1>1 DEF Fail, NoOp, ShownSt, Undecided
<1>6. QED
  BY <1>1, <1>2, <1>4, <1>5, Reverted

LEMMA SaveFailsShows == ASSUME IInv, SaveFails PROVE P!PromiseNext
<1>1. UNCHANGED txn
  BY DEF SaveFails
<1>2. LateMoves
  BY <1>1, StepShowsLate
<1>3. CASE op.kind \in {"rollback", "boot"} \/ op = Op("apply", "seal")
  BY <1>1, <1>2, <1>3, FailsShow DEF SaveFails, Op
<1>4. CASE ~ (op.kind \in {"rollback", "boot"} \/ op = Op("apply", "seal"))
  <2>1. op' = NoOp
    BY <1>4 DEF SaveFails
  <2>2. op.kind = "apply" => op.step = "mark"
    BY <1>4 DEF IInv, TypeOK, SaveFails, Op
  <2>3. op.kind = "apply" => txn.st = "prepared"
    BY <2>2 DEF IInv, JournalInv
  <2>4. ShownSt' = ShownSt
    BY <1>1, <2>1, <2>3 DEF ShownSt, NoOp, Undecided
  <2>5. QED
    BY <1>1, <1>2, <2>4, Stutters
<1>5. QED
  BY <1>3, <1>4

\* A call that is cut leaves a running apply unfinished, or not begun.
LEMMA CutShows ==
    ASSUME IInv, op' = NoOp, UNCHANGED txn, LateMoves
    PROVE  P!PromiseNext
<1>1. CASE op.kind = "apply" /\ op.step # "mark"
  <2>1. txn.st = "applying"
    BY <1>1 DEF IInv, JournalInv
  <2>2. ShownSt' = "unfinished"
    BY <2>1 DEF ShownSt, NoOp, Undecided
  <2>3. QED
    BY <1>1, <2>2, Applied
<1>2. CASE ~ (op.kind = "apply" /\ op.step # "mark")
  <2>1. op.kind = "apply" => txn.st = "prepared"
    BY <1>2 DEF IInv, JournalInv
  <2>2. ShownSt' = ShownSt
    BY <2>1 DEF ShownSt, NoOp, Undecided
  <2>3. QED
    BY <2>2, Stutters
<1>3. QED
  BY <1>1, <1>2

LEMMA WorldShows ==
    ASSUME IInv, LoadRules \/ Expires \/ Killed \/ Reboot \/ ForeignEdit
    PROVE  P!PromiseNext
<1>1. UNCHANGED txn
  BY DEF LoadRules, Expires, Killed, Reboot, ForeignEdit
<1>2. late' = late \/ late' = late \cup ({txn.gen} \ {0})
  <2>1. CASE Expires
    <3>1. txn.gen # 0 /\ late' = late \cup {txn.gen}
      BY <2>1 DEF Expires, IInv, TypeOK
    <3>2. QED
      BY <3>1
  <2>2. CASE LoadRules \/ Killed \/ Reboot \/ ForeignEdit
    BY <2>2 DEF LoadRules, Killed, Reboot, ForeignEdit
  <2>3. QED
    BY <2>1, <2>2
<1>3. op' = op \/ op' = NoOp
  BY DEF LoadRules, Expires, Killed, Reboot, ForeignEdit
<1>4. LateMoves
  BY <1>1, <1>2, <1>3, LateShows DEF IInv, NoOp
<1>5. CASE op' = op
  BY <1>1, <1>4, <1>5, Stutters DEF ShownSt
<1>6. CASE op' = NoOp
  BY <1>1, <1>4, <1>6, CutShows
<1>7. QED
  BY <1>3, <1>5, <1>6

\* Every behaviour of the helper, killed, rebooted, out of time or edited
\* around, is one of the promise the promotion builds on: one generation at a
\* time, applied, committed or rolled back as a whole.
THEOREM Implementation == ASSUME GuestAssumption PROVE Spec => KeepsPromise
<1>1. Init => P!PromiseInit
  BY DEF Init, NoTxn, NoOp, P!PromiseInit, P!NewGuest, Undecided
<1>2. IInv /\ [Next]_vars => [P!PromiseNext]_(P!promiseVars)
  <2>1. SUFFICES ASSUME IInv, [Next]_vars PROVE [P!PromiseNext]_(P!promiseVars)
    OBVIOUS
  <2>2. CASE UNCHANGED vars
    BY <2>2 DEF vars, P!promiseVars
  <2>3. CASE Next
    BY <2>1, <2>3, CallShows, WorkShows, MarkShows, SealShows, FailShows, SaveFailsShows, WorldShows
       DEF Next, Steps
  <2>4. QED
    BY <2>1, <2>2, <2>3
<1>3. QED
  BY <1>1, <1>2, Invariance, PTL DEF Spec, KeepsPromise, P!PromiseSpec

=============================================================================
