--------------------------- MODULE StagingCleanup ---------------------------
(***************************************************************************)
(* The guarded destruction of a staging node: the resource journal of      *)
(* scripts/staging_lifecycle.py, the two provider guards                   *)
(* vultr-staging-cleanup-guard.py and staging-cleanup-guard.py (UpCloud),  *)
(* and scripts/destroy.sh, which drives one of them around a Terraform     *)
(* apply.  The journal of a node keeps the manifest that is current, an    *)
(* unfinished publication of a new one and the claim of one evidence path. *)
(* Beside the evidence file the Vultr guard keeps an ownership file, a     *)
(* transition journal and its pending copy; the UpCloud guard rewrites the *)
(* evidence in place.                                                      *)
(*                                                                         *)
(* One lock per node serializes every command; it is an inherited          *)
(* descriptor, so a Terraform that outlives its shell keeps it.  Only      *)
(* another Terraform operation of the operator runs beside the holder.     *)
(* Every action below is one durable write of the code, so that a kill can *)
(* fall between any two of them; "torn" is a file whose write was cut.     *)
(* Digests, identities and times are abstracted to the generation of the   *)
(* Terraform state they were taken from and to whether the node expired.   *)
(***************************************************************************)
EXTENDS Naturals, FiniteSets

CONSTANTS Provider,     \* "vultr" or "upcloud"
          Paths,        \* evidence paths an operator may name
          Outputs,      \* manifest paths an operator may name
          Owned,        \* the provider resources of the node
          MaxState,     \* bound: generations of the Terraform state
          MaxFaults     \* bound: kills, failed commands and failed requests

CleanupAssumption ==
    /\ Provider \in {"vultr", "upcloud"}
    /\ Owned # {} /\ IsFiniteSet(Owned)
    /\ MaxState \in Nat \ {0} /\ MaxFaults \in Nat

VARIABLES cur,          \* the registered manifest
          intent,       \* the publication that has not been committed
          claim,        \* the claimed evidence path and its phase
          manifest,     \* manifest files: the state generation each describes
          files,        \* the evidence family of each path
          tfstate,      \* the generation of the Terraform state file
          cloud,        \* owned resources that exist at the provider
          expired,      \* the hard deadline of the node has passed
          run,          \* the command that holds the lock
          terraform,    \* a Terraform apply is running
          override,     \* the prevent_destroy override file exists
          applies,      \* Terraform destroy runs ever started
          faults

journal == <<cur, intent, claim>>
world == <<tfstate, cloud, expired>>
vars == <<cur, intent, claim, manifest, files, tfstate, cloud, expired, run,
          terraform, override, applies, faults>>

Written == {"reserved", "plan_validated", "apply_started", "verified"}

NoManifest == [out |-> "none", state |-> 0]
NoClaim == [path |-> "none", phase |-> "none"]
NoFiles == [ev |-> "none", res |-> "none", tr |-> "none", pend |-> FALSE,
            bind |-> 0]
NoRun == [goal |-> "none", cmd |-> "none", step |-> "none", path |-> "none",
          next |-> "none", plan |-> 0, reserved |-> FALSE, started |-> FALSE]

-----------------------------------------------------------------------------
(* Helpers of staging_lifecycle.py and of the guards.                      *)

\* evidence_paths and _present: any file of the family at p.
Present(p) ==
    LET f == files[p] IN f.ev # "none" \/ f.res # "none" \/ f.tr # "none" \/ f.pend

\* Journal.current: no publication is open and the manifest is the current one.
Current == intent = NoManifest /\ cur # NoManifest

OwnsClaim(p) == claim # NoClaim /\ claim.path = p

\* load_manifest with verify_state, and _state_binding.
StateMatches == tfstate = cur.state

F == files[run.path]

Put(field, value) == files' = [files EXCEPT ![run.path] = [@ EXCEPT ![field] = value]]

Step(s) == run' = [run EXCEPT !.step = s]

At(cmds, steps) == run.cmd \in cmds /\ run.step \in steps

\* destroy.sh: a command ended well; the next command of the shell, or the end.
Then(result) ==
    IF run.goal = "hand" \/ run.cmd \in {"verify", "release"} \/ result = "verified"
    THEN NoRun
    ELSE CASE run.cmd = "recover" -> [run EXCEPT !.cmd = "reserve", !.step = "check"]
           [] run.cmd = "reserve" ->
                [run EXCEPT !.cmd = "plan", !.step = "check", !.reserved = TRUE]
           [] run.cmd = "plan" -> [run EXCEPT !.cmd = "validate", !.step = "check"]
           [] run.cmd = "validate" -> [run EXCEPT !.cmd = "ask", !.step = "check"]
           [] run.cmd = "ask" -> [run EXCEPT !.cmd = "mark", !.step = "check"]
           [] run.cmd = "mark" ->
                [run EXCEPT !.cmd = "apply", !.step = "check",
                            !.started = Provider = "upcloud"]
           [] OTHER -> [run EXCEPT !.cmd = "verify", !.step = "check", !.started = TRUE]

\* destroy.sh under "set -e": a command failed; the trap releases the evidence
\* that this shell reserved, unless it knows that the apply was started.
Exit ==
    IF run.goal = "destroy" /\ run.reserved /\ ~run.started /\ run.cmd # "release"
    THEN [run EXCEPT !.cmd = "release", !.step = "check"]
    ELSE NoRun

\* The trap removes the override first, at every end of the shell.
Leave(next) ==
    /\ run' = next
    /\ override' = IF next = NoRun \/ next.cmd = "release" THEN FALSE ELSE override

Succeed(result) == Leave(Then(result))
Refuse == Leave(Exit)

-----------------------------------------------------------------------------
Init ==
    /\ cur = NoManifest
    /\ intent = NoManifest
    /\ claim = NoClaim
    /\ manifest = [o \in Outputs |-> 0]
    /\ files = [p \in Paths |-> NoFiles]
    /\ tfstate = 1
    /\ cloud = Owned
    /\ expired = FALSE
    /\ run = NoRun
    /\ terraform = FALSE
    /\ override = FALSE
    /\ applies = 0
    /\ faults = 0

-----------------------------------------------------------------------------
(* Taking the lock.                                                        *)

Unlocked == run = NoRun /\ ~terraform

Begin(goal, cmd, p) ==
    /\ Unlocked
    /\ Current
    /\ run' = [NoRun EXCEPT !.goal = goal, !.cmd = cmd, !.step = "check", !.path = p]
    /\ UNCHANGED <<journal, manifest, files, world, terraform, override, applies, faults>>

\* destroy.sh through run-destroy; the operator typed both confirmations.
StartDestroy(p) == ~override /\ Begin("destroy", "recover", p)

\* The guard's commands called outside the shell: recover, release and verify.
\* The reserve, validate and mark commands have a caller in destroy.sh alone.
ByHand(cmd, p) == Begin("hand", cmd, p)

\* The operator removes the override that a killed destroy left behind.
RemoveOverride ==
    /\ Unlocked /\ override
    /\ override' = FALSE
    /\ UNCHANGED <<journal, manifest, files, world, run, terraform, applies, faults>>

-----------------------------------------------------------------------------
(* create_manifest and lifecycle.publish.                                  *)

\* The request: the manifest of the present state at the named output.
Proposed(o) == [out |-> o, state |-> tfstate]

\* _extract_identity and _provider_created need the whole node.
Publish(o) ==
    /\ Unlocked
    /\ cloud = Owned
    /\ \/ intent = Proposed(o) /\ UNCHANGED intent
       \/ /\ intent = NoManifest
          /\ claim = NoClaim
          /\ cur = NoManifest \/ tfstate # cur.state
          /\ manifest[o] = 0
          /\ intent' = Proposed(o)
    /\ run' = [NoRun EXCEPT !.goal = "hand", !.cmd = "publish", !.step = "file",
                            !.path = o]
    /\ UNCHANGED <<cur, claim, manifest, files, world, terraform, override, applies, faults>>

PublishFile ==
    /\ At({"publish"}, {"file"})
    /\ manifest' = [manifest EXCEPT ![run.path] = intent.state]
    /\ Step("commit")
    /\ UNCHANGED <<journal, files, world, terraform, override, applies, faults>>

PublishCommit ==
    /\ At({"publish"}, {"commit"})
    /\ cur' = intent
    /\ intent' = NoManifest
    /\ run' = NoRun
    /\ UNCHANGED <<claim, manifest, files, world, terraform, override, applies, faults>>

-----------------------------------------------------------------------------
(* lifecycle.operation: the checks in front of a command.                  *)

\* operation("reserve") with the authorization of the guard.
MayReserve == claim = NoClaim /\ ~Present(run.path) /\ StateMatches /\ ~expired

\* operation("advance"), and the checks that load_manifest adds for it.
MayAdvance ==
    /\ OwnsClaim(run.path) /\ claim.phase = "reserved"
    /\ run.cmd \in {"validate", "mark"} => StateMatches /\ ~expired

\* operation("release"): any phase of its own claim.
MayRelease == OwnsClaim(run.path) /\ StateMatches

\* Where a command goes once its checks passed: the Vultr guard first finishes
\* a transition that an earlier process left.
Enter == Step(IF Provider = "vultr" THEN "settle" ELSE "decide")

CheckAdvance ==
    /\ At({"validate", "mark", "verify"}, {"check"})
    /\ MayAdvance
    /\ Enter
    /\ UNCHANGED <<journal, manifest, files, world, terraform, override, applies, faults>>

CheckRelease ==
    /\ At({"release"}, {"check"})
    /\ MayRelease
    /\ Enter
    /\ UNCHANGED <<journal, manifest, files, world, terraform, override, applies, faults>>

\* operation("recover"): nothing is claimed and nothing is there.
RecoverNothing ==
    /\ At({"recover"}, {"check"})
    /\ claim = NoClaim /\ ~Present(run.path)
    /\ Succeed("none")
    /\ UNCHANGED <<journal, manifest, files, world, terraform, applies, faults>>

\* operation("recover"): a claim that never wrote, or wrote and removed all.
RecoverEmpty ==
    /\ At({"recover"}, {"check"})
    /\ OwnsClaim(run.path) /\ ~Present(run.path)
    /\ claim.phase \in {"reserving", "releasing"}
    /\ claim' = NoClaim
    /\ Succeed("released")
    /\ UNCHANGED <<cur, intent, manifest, files, world, terraform, applies, faults>>

CheckRecover ==
    /\ At({"recover"}, {"check"})
    /\ OwnsClaim(run.path) /\ Present(run.path)
    /\ Enter
    /\ UNCHANGED <<journal, manifest, files, world, terraform, override, applies, faults>>

CheckRefused ==
    /\ run.step = "check"
    /\ \/ run.cmd = "reserve" /\ ~MayReserve
       \/ run.cmd \in {"validate", "mark", "verify"} /\ ~MayAdvance
       \/ run.cmd = "release" /\ ~MayRelease
       \/ /\ run.cmd = "recover"
          /\ IF claim = NoClaim
             THEN Present(run.path)
             ELSE \/ ~OwnsClaim(run.path)
                  \/ ~Present(run.path) /\ claim.phase = "reserved"
    /\ Refuse
    /\ UNCHANGED <<journal, manifest, files, world, terraform, applies, faults>>

-----------------------------------------------------------------------------
(* reserve_evidence.                                                       *)

\* begin_reservation: the claim is on record before the first file exists.
BeginReservation ==
    /\ At({"reserve"}, {"check"})
    /\ MayReserve
    /\ claim' = [path |-> run.path, phase |-> "reserving"]
    /\ Step("evidence")
    /\ UNCHANGED <<cur, intent, manifest, files, world, terraform, override, applies, faults>>

\* _private_write_new of the evidence: created, then written.
CreateEvidence ==
    /\ At({"reserve"}, {"evidence"})
    /\ IF F.ev = "none"
       THEN /\ files' = [files EXCEPT ![run.path] =
                            [@ EXCEPT !.ev = "torn", !.bind = cur.state]]
            /\ UNCHANGED run
       ELSE /\ Put("ev", "reserved")
            /\ Step(IF Provider = "vultr" THEN "reservation" ELSE "claim")
    /\ UNCHANGED <<journal, manifest, world, terraform, override, applies, faults>>

\* The Vultr guard's proof of ownership of that inode.
CreateReservation ==
    /\ At({"reserve"}, {"reservation"})
    /\ IF F.res = "none"
       THEN Put("res", "torn") /\ UNCHANGED run
       ELSE Put("res", "ok") /\ Step("claim")
    /\ UNCHANGED <<journal, manifest, world, terraform, override, applies, faults>>

\* A first write of the pair fails: _private_write_new and the Vultr guard remove
\* what this call created, and operation() the claim of the empty family.  The
\* UpCloud guard writes its file a second time to bind the inode; a failure there
\* leaves the file and the claim, which is CommandFails.
ReserveFails ==
    /\ faults < MaxFaults
    /\ At({"reserve"}, {"evidence", "reservation"})
    /\ files' = [files EXCEPT ![run.path] = NoFiles]
    /\ claim' = NoClaim
    /\ faults' = faults + 1
    /\ Refuse
    /\ UNCHANGED <<cur, intent, manifest, world, terraform, applies>>

\* operation("reserve") records that the pair is whole.
ReserveDone ==
    /\ At({"reserve"}, {"claim"})
    /\ claim' = [claim EXCEPT !.phase = "reserved"]
    /\ Succeed("reserved")
    /\ UNCHANGED <<cur, intent, manifest, files, world, terraform, applies, faults>>

-----------------------------------------------------------------------------
(* The Vultr guard's transition journal: _publish_transition_journal, then *)
(* the same steps whether the writer goes on or a later command recovers.  *)

\* The complete journal is written under its pending name.
WritePending ==
    /\ run.step = "pending"
    /\ Put("pend", TRUE)
    /\ Step("journal")
    /\ UNCHANGED <<journal, manifest, world, terraform, override, applies, faults>>

\* It is renamed to the journal's own name.
PublishTransition ==
    /\ run.step = "journal"
    /\ files' = [files EXCEPT ![run.path] = [@ EXCEPT !.pend = FALSE, !.tr = run.next]]
    /\ Step("finish")
    /\ UNCHANGED <<journal, manifest, world, terraform, override, applies, faults>>

\* _discard_pending_transition: a pending copy was never a decision.
DiscardPending ==
    /\ run.step = "settle"
    /\ F.pend
    /\ Put("pend", FALSE)
    /\ UNCHANGED <<journal, manifest, world, run, terraform, override, applies, faults>>

\* _rewrite_private_inode: the evidence is truncated and written again.
RewriteEvidence ==
    /\ run.step \in {"settle", "finish"}
    /\ ~F.pend
    /\ F.tr \in Written
    /\ F.ev # F.tr
    /\ Put("ev", IF F.ev = "torn" THEN F.tr ELSE "torn")
    /\ UNCHANGED <<journal, manifest, world, run, terraform, override, applies, faults>>

DropTransition ==
    /\ run.step \in {"settle", "finish"}
    /\ ~F.pend
    /\ \/ F.tr \in Written /\ F.ev = F.tr
       \/ F.tr = "release" /\ F.ev = "none" /\ F.res = "none" /\ StateMatches
    /\ Put("tr", "none")
    /\ UNCHANGED <<journal, manifest, world, run, terraform, override, applies, faults>>

\* _recover_release_transition: the evidence first, then its ownership proof.
UnlinkReleased ==
    /\ run.step \in {"settle", "finish"}
    /\ ~F.pend
    /\ F.tr = "release"
    /\ StateMatches
    /\ IF F.ev # "none" THEN Put("ev", "none") ELSE F.res # "none" /\ Put("res", "none")
    /\ UNCHANGED <<journal, manifest, world, run, terraform, override, applies, faults>>

\* The state changed: a release that was decided cannot be finished.
ReleaseRefused ==
    /\ run.step \in {"settle", "finish"}
    /\ ~F.pend
    /\ F.tr = "release"
    /\ ~StateMatches
    /\ Refuse
    /\ UNCHANGED <<journal, manifest, files, world, terraform, applies, faults>>

Settled ==
    /\ run.step = "settle"
    /\ ~F.pend /\ F.tr = "none"
    /\ Step("decide")
    /\ UNCHANGED <<journal, manifest, files, world, terraform, override, applies, faults>>

\* The writer's own transition is through: a release still owes the claim.
TransitionDone ==
    /\ run.step = "finish"
    /\ F.tr = "none"
    /\ IF run.next = "release"
       THEN Step("free") /\ UNCHANGED override
       ELSE Succeed(run.next)
    /\ UNCHANGED <<journal, manifest, files, world, terraform, applies, faults>>

-----------------------------------------------------------------------------
(* The UpCloud guard: _rewrite_reserved_evidence writes over the old bytes. *)

Overwrite ==
    /\ run.step = "write"
    /\ IF F.ev # "torn"
       THEN Put("ev", "torn") /\ UNCHANGED <<run, override>>
       ELSE Put("ev", run.next) /\ Succeed(run.next)
    /\ UNCHANGED <<journal, manifest, world, terraform, applies, faults>>

\* Writing a new status, each guard in its own way.
Advance(status) ==
    run' = [run EXCEPT !.next = status,
                       !.step = IF Provider = "vultr" THEN "pending" ELSE "write"]

-----------------------------------------------------------------------------
(* recover_reserved_evidence.                                              *)

\* A pair whose initial publication was cut, or evidence without its proof.
Incomplete ==
    IF Provider = "vultr"
    THEN \/ F.ev = "torn"
         \/ F.ev = "reserved" /\ F.res # "ok"
    ELSE claim.phase = "reserving"

\* Only the Vultr guard compares the state before it removes the pair.
UnlinkIncomplete ==
    /\ At({"recover"}, {"decide"})
    /\ F.ev # "none"
    /\ Incomplete
    /\ Provider = "vultr" => StateMatches
    /\ IF F.res # "none"
       THEN Put("res", "none") /\ UNCHANGED run
       ELSE Put("ev", "none") /\ Step("free")
    /\ UNCHANGED <<journal, manifest, world, terraform, override, applies, faults>>

\* A whole receipt: a release that was under way is finished, an apply is only
\* observed, a certified absence stands.
RecoverDecides ==
    /\ At({"recover"}, {"decide"})
    /\ ~Incomplete
    /\ \/ F.ev = "none" /\ Step("free") /\ UNCHANGED override
       \/ F.ev \in {"reserved", "plan_validated"} /\ StateMatches
          /\ Step("release") /\ UNCHANGED override
       \/ F.ev = "apply_started" /\ claim.phase = "reserved"
          /\ Step("observe") /\ UNCHANGED override
       \/ F.ev = "verified" /\ Succeed("verified")
    /\ UNCHANGED <<journal, manifest, files, world, terraform, applies, faults>>

RecoverRefused ==
    /\ At({"recover"}, {"decide"})
    /\ IF Incomplete
       THEN Provider = "vultr" /\ ~StateMatches
       ELSE \/ F.ev = "torn"
            \/ F.ev \in {"reserved", "plan_validated"} /\ ~StateMatches
    /\ Refuse
    /\ UNCHANGED <<journal, manifest, files, world, terraform, applies, faults>>

-----------------------------------------------------------------------------
(* release_evidence.                                                       *)

Releasing == At({"release"}, {"decide"}) \/ At({"recover"}, {"release"})

\* The receipts that may be given back.
Unused == IF Provider = "vultr" THEN {"reserved", "plan_validated"} ELSE {"reserved"}

Releasable ==
    /\ StateMatches
    /\ F.ev \in Unused
    /\ Provider = "vultr" => F.res = "ok" /\ F.bind = tfstate

\* begin_release records the receipt in the claim before anything is removed.
BeginRelease ==
    /\ Releasing
    /\ Releasable
    /\ claim' = [claim EXCEPT !.phase = "releasing"]
    /\ run' = [run EXCEPT !.next = "release",
                          !.step = IF Provider = "vultr" THEN "pending" ELSE "unlink"]
    /\ UNCHANGED <<cur, intent, manifest, files, world, terraform, override, applies, faults>>

ReleaseNotDue ==
    /\ Releasing
    /\ ~Releasable
    /\ Refuse
    /\ UNCHANGED <<journal, manifest, files, world, terraform, applies, faults>>

\* The UpCloud guard has one file to remove.
UnlinkEvidence ==
    /\ run.step = "unlink"
    /\ Put("ev", "none")
    /\ Step("free")
    /\ UNCHANGED <<journal, manifest, world, terraform, override, applies, faults>>

\* _finish_release: the claim goes once no file of the family is left.
FinishRelease ==
    /\ run.step = "free"
    /\ ~Present(run.path)
    /\ claim' = NoClaim
    /\ files' = [files EXCEPT ![run.path] = NoFiles]
    /\ Succeed("released")
    /\ UNCHANGED <<cur, intent, manifest, world, terraform, applies, faults>>

-----------------------------------------------------------------------------
(* The commands of destroy.sh that advance the evidence.                   *)

\* terraform-env.sh plan -destroy, under the override.
Plan ==
    /\ At({"plan"}, {"check"})
    /\ override' = TRUE
    /\ run' = [Then("planned") EXCEPT !.plan = tfstate]
    /\ UNCHANGED <<journal, manifest, files, world, terraform, applies, faults>>

ValidatePlan ==
    /\ At({"validate"}, {"decide"})
    /\ F.ev = "reserved" /\ StateMatches
    /\ IF Provider = "vultr"
       THEN F.bind = tfstate /\ Advance("plan_validated") /\ UNCHANGED override
       ELSE Succeed("validated")
    /\ UNCHANGED <<journal, manifest, files, world, terraform, applies, faults>>

\* The last question to the operator.
Confirm ==
    /\ At({"ask"}, {"check"})
    /\ Succeed("yes")
    /\ UNCHANGED <<journal, manifest, files, world, terraform, applies, faults>>

Decline ==
    /\ At({"ask"}, {"check"})
    /\ Refuse
    /\ UNCHANGED <<journal, manifest, files, world, terraform, applies, faults>>

\* mark_apply_started; the clock is read again after the provider answered.
MayMark ==
    /\ StateMatches /\ ~expired
    /\ IF Provider = "vultr"
       THEN F.ev = "plan_validated" /\ F.bind = tfstate
       ELSE F.ev = "reserved"

MarkApplyStarted ==
    /\ At({"mark"}, {"decide"})
    /\ MayMark
    /\ Advance("apply_started")
    /\ UNCHANGED <<journal, manifest, files, world, terraform, override, applies, faults>>

\* verify_vultr_absence and verify_upcloud_absence: every resource answers 404.
Observing == At({"verify"}, {"decide"}) \/ At({"recover"}, {"observe"})

\* Mutation: only the server is asked for.
AbsentServer == "server" \notin cloud

Absent == cloud = {}

VerifyAbsence ==
    /\ Observing
    /\ F.ev = "apply_started"
    /\ Absent
    /\ Advance("verified")
    /\ UNCHANGED <<journal, manifest, files, world, terraform, override, applies, faults>>

AdvanceRefused ==
    /\ \/ At({"validate"}, {"decide"})
          /\ ~(F.ev = "reserved" /\ StateMatches /\ (Provider = "vultr" => F.bind = tfstate))
       \/ At({"mark"}, {"decide"}) /\ ~MayMark
       \/ Observing /\ ~(F.ev = "apply_started" /\ Absent)
    /\ Refuse
    /\ UNCHANGED <<journal, manifest, files, world, terraform, applies, faults>>

-----------------------------------------------------------------------------
(* Terraform (external) and the shell around it.                           *)

\* The state file after an apply that ended: unchanged only if it did nothing.
StateAfterApply ==
    IF cloud = Owned THEN {tfstate, tfstate + 1} ELSE {tfstate + 1}

\* terraform apply of the plan; it refuses a plan of an older state.
Launch ==
    /\ At({"apply"}, {"check"})
    /\ IF run.plan = tfstate
       THEN /\ terraform' = TRUE
            /\ applies' = applies + 1
            /\ Step("running") /\ UNCHANGED override
       ELSE Refuse /\ UNCHANGED <<terraform, applies>>
    /\ UNCHANGED <<journal, manifest, files, world, faults>>

DeleteResource(r) ==
    /\ terraform /\ r \in cloud
    /\ cloud' = cloud \ {r}
    /\ UNCHANGED <<journal, manifest, files, tfstate, expired, run, terraform, override,
                   applies, faults>>

\* Terraform ends, with everything deleted or with an error; an orphan of a
\* killed shell ends alone.
TerraformEnds(ok) ==
    /\ terraform
    /\ IF ok THEN cloud = {} ELSE faults < MaxFaults
    /\ faults' = IF ok THEN faults ELSE faults + 1
    /\ terraform' = FALSE
    /\ tfstate' \in StateAfterApply
    /\ IF run = NoRun THEN UNCHANGED <<run, override>>
       ELSE IF ok THEN Succeed("applied") ELSE Refuse
    /\ UNCHANGED <<journal, manifest, files, cloud, expired, applies>>

-----------------------------------------------------------------------------
(* Faults and the rest of the world.                                       *)

\* The whole run is killed; a running Terraform may survive it.
Kill ==
    /\ faults < MaxFaults
    /\ run # NoRun
    /\ run' = NoRun
    /\ terraform' \in {FALSE, terraform}
    /\ tfstate' \in IF terraform /\ ~terraform' THEN StateAfterApply ELSE {tfstate}
    /\ faults' = faults + 1
    /\ UNCHANGED <<journal, manifest, files, cloud, expired, override, applies>>

\* One command dies or a request fails; the shell goes on to its trap.
CommandFails ==
    /\ faults < MaxFaults
    /\ run.goal = "destroy" /\ ~terraform
    /\ faults' = faults + 1
    /\ Refuse
    /\ UNCHANGED <<journal, manifest, files, world, terraform, applies>>

\* Another Terraform operation of the operator on the whole node.
StateChanges ==
    /\ tfstate < MaxState
    /\ cloud = Owned /\ ~terraform
    /\ tfstate' = tfstate + 1
    /\ UNCHANGED <<journal, manifest, files, cloud, expired, run, terraform, override,
                   applies, faults>>

Expire ==
    /\ ~expired
    /\ expired' = TRUE
    /\ UNCHANGED <<journal, manifest, files, tfstate, cloud, run, terraform, override,
                   applies, faults>>

-----------------------------------------------------------------------------
\* Every step of a command that holds the lock, short of a fault.
Work ==
    \/ PublishFile \/ PublishCommit
    \/ CheckAdvance \/ CheckRelease \/ RecoverNothing \/ RecoverEmpty \/ CheckRecover
    \/ CheckRefused \/ BeginReservation \/ CreateEvidence \/ CreateReservation
    \/ ReserveDone \/ WritePending \/ PublishTransition \/ DiscardPending
    \/ RewriteEvidence \/ DropTransition \/ UnlinkReleased \/ ReleaseRefused \/ Settled
    \/ TransitionDone \/ Overwrite \/ UnlinkIncomplete \/ RecoverDecides
    \/ RecoverRefused \/ BeginRelease \/ ReleaseNotDue \/ UnlinkEvidence
    \/ FinishRelease \/ Plan \/ ValidatePlan \/ Confirm \/ MarkApplyStarted
    \/ VerifyAbsence \/ AdvanceRefused \/ Launch \/ TerraformEnds(TRUE)
    \/ \E r \in Owned : DeleteResource(r)

Recover(p) == ByHand("recover", p)

Next ==
    \/ Work
    \/ \E p \in Paths : StartDestroy(p) \/ Recover(p)
    \/ \E p \in Paths, cmd \in {"release", "verify"} : ByHand(cmd, p)
    \/ \E o \in Outputs : Publish(o)
    \/ RemoveOverride \/ ReserveFails \/ Decline \/ TerraformEnds(FALSE)
    \/ Kill \/ CommandFails \/ StateChanges \/ Expire

Spec == Init /\ [][Next]_vars

-----------------------------------------------------------------------------
(* Properties.                                                             *)

TypeOK ==
    /\ cur \in [out : Outputs \cup {"none"}, state : 0..MaxState]
    /\ intent \in [out : Outputs \cup {"none"}, state : 0..MaxState]
    /\ claim \in [path : Paths \cup {"none"},
                  phase : {"none", "reserving", "reserved", "releasing"}]
    /\ manifest \in [Outputs -> 0..MaxState]
    /\ files \in [Paths -> [ev : Written \cup {"none", "torn"},
                            res : {"none", "torn", "ok"},
                            tr : Written \cup {"none", "release"},
                            pend : BOOLEAN, bind : 0..MaxState]]
    /\ tfstate \in 1..(MaxState + 1)
    /\ cloud \subseteq Owned
    /\ run.path \in Paths \cup Outputs \cup {"none"}
    /\ {expired, terraform, override} \subseteq BOOLEAN
    /\ applies \in Nat /\ faults \in 0..MaxFaults

\* What a family of files says once its transition journal is honoured.
Effective(p) == IF files[p].tr \in Written THEN files[p].tr ELSE files[p].ev

\* "A started apply resumes absence observation and never starts Terraform
\* again": over every evidence path, every kill, every recovery and every
\* reissued manifest, Terraform is launched against the node at most once, and
\* never while a receipt says less than apply_started.
OneApply ==
    /\ applies <= 1
    /\ terraform => claim # NoClaim /\ Effective(claim.path) = "apply_started"

\* The files of an evidence family exist only at the claimed path, and the
\* manifest they were reserved against stays the registered one: otherwise no
\* later command would recognise the receipt and the record of a started
\* destruction would be unreadable.
EvidenceOwned ==
    \A p \in Paths : Present(p) =>
        /\ OwnsClaim(p)
        /\ Current
        /\ files[p].bind = cur.state /\ manifest[cur.out] = cur.state

\* The phase of the destruction as the files record it.  A receipt that the
\* UpCloud guard was rewriting is torn and says nothing: after a launch its claim
\* still stands for a started destruction, since no command gives it back.
Phase ==
    IF claim = NoClaim THEN "free"
    ELSE CASE Effective(claim.path) = "apply_started" -> "started"
           [] Effective(claim.path) = "verified" -> "absent"
           [] OTHER -> IF applies > 0 THEN "started" ELSE "claimed"

P == INSTANCE DestroyPromise WITH phase <- Phase, left <- cloud

\* The two guards, the journal and the shell keep the promise of a guarded
\* destruction through every kill: no deletion without a recorded start, no
\* start taken back, no certificate while a resource is left.
PromiseStart == P!PromiseInit
PromiseStep == P!PromiseNext \/ UNCHANGED P!promiseVars

=============================================================================
