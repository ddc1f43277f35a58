--------------------------- MODULE DisposableClient ---------------------------
(***************************************************************************)
(* One disposable staging client from the preparation of its executor VM   *)
(* to its removal: disposable_liveness_executor.py, the finalization of    *)
(* disposable_promotion.py and the two retirement commands for a client    *)
(* that was never bound.  Every command is a sequence of durable writes    *)
(* that a kill may cut anywhere; the next invocation resumes or refuses.   *)
(* The commands that need the project's SOPS lock exclude each other; the  *)
(* profile lock orders them with prepare.  The installer is the one of     *)
(* SentinelInstall, reduced to its records and the VM's committed          *)
(* generation.                                                             *)
(***************************************************************************)
EXTENDS Naturals

CONSTANTS MaxGens,    \* bound: generation identifiers the installer draws
          MaxEdits,   \* bound: edits of the SOPS project by other writers
          MaxFaults,  \* bound: kills, failures and interruptions
          Kills       \* whether a process may die without running its handlers

VARIABLES vm,      \* the Colima profile: none, partial, running, stopped
          manifest,\* executor manifest
          expired, \* its six hours are over
          record,  \* the profile's private journal
          prep,    \* the prepare command
          main,    \* the command that holds the SOPS project lock
          sops,    \* the encrypted project: is the client in it, other writers' edits
          out,     \* outputs of the onboarding and the installer's records
          vmgen,   \* generation committed inside the VM
          target,  \* the staging server: up, or absent with verified evidence
          ret,     \* journal, candidate and receipts of the unbound retirement
          deo,     \* evidence of the de-onboarding
          drawn, edits, faults
vars == <<vm, manifest, expired, record, prep, main, sops, out, vmgen, target, ret, deo,
          drawn, edits, faults>>

Gens == 0..MaxGens
NoMain == [op |-> "none", pc |-> "idle", gen |-> 0]
NoOut == [authority |-> FALSE, scope |-> 0, config |-> FALSE, executor |-> FALSE, registry |-> FALSE,
          entry |-> 0, pending |-> 0, binding |-> 0, promo |-> FALSE, torn |-> {}]
\* The documents that are created under their own name and written in place.
Documents == {"authority", "config", "executor", "binding", "proof"}
Records == {"record", "journal", "receipt", "retired", "evidence"}
NoFile == [client |-> FALSE, edits |-> 0]
NoRet == [state |-> "none", before |-> NoFile, cand |-> FALSE, litter |-> FALSE,
          receipt |-> FALSE, output |-> FALSE]

TypeOK ==
    /\ vm \in {"none", "partial", "running", "stopped"}
    /\ manifest \in BOOLEAN /\ expired \in BOOLEAN /\ deo \in BOOLEAN
    /\ record \in [state : {"none", "assigned", "retiring"}, gen : Gens]
    /\ prep \in {"idle", "starting", "marking", "cleaning"}
    /\ main \in [op : {"none", "finalize", "client", "executor", "deonboard"},
                 pc : {"idle", "authority", "config", "executor", "check", "ask", "bind",
                       "bindfile", "save", "stage", "publish", "forget", "proof",
                       "journal", "create", "mark", "swap", "published", "receipt", "verified",
                       "claim", "stop", "delete", "evidence", "secrets", "unregister", "unlink"},
                 gen : Gens]
    /\ sops \in [client : BOOLEAN, edits : 0..MaxEdits]
    /\ out \in [authority : BOOLEAN, scope : 0..MaxEdits, config : BOOLEAN, executor : BOOLEAN, registry : BOOLEAN,
                entry : Gens, pending : Gens, binding : Gens, promo : BOOLEAN,
                torn : SUBSET (Documents \cup Records)]
    /\ vmgen \in Gens /\ target \in {"up", "absent"}
    /\ ret \in [state : {"none", "prepared", "candidate", "published", "verified"},
                before : [client : BOOLEAN, edits : 0..MaxEdits], cand : BOOLEAN,
                litter : BOOLEAN, receipt : BOOLEAN, output : BOOLEAN]
    /\ ret.state \in {"published", "verified"} => ~sops.client
    /\ drawn \in Gens /\ edits \in 0..MaxEdits /\ faults \in 0..MaxFaults

Init ==
    /\ vm = "none" /\ manifest = FALSE /\ expired = FALSE /\ deo = FALSE
    /\ record = [state |-> "none", gen |-> 0]
    /\ prep = "idle" /\ main = NoMain
    /\ sops = [client |-> TRUE, edits |-> 0] /\ out = NoOut /\ vmgen = 0 /\ target = "up"
    /\ ret = NoRet /\ drawn = 0 /\ edits = 0 /\ faults = 0

Fault == faults < MaxFaults /\ faults' = faults + 1
At(op, pc) == main.op = op /\ main.pc = pc
Go(pc) == main' = [main EXCEPT !.pc = pc]
Done == main' = NoMain
Start(op, pc) == main.op = "none" /\ main' = [NoMain EXCEPT !.op = op, !.pc = pc]
Rest == UNCHANGED <<drawn, edits, faults>>

\* _inspect(), _read_marker(): listed, running, its configuration, mounts and marker exact.
Running == vm = "running"
\* load_live_executor() and _load_deonboard_executor(): the VM of this manifest.
Live == manifest /\ Running /\ ~expired
Owned == manifest /\ vm \in {"running", "stopped"}
\* _profile_lock(): prepare, bind, retire and de-onboard exclude each other.
LeaseFree == prep = "idle"
LeaseHeld == main.op \in {"executor", "deonboard"} \/ main.pc \in {"bind", "bindfile"}
\* The outputs that make a client bound for the unbound retirement.
Outputs == [out EXCEPT !.entry = 0, !.torn = @ \ Records] # NoOut

(***************************************************************************)
(* prepare_executor()                                                      *)
(***************************************************************************)
Others == UNCHANGED <<expired, record, main, sops, out, vmgen, target, ret, deo, drawn, edits>>

Prepare ==
    /\ prep = "idle" /\ ~LeaseHeld
    /\ record.state = "none" /\ ~manifest /\ vm = "none"
    /\ prep' = "starting"
    /\ UNCHANGED <<vm, manifest, faults>> /\ Others

VmStarts ==
    /\ prep = "starting"
    /\ vm' = "running" /\ prep' = "marking"
    /\ UNCHANGED <<manifest, faults>> /\ Others

\* colima start is interrupted or times out: nothing is released, started is not set.
StartInterrupted ==
    /\ prep = "starting" /\ Fault
    /\ vm' \in {"none", "partial", "running"} /\ prep' = "idle"
    /\ UNCHANGED manifest /\ Others

WriteManifest ==
    /\ prep = "marking"
    /\ manifest' = TRUE /\ prep' = "idle"
    /\ UNCHANGED <<vm, faults>> /\ Others

\* A failed inspection, marker or context check, or an interrupt.
PrepareFails ==
    /\ prep = "marking" /\ Fault
    /\ prep' = "cleaning"
    /\ UNCHANGED <<vm, manifest>> /\ Others

Release ==
    /\ prep = "cleaning"
    /\ vm' = "none" /\ prep' = "idle"
    /\ UNCHANGED <<manifest, faults>> /\ Others

(***************************************************************************)
(* finalize(): the authority document fixes the epoch, then the documents, *)
(* the installation and the promotion proof.                               *)
(***************************************************************************)
FinalizeBegin ==
    /\ Start("finalize", "authority")
    /\ manifest /\ target = "up" /\ sops.client
    /\ UNCHANGED <<vm, manifest, expired, record, prep, sops, out, vmgen, target, ret, deo>> /\ Rest

KeepVm == UNCHANGED <<vm, manifest, expired, prep, sops, target, ret, deo>> /\ UNCHANGED <<edits, faults>>

\* Without an authority no other output may exist; with one its scope, the ciphertext
\* among it, must be the same.
WriteAuthority ==
    /\ At("finalize", "authority")
    /\ IF (out.authority /\ out.scope = sops.edits) \/ (~Outputs /\ out.entry = 0)
         THEN out' = [out EXCEPT !.authority = TRUE, !.scope = sops.edits] /\ Go("config")
         ELSE Done /\ UNCHANGED out
    /\ UNCHANGED <<record, vmgen, drawn>> /\ KeepVm

EnsureConfig ==
    /\ At("finalize", "config")
    /\ out' = [out EXCEPT !.config = TRUE] /\ Go("executor")
    /\ UNCHANGED <<record, vmgen, drawn>> /\ KeepVm

EnsureExecutor ==
    /\ At("finalize", "executor")
    /\ out' = [out EXCEPT !.executor = TRUE] /\ Go("check")
    /\ UNCHANGED <<record, vmgen, drawn>> /\ KeepVm

\* An assignment is reused only with its binding, a live VM and the committed receipt.
Reusable == Live /\ out.binding = out.entry /\ vmgen = out.entry
CheckRegistry ==
    /\ At("finalize", "check")
    /\ IF out.entry = 0 /\ Live THEN Go("ask")
       ELSE IF out.entry # 0 /\ out.pending = 0 /\ Reusable THEN Go("proof")
       ELSE Done
    /\ UNCHANGED <<record, out, vmgen, drawn>> /\ KeepVm

\* install(): a pending generation is reconciled, a new one drawn otherwise.
Reconcile ==
    /\ At("finalize", "ask")
    /\ \/ /\ out.pending # 0 /\ out.pending = vmgen
          /\ main' = [main EXCEPT !.pc = "publish", !.gen = out.pending]
          /\ UNCHANGED drawn
       \/ /\ out.pending # 0 /\ out.pending # vmgen
          /\ main' = [main EXCEPT !.pc = "bind", !.gen = out.pending]
          /\ UNCHANGED drawn
       \/ /\ out.pending = 0
          /\ IF drawn < MaxGens THEN /\ drawn' = drawn + 1
                                     /\ main' = [main EXCEPT !.pc = "bind", !.gen = drawn']
             ELSE Done /\ UNCHANGED drawn
    /\ UNCHANGED <<record, out, vmgen>> /\ KeepVm

\* _bind_registered(): the profile's record first, then the binding, both exact on a retry.
Bind ==
    /\ At("finalize", "bind")
    /\ IF /\ LeaseFree /\ Live
          /\ record.state = "none" \/ record = [state |-> "assigned", gen |-> main.gen]
         THEN record' = [state |-> "assigned", gen |-> main.gen] /\ Go("bindfile")
         ELSE Done /\ UNCHANGED record
    /\ UNCHANGED <<out, vmgen, drawn>> /\ KeepVm

WriteBinding ==
    /\ At("finalize", "bindfile")
    /\ IF out.binding \in {0, main.gen}
         THEN out' = [out EXCEPT !.binding = main.gen] /\ Go("save")
         ELSE Done /\ UNCHANGED out
    /\ UNCHANGED <<record, vmgen, drawn>> /\ KeepVm

SavePending ==
    /\ At("finalize", "save")
    /\ out' = [out EXCEPT !.pending = main.gen] /\ Go("stage")
    /\ UNCHANGED <<record, vmgen, drawn>> /\ KeepVm

\* The detached job of SentinelInstall commits the generation; or the wait ends first.
Install ==
    /\ At("finalize", "stage") /\ vm = "running"
    /\ vmgen' = main.gen /\ Go("publish")
    /\ UNCHANGED <<record, out, drawn>> /\ KeepVm

InstallUnknown ==
    /\ At("finalize", "stage") /\ Fault
    /\ vmgen' \in {vmgen, main.gen} /\ Done
    /\ UNCHANGED <<record, out, drawn, edits>>
    /\ UNCHANGED <<vm, manifest, expired, prep, sops, target, ret, deo>>

PublishEntry ==
    /\ At("finalize", "publish")
    /\ out' = [out EXCEPT !.registry = TRUE, !.entry = main.gen] /\ Go("forget")
    /\ UNCHANGED <<record, vmgen, drawn>> /\ KeepVm

ForgetPending ==
    /\ At("finalize", "forget")
    /\ out' = [out EXCEPT !.pending = 0] /\ Go("proof")
    /\ UNCHANGED <<record, vmgen, drawn>> /\ KeepVm

WriteProof ==
    /\ At("finalize", "proof")
    /\ out' = [out EXCEPT !.promo = TRUE] /\ Done
    /\ UNCHANGED <<record, vmgen, drawn>> /\ KeepVm

(***************************************************************************)
(* retire-unbound-staging-client.py                                        *)
(***************************************************************************)
KeepOut == UNCHANGED <<vm, manifest, expired, record, prep, out, vmgen, target, deo>> /\ Rest

\* _validate_inputs(): verified absence, and nothing of an onboarding.
Unbound == target = "absent" /\ ~Outputs
ClientBegin ==
    /\ Start("client", "journal")
    /\ Unbound /\ ~ret.litter
    /\ UNCHANGED <<sops, ret>> /\ KeepOut

\* _candidate_state(): the ciphertext is the one the candidate was made from, or is the
\* published candidate.
Original == sops = ret.before
Replaced == sops = [client |-> FALSE, edits |-> ret.before.edits]

\* _secret_plan(): a removal is planned only for a client that is in the project.
InProject == sops.client

\* What a run does next follows from the journal on disk.
Resume ==
    /\ At("client", "journal")
    /\ CASE ret.state = "none" ->
              IF ~ret.receipt /\ ~ret.cand /\ InProject
                THEN ret' = [ret EXCEPT !.state = "prepared", !.before = sops] /\ Go("create")
                ELSE Done /\ UNCHANGED ret
         [] ret.state = "prepared" ->
              (IF ~ret.receipt /\ ~ret.cand /\ Original THEN Go("create") ELSE Done)
              /\ UNCHANGED ret
         [] ret.state = "candidate" ->
              (IF ret.receipt THEN Done
               ELSE IF Original /\ ret.cand THEN Go("swap")
               ELSE IF Replaced /\ ~ret.cand THEN Go("published")
               ELSE Done)
              /\ UNCHANGED ret
         [] OTHER ->
              (IF Replaced /\ ~ret.cand /\ ret.state = "published" THEN Go("receipt") ELSE Done)
              /\ UNCHANGED ret
    /\ UNCHANGED sops /\ KeepOut

\* _create_candidate(): a sibling without the client, then the journal names it.
CreateCandidate ==
    /\ At("client", "create")
    /\ ret' = [ret EXCEPT !.cand = TRUE] /\ Go("mark")
    /\ UNCHANGED sops /\ KeepOut

MarkCandidate ==
    /\ At("client", "mark")
    /\ ret' = [ret EXCEPT !.state = "candidate"] /\ Go("swap")
    /\ UNCHANGED sops /\ KeepOut

\* _publish_candidate(): only over the ciphertext the candidate was made from.
PublishCandidate ==
    /\ At("client", "swap") /\ Original /\ Unbound
    /\ sops' = [client |-> FALSE, edits |-> ret.before.edits]
    /\ ret' = [ret EXCEPT !.cand = FALSE]
    /\ Go("published")
    /\ KeepOut

MarkPublished ==
    /\ At("client", "published")
    /\ ret' = [ret EXCEPT !.state = "published"] /\ Go("receipt")
    /\ UNCHANGED sops /\ KeepOut

WriteReceipt ==
    /\ At("client", "receipt")
    /\ ret' = [ret EXCEPT !.receipt = TRUE] /\ Go("verified")
    /\ UNCHANGED sops /\ KeepOut

MarkVerified ==
    /\ At("client", "verified")
    /\ ret' = [ret EXCEPT !.state = "verified"] /\ Done
    /\ UNCHANGED sops /\ KeepOut

(***************************************************************************)
(* retire-unbound-staging-executor.py and retire_prepared_executor()       *)
(***************************************************************************)
ClientRetired == /\ ret.state = "verified" /\ ret.receipt /\ Unbound /\ Replaced

ExecutorBegin ==
    /\ Start("executor", "claim")
    /\ LeaseFree /\ ClientRetired /\ manifest
    /\ UNCHANGED <<vm, manifest, expired, record, prep, sops, out, vmgen, target, ret, deo>> /\ Rest

KeepRest == UNCHANGED <<manifest, expired, prep, sops, out, vmgen, target, deo>> /\ Rest

ClaimRetirement ==
    /\ At("executor", "claim")
    /\ CASE record.state = "none" ->
              IF vm = "running" /\ ~ret.output
                THEN record' = [state |-> "retiring", gen |-> 0] /\ Go("stop")
                ELSE Done /\ UNCHANGED record
         [] record.state = "retiring" ->
              Go(IF vm = "none" THEN "evidence" ELSE "stop") /\ UNCHANGED record
         [] OTHER -> Done /\ UNCHANGED record
    /\ UNCHANGED <<vm, ret>> /\ KeepRest

StopVm ==
    /\ main.op \in {"executor", "deonboard"} /\ main.pc = "stop"
    /\ vm' = "stopped" /\ Go("delete")
    /\ UNCHANGED <<record, ret>> /\ KeepRest

DeleteVm ==
    /\ main.op \in {"executor", "deonboard"} /\ main.pc = "delete"
    /\ vm' = "none" /\ Go("evidence")
    /\ UNCHANGED <<record, ret>> /\ KeepRest

RetiredEvidence ==
    /\ At("executor", "evidence")
    /\ ret' = [ret EXCEPT !.output = TRUE] /\ Done
    /\ UNCHANGED <<vm, record>> /\ KeepRest

(***************************************************************************)
(* deonboard(): secrets, assignment, configuration and then the VM.        *)
(***************************************************************************)
DeonboardBegin ==
    /\ Start("deonboard", "secrets")
    /\ LeaseFree /\ target = "absent" /\ manifest /\ out.binding # 0
    /\ out.entry \in {0, out.binding}
    /\ vm # "none" => Owned
    /\ UNCHANGED <<vm, manifest, expired, record, prep, sops, out, vmgen, target, ret, deo>> /\ Rest

KeepDeo == UNCHANGED <<vm, manifest, expired, record, prep, vmgen, target, ret>> /\ Rest

UnsetSecrets ==
    /\ At("deonboard", "secrets")
    /\ sops' = [sops EXCEPT !.client = FALSE] /\ Go("unregister")
    /\ UNCHANGED <<out, deo>> /\ KeepDeo

Unregister ==
    /\ At("deonboard", "unregister")
    /\ out' = [out EXCEPT !.entry = 0] /\ Go("unlink")
    /\ UNCHANGED <<sops, deo>> /\ KeepDeo

UnlinkConfig ==
    /\ At("deonboard", "unlink")
    /\ out' = [out EXCEPT !.config = FALSE]
    /\ Go(IF vm = "none" THEN "evidence" ELSE "stop")
    /\ UNCHANGED <<sops, deo>> /\ KeepDeo

DeonboardEvidence ==
    /\ At("deonboard", "evidence")
    /\ deo' = TRUE /\ Done
    /\ UNCHANGED <<sops, out>> /\ KeepDeo

(***************************************************************************)
(* Faults and the environment                                              *)
(***************************************************************************)
\* An exception: a candidate that is not complete is removed again.
CommandFails ==
    /\ main.op # "none" /\ Fault /\ Done
    /\ ret' = IF At("client", "mark") THEN [ret EXCEPT !.cand = FALSE] ELSE ret
    /\ UNCHANGED <<vm, manifest, expired, record, prep, sops, out, vmgen, target, deo, drawn, edits>>

\* SIGKILL, a power cut or a failed write of the journal; a kill inside the replacement of
\* the journal leaves a temporary file.
KillMain ==
    /\ Kills /\ main.op # "none" /\ Fault /\ Done
    /\ ret' \in IF main.op = "client" /\ main.pc \in {"mark", "published", "verified"}
                  THEN {ret, [ret EXCEPT !.litter = TRUE]} ELSE {ret}
    /\ UNCHANGED <<vm, manifest, expired, record, prep, sops, out, vmgen, target, deo, drawn, edits>>

\* _write_new(): the document that this step creates.
Writing ==
    CASE At("finalize", "authority") /\ ~Outputs /\ out.entry = 0 -> "authority"
      [] At("finalize", "config") /\ ~out.config -> "config"
      [] At("finalize", "executor") /\ ~out.executor -> "executor"
      [] At("finalize", "bind") /\ LeaseFree /\ Live /\ record.state = "none" -> "record"
      [] At("finalize", "bindfile") /\ out.binding = 0 -> "binding"
      [] At("finalize", "proof") /\ ~out.promo -> "proof"
      [] At("client", "journal") /\ ret.state = "none" /\ ~ret.receipt /\ ~ret.cand /\ InProject -> "journal"
      [] At("client", "receipt") /\ ~ret.receipt -> "receipt"
      [] At("executor", "claim") /\ record.state = "none" /\ vm = "running" /\ ~ret.output -> "record"
      [] At("executor", "evidence") /\ ~ret.output -> "retired"
      [] At("deonboard", "evidence") /\ ~deo -> "evidence"
      [] OTHER -> "none"

\* A kill before that document is whole; a writer that only fails removes it.
KillWriting ==
    /\ Kills /\ Writing \notin out.torn \cup {"none"} /\ Fault /\ Done
    /\ out' = [out EXCEPT !.torn = @ \cup {Writing}]
    /\ UNCHANGED <<vm, manifest, expired, record, prep, sops, ret, vmgen, target, deo, drawn, edits>>

\* _read_private(): nobody reads, replaces or removes a document that was cut.
TornRefused ==
    /\ Writing \in out.torn /\ Done
    /\ UNCHANGED <<vm, manifest, expired, record, prep, sops, out, ret, vmgen, target, deo>> /\ Rest

KillPrepare ==
    /\ Kills /\ prep # "idle" /\ Fault
    /\ prep' = "idle"
    /\ UNCHANGED <<vm, manifest>> /\ Others

Expire ==
    /\ manifest /\ ~expired
    /\ expired' = TRUE
    /\ UNCHANGED <<vm, manifest, record, prep, main, sops, out, vmgen, target, ret, deo>> /\ Rest

\* The guarded destroy of StagingCleanup publishes its evidence.
TargetDestroyed ==
    /\ target = "up"
    /\ target' = "absent"
    /\ UNCHANGED <<vm, manifest, expired, record, prep, main, sops, out, vmgen, ret, deo>> /\ Rest

\* Another client is issued under the same project lock.
OtherEdit ==
    /\ main.op = "none" /\ edits < MaxEdits
    /\ edits' = edits + 1
    /\ sops' = [sops EXCEPT !.edits = @ + 1]
    /\ UNCHANGED <<vm, manifest, expired, record, prep, main, out, vmgen, target, ret, deo, drawn, faults>>

Step ==
    \/ WriteAuthority \/ EnsureConfig \/ EnsureExecutor \/ CheckRegistry \/ Reconcile \/ Bind
    \/ WriteBinding \/ SavePending \/ Install \/ PublishEntry \/ ForgetPending \/ WriteProof
    \/ Resume \/ CreateCandidate \/ MarkCandidate \/ PublishCandidate \/ MarkPublished
    \/ WriteReceipt \/ MarkVerified
    \/ ClaimRetirement \/ StopVm \/ DeleteVm \/ RetiredEvidence
    \/ UnsetSecrets \/ Unregister \/ UnlinkConfig \/ DeonboardEvidence
Continue == (Writing \notin out.torn /\ Step) \/ TornRefused
Next ==
    \/ Prepare \/ VmStarts \/ StartInterrupted \/ WriteManifest \/ PrepareFails \/ Release
    \/ FinalizeBegin \/ ClientBegin \/ ExecutorBegin \/ DeonboardBegin \/ Continue
    \/ InstallUnknown \/ CommandFails \/ KillMain \/ KillWriting \/ KillPrepare
    \/ Expire \/ TargetDestroyed \/ OtherEdit

Spec == Init /\ [][Next]_vars

(***************************************************************************)
(* Properties                                                              *)
(***************************************************************************)

\* The VM of a bound client is removed last: "and only then stops/deletes the
\* root-marker-bound profile".  No kill, retry or retirement command removes it while the
\* client still has credentials or an assignment.
BoundOutlivesClient ==
    record.state = "assigned" /\ vm \in {"none", "stopped"} =>
        ~sops.client /\ out.entry = 0 /\ ~out.config

\* "it does not install a new generation over a completed binding": however often the
\* finalization is cut and repeated, the generation in the VM, the pending and the
\* published one are all the generation of the binding.
OneGeneration ==
    out.binding # 0 =>
        /\ record = [state |-> "assigned", gen |-> out.binding]
        /\ {vmgen, out.pending, out.entry} \subseteq {0, out.binding}

\* A promotion proof stands on a committed installation: the binding is in the VM, or
\* the VM is already gone with the client.
ProofIsCommitted ==
    out.promo => out.binding # 0 /\ vmgen = out.binding

\* No retirement of one client takes back what another writer of the project did
\* (_publish_candidate compares with the ciphertext the candidate was made from).
EditsKept == sops.edits = edits

=============================================================================
