# TLA+ verification of ripdpi-vpn-deploy

This directory holds TLA+ models of the parts of `ripdpi-vpn-deploy` that must
survive crashes, races, lost answers and half-finished work; the TLC runs that
check them on small instances; and TLAPS proofs of the main results for
instances of any size. Source paths below are relative to the repository root.
`PROJECT.json` names the definitions with the source lines they stand for
(`map`; a helper inside the lines of an action is not repeated), the hazards the
properties are for (`hazards`), and a faulty variant of the code for every
property (`mutants`).

1. The system
2. The modules and the code
3. Compositions: how one run checks several components
4. Runs and bounds
5. Fairness
6. Proofs
7. Where the code and its documentation differ
8. What is not modelled
9. Plan

---

## 1. The system

The repository provisions and operates a fleet of VPN hosts. An operator's
machine (Ansible, Python scripts, Terraform) drives hosts over SSH. A host runs
several transports behind a *transport-egress* controller; some hosts also
publish subscription links. Around the fleet are a sentinel that measures it, a
monitoring plane with an independent dead-man receiver, and disposable staging
nodes that must be destroyed with proof.

Nearly all of it is *durable transactions*: a journal, several files or remote
systems, one or more commands that go on from the journal, and timers, boot
units and operators that compete with them. The components share few
variables; what they have in common is the question "what if it stops here?".

### 1.1 Components, state, operations

| Plane | Component (module) | State | Operations |
|---|---|---|---|
| access | SSH transaction (`SshdTransaction`) | files under `/etc/ssh`, `transaction.json`, archive, daemon, recovery timer | `prepare`, `apply`, `confirm`, `rollback`, `recover`, `boot_recover` |
| | SSH planner (`SshdPlan`) | main file and fragments 10, 20, 50 | ownership and baseline plans, apply and undo file by file |
| | SSH recovery package (`SshdBundle`) | generations, selected and next one, units, proof | publish, dispatch, prove, change |
| | first boot (`BootstrapSshd`), its acceptance (`CloudFinalAcceptance`) | fragments, units, completion marker; VM, case, evidence | boot chain; clean and interrupted cases |
| | Tailnet promotion (`TailnetPromotion`, `TailnetGuest`, `GuestPromise`) | provider firewall, Terraform state, lease receipt, guest journal and fragment | promote, guard daemon, guest transaction |
| | Tailnet enrollment (`TailnetEnrollment`) | journal with lease, firewall, login, ssh | enroll, confirm, roll back, two boot phases, timer |
| node | runtime transaction and route owner (`RuntimeTransaction`) | six journals, hard links, unit, running generation | `apply`, `recover`, `compensate_latest`, `begin`, `restore`, `finish`, `admission` |
| | revocation barrier (`RevocationBarrier`) | fence, receipt, credential files, unit | `guard`, `begin`, `activate`, `abort`, `admit` |
| | releases (`ReleaseActivation`) | release directory, links `current`, `public`, `previous` | stage, activate, compensate |
| | nginx and public TLS (`NginxTransaction`) | files, receipts, publication and site journals, issuer lease | publish, begin, restore, commit, issue, renew, retire |
| | geodata (`GeodataPublication`) | a pair of files, pending directory, Xray | publish, recover |
| | subscription delivery (`SubscriptionHost`) | markers, fence, payloads, mirror generations | serve, maintain, mirror |
| services | sender queue (`SenderQueue`) | live queue, snapshot, stage, journals | activate, recover, guard |
| | builds (`BuildReceipt`, `BuildGuardian`) | outputs, backups, journal, receipt; four processes and pipes | converge, reconcile; one guarded build step |
| | watchdog (`Watchdog`) | state file with budgets, lock, units | one run: probe, count, restart, alert, save |
| control | device lifecycle (`DeviceLifecycle`) | documents, runtimes, links, journals | plan, run, resume |
| | fleet maintenance (`FleetMaintenance`) | plan journal, private rooms, locks | prepare, preview, start, resume |
| | deployment (`DeployController`) | private input copies, manifest, SSH masters | deploy, dry run |
| | tasks (`TaskLifecycle`) | issue records, receipts, Git history | create, transition, verify, archive, close, purge |
| | disposable client (`DisposableClient`), sentinel (`SentinelInstall`) | VM, encrypted client, registry, generations | prepare, bind, finalize, retire; stage, install, commit |
| evidence | staging cleanup (`StagingCleanup`, `DestroyPromise`), `ObservabilityCleanup` | manifests, claim, evidence, provider resources | publish, claim, destroy, certify; snapshot, seal, run |
| | staging acceptance (`StagingAcceptance`) | row journal, receipts, injected faults | advance, restore, observe |
| | AWG lane (`AwgRotation`, `EvidenceState`) | peers and keys on three machines; PASS records | rotate, roll back; install, launch, record |
| | alerting (`DeadmanReceiver`, `TelegramRelay`) | pulses, incident, receipts, flood deadline | pulse, tick, notify; relay, canary, push |

The components that are not modelled are listed in `PROJECT.json` with the
reason; section 8 names the important ones.

### 1.2 How they interact

* Roles on the operator's machine call helpers on the host under non-blocking
  locks; a second SSH connection confirms what the first applied. Timers and
  boot units recover what nobody confirmed.
* Every role that changes a transport builds a candidate and calls the runtime
  transaction; a play over the whole route opens an *outer* record first. The
  egress controller asks `admission()` before it starts anything and once a
  second while it runs. A device revocation arms a record there and a fence in
  the barrier; while either is unfinished, recovery may only roll forward.
* A device operation journals its whole intent in one document, then writes
  every document, deploys every host and publishes or revokes every link, while
  operators, the issuer and the hosts change the same things.
* The Tailnet controller relies on the guest's promise (`GuestPromise`), which
  `TailnetGuest` implements; `TailnetPromotion` is built on the promise.
* The acceptance harness drives the very first-boot chain of `BootstrapSshd`.

### 1.3 What is hard about it

A crash between any two durable writes; state that was read before a lock was
released; a timer, a boot unit and an operator racing for one journal; late,
lost and repeated answers; clocks that step; foreign writers; receipts that
outlive what they vouch for; two journals for one thing; budgets and capacities
at their limits; retries that meet what an earlier try left. The 40 entries of
`hazards` in `PROJECT.json` name them at their lines with the properties that
would catch them.

---

## 2. The modules and the code

Each component has one module: its durable and volatile state as variables, one
action per step between two points where the code may die or be overtaken, and
its properties. Some conventions hold throughout.

* A *kill*, *fault*, *reboot* or lost answer is an action of its own and is
  bounded by a named constant (`MaxFaults`, `MaxKills`, `MaxAdverse`, ...).
* A file or message is a model value or a small number: what the code compares
  (digest, owner, mode, identity) is one comparison of values. Checks that can
  only detect somebody else in a private directory are left out.
* Validators, probes and provider answers are nondeterministic choices.
* Non-blocking locks that make a late caller change nothing become guards.
* A definition whose comment begins with "Mutation" (or `mutant:`) is a faulty
  variant of the definition after it. It is part of no specification; `mutants`
  in `PROJECT.json` names the property it must break.

Per module, what a reader of the code will look for:

* **SshdTransaction.** Files `1..N` are owned, `0` stands for the rest of the
  include graph. `apply` has two lock periods (`ApplyCheck`, `ApplyBegin`);
  `awaiting` are its callers in between. `Undo*` is `_rollback`, shared by
  `rollback`, `recover` and `boot_recover`. `SshdGuard` is its promise.
* **SshdPlan.** An empty part of a file is a missing file. Options, owners and
  Match blocks are kept; the suffix of a Match-user block and byte-level parsing
  are not modelled.
* **SshdBundle.** Only a proof tells executions of a unit apart. A failing
  recovery run between proof and lock may stay hidden from the proof; an
  operator does not stop the timer while a change is applied. A boot run that
  is killed leaves the listener closed until it is started from the console.
* **BootstrapSshd, CloudFinalAcceptance.** The second EXTENDS the first: the
  container of a case is the node of the first boot, and only the harness
  takes it down.
* **TailnetPromotion, GuestPromise, TailnetGuest.** Controllers, daemon,
  Terraform children and guest move independently; a request carries the
  generation and state it was read in. Digests are abstracted to generations;
  the two deadlines are independent clocks. `UnwindOrder` is checked with one
  controller.
* **TailnetEnrollment.** Torn temporary files are a constant (`Torn`), because
  with them `ssh` may stay closed (section 7).
* **RuntimeTransaction.** Inodes are numbered in staging order, `0` is absence;
  every rename, link, unlink and record write is a step. `Deferred` paths are
  published after readiness.
* **RevocationBarrier.** A barrier process outlives the play that called it;
  "any holder of the state directory" is what the code takes for a publisher.
* **ReleaseActivation.** Several controllers stage and activate; compensation is
  a step of its own and may itself be cut.
* **NginxTransaction.** Two instances are checked: a site of two owners, and a
  certificate issuer beside a foreign owner. A start by hand in the middle of a
  publication is not modelled; closing of the journal is not a checked liveness
  property.
* **GeodataPublication.** Metadata is part of the generation; the order in which
  the two names are replaced is free; nobody else edits the files. `Cuts` admits
  kills inside the writes of the journal.
* **SubscriptionHost.** Single-use grants only. Ordinary documents, the
  migration snapshot and the audit log are left out. TLC checks it with a
  mirror; the proofs cover both settings.
* **SenderQueue.** The sender's own file publication is reduced to its records.
  A boot retry may start on a half-restored queue. Checks of unit fields and a
  start by an operator under the lock are not modelled; the limit of 64
  orphans is a refusal.
* **BuildReceipt, BuildGuardian.** Builds that reproduce their bytes and builds
  that do not are two instances. The guardian's deadlines are choices: any
  process may be slower than any wait.
* **Watchdog.** Of the clock only matters whether the recorded hour has passed;
  two runners are the timer and `make verify`. That a unit is restarted again
  and again needs `KICKS_PER_HOUR_MAX` at least the number of failing units.
* **DeviceLifecycle.** One device, the whole fleet; `stamp` counts foreign
  edits. A revocation sees its canary served, then denied.
* **FleetMaintenance.** One plan with two nodes, and two plans that share a node.
* **DeployController.** What `site.yml` converges is three parts: the roles
  tagged `always`, those of one other tag, the rest. `DEPLOY_TAGS` is empty, that
  tag, or `manifest`; the checkout and the inputs may change at any time, inside a
  playbook too, and an approval binds only the inputs it names. `ManifestTrue`
  speaks of the parts the tags reached and of playbooks during which the checkout
  stood still; section 7 has the rest.
* **TaskLifecycle.** A linear history. Merged lanes, federation and the board
  are not modelled. `transition` and `close prepare` check what the commands
  check and no more; the records they can leave that every later command refuses
  are named (`RefusedRecord`), and `AcceptedPortfolio` says there are no others.
* **DisposableClient, SentinelInstall.** Every command is a sequence of durable
  writes that a kill may cut; a job on the sentinel outlives its controller. A
  document that `_write_new` creates may be torn (`KillWriting`); nothing reads,
  replaces or removes it afterwards (`TornRefused`).
* **StagingCleanup, DestroyPromise.** One lock per node, inherited by Terraform.
  API failures are faults. `DestroyPromise` is the abstract specification of
  both provider guards.
* **ObservabilityCleanup.** A kill during an apply finds the deletion done or not
  begun, and a Terraform process that survives its controller is part of the
  kill. Two controllers are checked with kills, and one with kills, deletions that
  fail half way and foreign changes of the Terraform state.
* **StagingAcceptance.** A row of the acceptance is a kind by what it leaves
  behind. A silence is known by the digest of its approval: once the approval is
  replaced it is nobody's (`Orphan`) until it ends by itself.
* **AwgRotation, EvidenceState.** A key stands for configuration, peer and
  digests. Overlapping forced commands are a constant (`Overlap`). A commit whose
  failure finds it committed ends well only if the server's receipt names the
  expected key. Evidence is fresh for one unit of time out of two, so it may be
  stale when it is looked at again. That an interrupted publication of evidence
  is replayed is not checked as liveness.
* **DeadmanReceiver.** Instants are ages, saturated above the largest interval
  they are compared with, so behaviours are unbounded and states finite. The run
  `retries` has two instances: a plane whose pulses arrive in their interval or
  not at all (`PromptNext`), and one that has fallen silent for good.
* **TelegramRelay.** Two workers, one bot, receipts in memory and on disk. An
  alert the relay refuses with a 4xx is not retried; that one is sent in the end
  is claimed of the others. `PushProof` counts any canary acknowledged since the
  push began.

---

## 3. Compositions

Five of the components with proofs have a run of their own:
`SshdTransaction`, `RuntimeTransaction`, `RevocationBarrier`,
`Watchdog` and `SubscriptionHost`. The other runs use a *composition*
(`MCNode`, `MCAccess`, `MCControl`, `MCEvidence`, `MCProgress`, `MCRetries`)
that instantiates several components. The components of one composition share
no state, so the first state picks one of them (`focus`, which never changes)
and the behaviour is a behaviour of that component; a variable it does not have
keeps the model value `NotUsed`. Its constants are fixed in the
`INSTANCE ... WITH`.

A property of a composition is a conjunction of `focus = "x" => X!P` over its
components: `P` is stated and commented once, in the component's module, and the
type invariant of every component is among them. A leads-to of `MCProgress` or
`MCRetries` is a disjunction on both sides; as `focus` never changes it says
`focus = "x" /\ p ~> q` for each `x`. `followed` there is the tuple of variables
of the followed component, and `Of("x", A)` is its action `A`. The `ASSUME` of a
composition evaluates the assumptions of every instance.

Nothing is lost by the composition: the reachable states are the disjoint union
of those of the instances. Nothing is gained either; interaction between
components is inside the modules (section 1.2).

---

## 4. Runs and bounds

`tlc -config <cfg> <module>` here; each ends within four minutes on two
workers and explores its state space completely.

| Run | Module, cfg | Components and bounds | States |
|---|---|---|---|
| `ssh` | `SshdTransaction`, `Ssh.cfg` | 2 owned files, 2 contents, 2 callers, 2 generations, 1 foreign edit, 1 crash, fault or reboot | 2.3 M |
| `runtime` | `RuntimeTransaction`, `Runtime.cfg` | an ordinary and a deferred path, 2 contents, 1 revocation, 2 staged inodes, 2 adverse events | 2.0 M |
| `barrier` | `RevocationBarrier`, `Barrier.cfg` | 3 revocations, one with the role switched off, 5 adverse events | 0.09 M |
| `watchdog` | `Watchdog`, `Watchdog.cfg` | 2 runs, 2 units, 1 kill | 2.4 M |
| `host` | `SubscriptionHost`, `Host.cfg` | 2 grants with a mirror, 1 marker of capacity, 2 pulls, 1 fault | 0.2 M |
| `node` | `MCNode`, `Node.cfg` | geodata (2 kills), nginx site and issuer (1), releases (2 controllers, 2), sender (2), builds reproducible or not (2), guardian (3) | 2.3 M |
| `access` | `MCAccess`, `Access.cfg` | SSH promise (1), planner (1 edit, 1 fault), bundle (2 generations, 3), first boot (3), acceptance (2 runs), promotion, guest (4), enrollment (2 controllers) | 2.2 M |
| `control` | `MCControl`, `Control.cfg` | maintenance (2 nodes; 2 plans), devices (2 hosts, 4 operations), deployment (2 hosts, 2 runs, three choices of tags), tasks (three portfolios, one with a kill), client (4), sentinel (3 generations; 2 registries) | 2.0 M |
| `evidence` | `MCEvidence`, `Evidence.cfg` | both cleanup guards (2), acceptance (12 rows, 3 kills), observability cleanup (2 controllers; foreign changes), rotation (3), evidence (3 runs), dead-man (two settings), relay (2 workers) | 1.9 M |
| `progress` | `MCProgress`, `Progress.cfg` | liveness of 13 components | 0.36 M |
| `retries` | `MCRetries`, `Retries.cfg` | liveness of 12 components in 15 instances | 0.17 M |
| `tailnet_cut` | `TailnetPromotion`, `TailnetCut.cfg` | a claim of the code that it does not keep (section 7) | |

### What the passing runs show

* **`ssh`.** Whatever step a process dies after, whoever wins the lock, and
  whichever clock passes the deadline: the journal says what is on disk
  (`DiskMatchesRecord`), a decided transaction is what the daemon serves
  (`DaemonMatchesVerdict`), no listener opens over an undecided transaction of
  an earlier boot (`ListenerAfterReconcile`), a verdict is changed by no late
  call and overwritten only once archived (`VerdictFinal`), a restore never
  hides drift it could have seen (`DriftNotHidden`), and the second lock period
  of `apply` goes on only with the record of its first
  (`AppliesWhatWasChecked`).
* **`runtime`.** No sequence of steps and crashes leaves storage that the next
  operation refuses, or an open route its owner cannot close (`NeverWedged`); a
  finished revocation is never undone (`RevocationStands`); without a publisher
  nothing but the accepted generation starts, and under an unfinished
  revocation never the old credentials (`OnlyAcceptedStarts`).
* **`barrier`.** The unit is down while credentials are written
  (`DownWhileWriting`), a receipt is final (`ReceiptFinal`), and what the
  controller takes for done is recorded on the host (`DoneIsRecorded`).
* **`watchdog`.** The budgets of restarts and alerts per hour and the threshold
  of consecutive failures hold across concurrent and killed runs (`KickBudget`,
  `AlertBudget`, `ThresholdHonoured`).
* **`host`.** A grant is handed out at most once, its consumption stays proven
  after its marker is gone, markers stay within capacity (`AtMostOnce`,
  `ProofStands`, `WithinCapacity`).
* **`node`.** `PublishedWhole`: geodata are a whole pair and what Xray reads
  (`SettledWhole`, `PairKept`); nginx serves what the receipt names and no dead
  run makes the next one refuse (`ReceiptIsServed`, `NeverForeign`); selected
  releases are complete and compensation restores exactly (`SelectedComplete`,
  `CompensationExact`). `BuildsAndQueueKept`: a failed activation never loses or
  triplicates the retained queue and rewinds only what was not committed
  (`Recoverable`, `AtMostTwoCopies`, `RewindsOnlyUncommitted`); builds are all
  or nothing and reported truthfully (`AllOrNothing`, `Settled`,
  `ReportsTruth`); a build step leaves no process (`AcceptedIsQuiet`,
  `FailedIsQuiet`). `WholeSteps`: `PublicationIsWhole`, `DeploymentIsWhole`,
  `IssuerUndisturbed`, `CommitsOwnPin`, `RestoredExactly`.
* **`access`.** `WayInKept`: the planner keeps the effective policy in every
  intermediate state (`PolicyStable`, `AlwaysStarts`, `OwnedOnce`,
  `BaselineAgain`); the package always recovers with the code that made the
  change (`ChangeRunsSelected`, `AlwaysRecoverable`, `ListenerReturns`); the
  first boot marks only what serves and refuses exactly (`MarkerServes`,
  `RefusedExactly`, `NeverOpens`), its acceptance is proven and cleans up
  (`AcceptedIsProven`, `ProfileReleased`). `TailnetGuarded`: the promotion never
  opens the provider without a guard and commits only with the guest
  (`GuardedWhileOpen`, `CommitNeedsGuest`, `UnarmedReaped`); guest and
  enrollment end decided and accounted for (`Settled`, `GuardedIdentity`,
  `Accounted`, `HandoffTrue`). `OrderlySteps`: `UnwindOrder`,
  `BootsConfirmedOnly`, `ForeignKept`, `CommitStands`. `KeepsPromise` is the
  refinement of `SshdGuard` by the SSH transaction and of `GuestPromise` by the
  guest's helper.
* **`control`.** `ClaimsTrue`: plaintext is claimed and gone
  (`PlaintextClaimed`, `VerdictClean`); a completed revocation is complete
  (`RevokedForGood`); deployments (`InputsBound`, `StopsAtFailure`,
  `ManifestTrue`, `MastersClosed`); tasks (`DeletionProven`,
  `DoneFollowsReview`, `AcceptedPortfolio`); the client (`BoundOutlivesClient`,
  `OneGeneration`, `ProofIsCommitted`, `EditsKept`); the sentinel
  (`SettledWhole`, `PublishedStands`, `ReportsCommitted`, `NeverUnaccounted`).
  `ApprovedSteps`: `SerialAndApproved`, `AcceptsWhatRuns`, `CompleteIsServed`,
  `ForeignEditsKept`.
* **`evidence`.** `EvidenceTrue`: destruction (`OneApply`, `EvidenceOwned`;
  `TouchedIsRecorded`, `AbsenceIsReal`, `AllCheckedFirst`), acceptance
  (`FaultAccounted`, `CompletedIsProven`), rotation and evidence
  (`PassIsRotated`, `Paired`, `LatestIsSecond`, `NothingLost`). `AlertsTrue`:
  the dead-man receiver (`RecoveryOwed`, `StatusTruthful`, `NoReplay`) and the
  relay (`FloodRespected`, `EditHonest`, `PushProof`, `StampDurable`).
  `NothingRepeated`: `NeverRepeated`, `RecoveryOnce`, `SequenceFresh`.
  `KeepsDestroyPromise` is the refinement of `DestroyPromise` by both guards.
* **`progress`, `retries`.** `EventuallyDecided` for the SSH transaction;
  `Settles`, `Resumes` and `ComesBack` collect one leads-to per component, each
  explained beside its definition.

### Why the bounds are enough

Two of everything that can be confused (files, contents, generations, callers,
hosts, controllers, workers) is the least with a partial write, a stale
reference or a race. Three generations are used where an error needs one after
a recovery. A crash is rarely needed more than twice: the second hits the
recovery from the first; where a journal has more phases the bound is 3 to 5.
Every bound is a named constant in the guard of the action it bounds. The proofs
of section 6 hold for every value. Symmetry is used only for values that are
never compared or ordered, and in no liveness run. Deadlock is checked in `ssh`
and `watchdog`; in the other runs the systems legitimately have nothing left to
do once the bounds are spent.

Every property has a *mutant* (`PROJECT.json`): a definition changed as a
plausible bug would change the code. TLC finds that property violated under the
run's own configuration.

---

## 5. Fairness

No safety property uses fairness. In `MCProgress` and `MCRetries` the conjuncts
of `Fairness` are grouped by component, with the reason above each group.

* *Weak fairness* of the steps of a running process (commands have timeouts,
  threads are scheduled), of timers and of boot units systemd owes, and of the
  passing of time. For the SSH transaction nothing else is assumed: no operator
  needs to come back.
* *Weak fairness of a repeated command* where a role or timer repeats it: a
  deployment converges builds again, the sender's role begins with `recover`,
  the AWG timer starts its lane again.
* *Strong fairness* where a process polls for a non-blocking lock and cannot
  lose the race for ever (the promotion's tick, flock in releases, the
  sentinel's job), and where the *operator* repeats the documented command
  until it is through (resume of a device operation or maintenance plan,
  recovery of a cleanup). These properties say that repeating is enough, not
  that somebody does it.
* Kills and faults are bounded, since a run that is killed at the same place
  for ever makes no progress.

---

## 6. Proofs

TLAPS checks the theorems of eight components. Six have a proof module that
EXTENDS the component; `ReleaseActivation` and `FleetMaintenance` hold their
proofs themselves, after the properties. The theorems hold for **every** value of
the constants within the assumptions named below, which are `ASSUME`s of the
component, or hypotheses of the theorem that the composition assumes of its
instance; TLC evaluates them in every run of it. Together they state 23 of the 40
properties the runs check, and the parts that `TailnetGuest`, `ReleaseActivation`
and `FleetMaintenance` have in the properties of the compositions.

### 6.1 SshdTransactionProofs

Assumptions: `NAssumption` (at least one owned file) and `BoundsAssumption` (the
bounds are natural numbers). `Implementation` also assumes `MaxEdits = 0`, since
an editor of `/etc/ssh` can put any content before a listener.

| Theorem | States |
|---|---|
| `Typed` | `Spec => []TypeOK` |
| `JournalTellsDisk` | `Spec => []DiskMatchesRecord` |
| `VerdictIsServed` | `Spec => []DaemonMatchesVerdict` |
| `NoListenerBeforeReconcile` | `Spec => []ListenerAfterReconcile` |
| `VerdictStands` | `Spec => VerdictFinal` |
| `DriftStaysVisible` | `Spec => DriftNotHidden` |
| `CheckedIsApplied` | `Spec => AppliesWhatWasChecked` |
| `Implementation` | with `MaxEdits = 0`, `Spec => KeepsPromise` |

So every property of the run `ssh` is a theorem, and so is the refinement that
the run `access` checks on an instance. None of the invariants is inductive: they
speak of the journal's status, while what a step does depends on where in an
operation the lock holder is. `IInv` adds what is known at each place:
`ControlInv` (which status each program point belongs to), `StartInv` (boot
recovery only runs while the listener is down), `DiskInv` and `DaemonInv` (after
a verification the disk is exactly `after` or `before`; between reload and
verdict the daemon has loaded the disk), `BootInv`, `ArchiveInv` (a decided
record is archived before it is overwritten) and `WindowInv` (a write directly
follows a check of the whole graph, up to what was edited in between). Each
conjunct has a lemma with one step per action. The action properties follow from
one step out of `IInv`. `StepKeepsPromise` maps every step to a step of
`SshdGuard` or a stutter; `PrepareTries`, `ConfirmAccepts`, `UndoDrops` and
`ReloadLoads` are the four that are not stutters.

### 6.2 RevocationBarrierProofs

Assumption: `BarrierConstants` (the number of revocations and the bound on
failures are natural numbers, the role is switched off at some of the
revocations).

| Theorem | States |
|---|---|
| `Typed` | `Spec => []TypeOK` |
| `DownUntilWritten` | `Spec => []DownWhileWriting` |
| `ReceiptsFinal` | `Spec => []ReceiptFinal` |
| `DoneRecorded` | `Spec => []DoneIsRecorded` |

Every property of the run `barrier` is a theorem. What makes them hold is that
controller, play, barrier process and fence, four parties that die one without
the other, can only speak of one revocation: `AuthorityInv` says that whoever
names a revocation names the pending one, which is the latest. `CallInv` ties a
process to the call that started it and says whom it will answer; `WantInv` says
that what a play still may write is as new as the fence (a receipt would
otherwise be undone by a play that was rendered before it); `FreshInv` is
`ReceiptFinal` together with the process that is about to record it; `DownInv`
says that a play that writes has no process left which could start the unit
again. `DoneIsRecorded` is inductive relative to these.

### 6.3 SubscriptionHostProofs

Assumption: `HostConstants` (finitely many grants, times and bounds are natural
numbers, lifetimes at most the horizon's). Both settings of `Mirror` are covered.

| Theorem | States |
|---|---|
| `Typed` | `Spec => []TypeOK` |
| `HandedOutOnce` | `Spec => []AtMostOnce` |
| `ConsumedStaysProven` | `Spec => []ProofStands` |
| `CapacityHeld` | `Spec => []WithinCapacity` |

That a grant is handed out once rests on the marker being durable *before* the
payload leaves and on the fence moving *before* a marker is dropped. `IInv` says
for every request in progress what it has already made durable, and for every
grant that was handed out that its marker is there or the fence has passed it;
no clock moves the fence back. `CapacityInv` counts the request that has been
admitted but has not made its marker yet.

### 6.4 WatchdogProofs

Assumption: `WatchdogConstants` (thresholds and bounds are natural numbers, a
configuration check fails known units only). Runs and units are arbitrary sets.

| Theorem | States |
|---|---|
| `Typed` | `Spec => []TypeOK` |
| `KicksBounded` | `Spec => []KickBudget` |
| `AlertsBounded` | `Spec => []AlertBudget` |
| `ThresholdKept` | `Spec => ThresholdHonoured` |

`LockInv` says that a run past admission holds the lock, so all others have read
nothing they may use. `KickInv` and `AlertInv` relate the restarts (alerts) that
happened in the recorded window to the counter on disk and to the copy of the
run, with the two cases that matter: an attempt that is reserved but not made,
and a window that a run has begun but not recorded. `StreakInv` says that a
recorded streak is never longer than the true one. `OneRun` reduces a step of one
run to the counters of that run.

### 6.5 RuntimeTransactionProofs

Assumptions: `PathsAssumption` (the deferred paths are paths), `NoneAssumption`
(there is some content, and `None` is neither content nor an authority) and
`BoundsAssumption`. Paths, contents and revocations are arbitrary sets.

| Theorem | States |
|---|---|
| `Typed` | `Spec => []TypeOK` |
| `NeverWedgedAlways` | `Spec => []NeverWedged` |
| `RevocationStandsAlways` | `Spec => []RevocationStands` |
| `OnlyAcceptedStartsAlways` | `Spec => OnlyAcceptedStarts` |

Every property of the run `runtime` is a theorem. `NeverWedged` speaks of the
states between operations and says nothing of the 55 kinds of steps that a crash
may cut off, so it is far from inductive. `IInv` has two halves, and each action
has a lemma for each half it can disturb (`<Action>Stored`, `<Action>Known`):

- `Storage` is about the directory alone, whoever is working on it. The intents
  are `WellFormed`: a staged inode is new, and neither the selected nor the
  retained one of its path. `OneJournal`: one transaction is open at a time.
  `LinksOwned`: a fixed link exists only under the journal that claims it.
  `PrepInv`, `PendingInv` and `CompInv` say that the strict inspection of an open
  journal succeeds, that what it does not cover stays as accepted, and that its
  receipt is accepted only when all its nodes are selected. `QuietInv` is the
  inspection without a journal. `NodesInv` bounds the age of every inode.
- `Known` is about what the lock holder and the records around the journal rely
  on. `ControlInv` says what has been done at each place of an operation.
  `BeforeKept`: until the commit, and under an unfinished revocation, the old
  nodes stay linked. `LastInv` and `FinishedInv`: `last.json` leads to what is
  accepted, and nothing open leads back behind an accepted revocation. `RouteInv`
  and `RouteJob`: inside an open route there is one step to explain, from the
  retained receipt. `FencedInv`: under an unfinished revocation only its owner
  works, on its own plan. `StandsInv` says of every inode an open journal or
  `last.json` could still select that it is not older than the accepted
  revocation, which is what makes `RevocationStands` inductive.

`OnlyAcceptedStarts` follows from one step out of `IInv`: `IdleStart` shows that
without an operation only the controller starts anything, `ColdStart` that from a
stopped controller six steps of the publisher do, and `FencedStart` goes through
the six. TLC has checked `IInv` on the instance of the run before it was proved.

### 6.6 TailnetGuestProofs

Hypothesis: `GuestAssumption` (the fragments of other writers and "nothing
loaded" are not canonical fragments; the bounds are natural numbers). Fragments
are an arbitrary set. The run `access` checks the same properties on an instance,
inside `TailnetGuarded`, `OrderlySteps` and `KeepsPromise`.

| Theorem | States |
|---|---|
| `Typed` | `Spec => []TypeOK` |
| `SettledAlways` | `Spec => []Settled` |
| `BootsConfirmedOnlyAlways` | `Spec => [][BootsConfirmedOnly]_vars` |
| `ForeignKeptAlways` | `Spec => [][ForeignKept]_vars` |
| `Implementation` | `Spec => KeepsPromise`, the refinement of `GuestPromise` |

`Settled` speaks of a decided transaction only, but whether a decision holds in
the kernel is settled by the steps before it. `CallInv` says which steps a call
may be at and that only boot-recover runs while the machine boots; `JournalInv`
which status the record has at each of them; `FileInv` what the fragment and the
loaded rules are: both must be the candidate before `applied` is saved and the
old fragment before `rolled_back` is, except at boot, where nothing is loaded
yet. `DecidedInv` is then inductive: with a decided transaction the fragment on
disk is not the losing one either, which is what the next boot reads.
For `Implementation`, `ShownSt` and `ShownLate` are what a controller sees. A
running apply shows as prepared until it is sealed, or fails, or is cut after its
first save; a deadline that passes during apply or confirm shows at the end of the
call (`LateShows`). Five lemmas (`Stutters`, `Prepared`, `Applied`, `Confirmed`,
`Reverted`) turn what is seen into moves of `GuestPromise`, and one lemma per
group of actions says which of them it is.

### 6.7 ReleaseActivation

Hypothesis: `ReleaseAssumption` (`None` is no controller, version or pin; version
1, which may be there without a receipt, is a version; the bound on failures is a
natural number). Controllers, versions and pins are arbitrary sets. The run `node`
checks the same properties on an instance, inside `PublishedWhole` and
`WholeSteps`.

| Theorem | States |
|---|---|
| `Typed` | `Spec => []TypeOK` |
| `SelectedCompleteAlways` | `Spec => []SelectedComplete` |
| `CompensationExactAlways` | `Spec => []CompensationExact` |
| `CommitsOwnPinAlways` | `Spec => [][CommitsOwnPin]_vars` |

A controller decides before it has the lock and acts on three links one after the
other. `LockInv` says that being inside `activate` and holding the lock are the
same, so a step of one controller leaves what another knows (`Together`).
`Knows(c)` says what that is: between publication and receipt the candidate is
its own pin, from the first link on the receipt is too, and at each place which
links are moved and which are still, or again, as found. `SelectedComplete` needs
`BeforeInv`: the links a compensation would put back name releases that are in
place as well.

### 6.8 FleetMaintenance

Hypotheses: `PlansAssumption` (every plan has at least one node, `None` is none of
the names) and `AdverseAssumption` (the bound is a natural number). Plans, nodes
and the order of nodes in a plan are arbitrary. The run `control` checks the same
properties on two instances, inside `ClaimsTrue` and `ApprovedSteps`.

| Theorem | States |
|---|---|
| `Typed` | `Spec => []TypeOK` |
| `PlaintextClaimedAlways` | `Spec => []PlaintextClaimed` |
| `VerdictCleanAlways` | `Spec => []VerdictClean` |
| `AcceptsWhatRunsAlways` | `Spec => [][AcceptsWhatRuns]_vars` |
| `SerialAndApprovedAlways` | `Spec => [][SerialAndApproved]_vars` |

`LocksInv` says that plans that work at the same time have no node in common; so
what a worker knows of its node survives the steps of all others (`Others`), and
each action is a matter of one plan. `ClaimInv` is `PlaintextClaimed`; it is kept
because of `DirInv`, which says what the journal names at each place: nothing
when a directory is about to be claimed, the worker's own from the claim to the
cleanup, and a directory that is gone when the claim is dropped. `VerdictInv`
adds that a worker which may write plaintext has recorded `running`. `RunsInv`
carries what the gate has seen to the acceptance, through both sweeps, and
`OrderInv` the approval of the launch and the accepted prefix to the deployment.

### 6.9 Only model-checked

Liveness under fairness (`EventuallyDecided`, `Settles`, `Resumes`, `ComesBack`)
is out of the prover's reach. Of the runs `node`, `access`, `control` and
`evidence` the parts of the components without a theorem, among them
`TailnetPromotion`, are checked by TLC only; section 9 has the order in which
their proofs are planned.

---

## 7. Where the code and its documentation differ

One disagreement has a run that exhibits it.

* `tailnet_cut`: every readback of the promotion reads the local Terraform state
  only. A Terraform process that ends after the provider applied the request and
  before the state is written leaves the state at false; the deadline loop then
  closes the lease as executed while the provider firewall is on
  (`scripts/tailnet-network-executor.py:745`, against the comment at line 744).

Others were met while modelling. The models describe what the code does; where
a constant separates the case (`Torn`, `Cuts`, `Overlap`, `KillEarly`,
`SlowStart`, `Cancels`, `Headers`) the passing runs leave it out or check the
weaker statement that holds.

* **Revocation barrier.** `guard` takes the state directory for any caller, and
  admission takes any holder for the publisher, against "Unfinished selection may
  run only under a live publisher's retained lock"
  (`transport_runtime_transaction.py:262`): a systemd retry during the guard of a
  play that is then refused starts the unit on files a dead play left
  (`device_revocation_barrier.py:126`).
* **Sender.** A capture refused before its record leaves the previous sender
  down, because its start runs a guard that the unit test replaces
  (`observability_runtime_accept.py:76`). A reboot between `pending.json` and the
  snapshot makes every later `stop()` refuse (line 163). `ensure()` of an
  unchanged candidate with a stopped sender is refused (line 411).
* **nginx.** A certificate request of a *first* deployment that is killed leaves
  a lease that begin, restore and recover-commit refuse, and only the timer that
  is enabled after the commit clears it (`nginx_transaction.py:867`).
* **Devices.** A completed operation that is run again is re-opened beside one
  prepared since (`device_lifecycle.py:322`, against "serialize operations" in
  `openspec/changes/device-lifecycle/specs/clients/device-lifecycle/spec.md:85`).
* **Tailnet.** After a lost answer to the guest's confirm the next run commits
  without reading the provider (`tailnet-network-controller.py:431`). A helper
  killed before its first rename leaves a state directory every call refuses
  (`tailnet-network-guest.py:515`). A daemon that was never armed and is busy lets
  the ping of the run that spawned it time out, and stays behind
  (`tailnet-network-controller.py:363`).
* **Staging cleanup.** The UpCloud guard rewrites its receipt in place; a torn
  one stops every later recovery (`staging-cleanup-guard.py:1089`). A publication
  lost after its intent, followed by a state change, can be neither repeated nor
  replaced (`staging_lifecycle.py:435`).
* **Tasks.** `transition blocked` without a detail or a blocker, reopening an
  archived change and dropping an archived one leave records that every later
  command refuses (`taskctl.py:4407` against `:767` and `:1250`; `:4902`): they
  are the three of `RefusedRecord`. A committed record of the first kind, and a
  task dropped before its first commit, can never be purged (`:2666`).
* **Geodata.** Without a prior pair, recovery removes the new files without a
  restart of Xray (`geodata_publish.py:198`). A kill inside the write or removal
  of the journal leaves a directory that every later run refuses
  (`geodata_publish.py:150`, against
  `openspec/specs/operations/ansible-role-audit-improvements/spec.md:49`; the
  constant `Cuts`).
* **Disposable client.** An interrupt during the VM's start leaves a profile that
  refuses every later preparation (`disposable_liveness_executor.py:539`); a kill
  between the two writes of `_publish` makes finalize refuse
  (`disposable_promotion.py:521`); a kill inside `_write_new` leaves a torn
  document that no command gets past (`disposable_liveness_executor.py:177`).
* **Builds.** A kill between a backup link and the journal leaves an output with
  two links (`runtime_build_receipt.py:1666`); a rebuild that reproduces the
  receipt's bytes is classified committed when it was not (line 2120).
* **AWG rotation.** The outcome file is never removed and decides a later
  rollback (`real-vps-awg-nat-server.py:657`); a committed rotation may be rolled
  back (line 653); the forced command takes no lock (line 564); the finalizer's
  reload needs the file its rollback removed (`real-vps-awg-nat.py:1252`); a lane
  killed before commit stops every later lane (line 1057); old evidence of the
  current source is never replaced (line 1918); a failed commit that turns out to
  be committed without a receipt ends in an unbound variable
  (`real-vps-awg-nat-rotation.py:405`).
* **Acceptance and cleanup of the observability staging.** A kill inside the
  activation row, or failed evidence of the rollback row, blocks every later
  invocation (`observability-staging-acceptance.py:2319`, `:2182`). A kill while
  Terraform plans leaves the override in place
  (`observability-staging-cleanup.py:1294`); a resource replaced after the frozen
  state was compared is destroyed (line 1322).
* **Deployment.** The checkout is compared before each site playbook, not during
  it (`deploy-controller.py:866`), so a host may carry roles of two revisions
  under one manifest. `DEPLOY_TAGS` without `manifest` skips the manifest
  (`ansible/playbooks/site.yml:643`) and the parity gate then refuses the host;
  with `manifest` alone the new manifest is written over older roles and the gate
  passes (`deploy-controller.py:863`; `docs/how-to/deploy.md:257`).
* **First-boot acceptance.** The harness hashes fragment 10 without the comment
  line the helper writes (`cloud-init-restart-acceptance.py:532`; the constant
  `Headers`). A `colima stop` that exceeds its time or is interrupted raises (line
  861), which skips the deletion of the profile and of its directory (lines 1813
  to 1828), against the docstrings at lines 1882 and 1893; one that merely fails
  does not. The runs set `Cancels` to FALSE and so claim `ProfileReleased` without
  such a stop.
* **Enrollment.** `_transition` creates its temporary file exclusively under a
  fixed name; a crash before the rename makes the same transition fail at every
  later boot, and with it ssh (`scripts/tailnet_management.py:462`, against
  `docs/how-to/tailnet-management.md:77`; the constant `Torn`).

---

## 8. What is not modelled

Pure rendering and validation (client payloads, secrets, adapters, build
authority checks), measurement of live networks, provider APIs beyond their
answers, third-party services (Uptime Kuma), kernel state (namespaces,
nftables rules), and declarative glue (roles, playbooks, Terraform) except for
the order of calls it imposes. Recovery promotion, fleet rotation, device
migration, the SSH baseline controller, the silence gateway and the small
activation helpers (naive, firewall and AmneziaWG consumers) are protocols of
the same kind as the modelled ones and remain to be done. `PROJECT.json` lists
every component with its status and what is left out of it.

---

## 9. Plan

1. Proofs of further components along section 6: `DeviceLifecycle`
   (`RevokedForGood`) and `NginxTransaction` (`ReceiptIsServed`), and the
   refinement of `DestroyPromise`.
2. Modules for recovery promotion and fleet rotation (with `FleetMaintenance`),
   device migration (with `DeviceLifecycle`), and the firewall and AmneziaWG
   consumers (with `RuntimeTransaction`).
