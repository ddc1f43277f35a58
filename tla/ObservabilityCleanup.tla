------------------------ MODULE ObservabilityCleanup ------------------------
(***************************************************************************)
(* The removal of the observability staging from its three providers       *)
(* (scripts/observability-staging-cleanup.py).  A snapshot freezes the     *)
(* Terraform states and the reviewed destroy plans, a seal binds them to a *)
(* time-limited approval, and a run destroys the sealed scope provider by  *)
(* provider behind a private progress journal.  Runs are killed, provider  *)
(* queries fail, an apply stops half way, approvals expire, and somebody   *)
(* else may use Terraform on the same workspace.                           *)
(***************************************************************************)
EXTENDS Integers, Sequences, FiniteSets, TLC

CONSTANTS
    PROVIDERS,      \* the providers, a sequence in their fixed order
    Controllers,    \* concurrent invocations
    MaxSeals,       \* manifests that are sealed
    MaxKills,       \* invocations that are killed
    MaxFails,       \* failing queries and Terraform operations
    MayExpire,      \* approvals expire
    MayTear,        \* a failing apply may have deleted a part
    MaxDrift        \* foreign changes of a Terraform state

Providers == {PROVIDERS[i] : i \in 1 .. Len(PROVIDERS)}
Manifests == 1 .. MaxSeals

CleanupAssumption ==
    /\ Len(PROVIDERS) = Cardinality(Providers) /\ Len(PROVIDERS) > 0
    /\ MaxSeals \in Nat \ {0} /\ MaxKills \in Nat /\ MaxFails \in Nat /\ MaxDrift \in Nat
    /\ MayExpire \in BOOLEAN /\ MayTear \in BOOLEAN

VARIABLES
    real,       \* provider -> its resources: present, partial, gone
    state,      \* provider -> the contents of its Terraform state
    override,   \* providers whose root holds the lifecycle override file
    snapshot,   \* the states of an unsealed snapshot, or none
    manifest,   \* manifest -> sealed scope and whether its approval is open
    progress,   \* manifest -> the phase of each provider, or none
    receipt,    \* manifests with a terminal receipt
    ctl,        \* controller -> what it is doing
    kills, fails, drifts

vars == <<real, state, override, snapshot, manifest, progress, receipt, ctl,
          kills, fails, drifts>>

States == {"first", "changed", "rest", "empty"}
Phases == <<"pending", "apply-started", "absent">>
NoScope == [p \in Providers |-> "none"]
NoProgress == [p \in Providers |-> "none"]
Unsealed == [scope |-> NoScope, open |-> FALSE]

\* What a controller does: it checks the providers in order (next), keeps the
\* plans it has made (the state each was made from), and applies them.
Idle == [pc |-> "idle", job |-> 0, next |-> 1, fresh |-> FALSE, plan |-> NoScope]

TypeOK ==
    /\ real \in [Providers -> {"present", "partial", "gone"}]
    /\ state \in [Providers -> States]
    /\ override \subseteq Providers
    /\ snapshot \in [Providers -> States \cup {"none"}]
    /\ manifest \in [Manifests -> [scope : [Providers -> States \cup {"none"}],
                                   open : BOOLEAN]]
    /\ progress \in [Manifests -> [Providers ->
                        {"none"} \cup {Phases[i] : i \in 1 .. Len(Phases)}]]
    /\ receipt \subseteq Manifests
    /\ ctl \in [Controllers ->
                  [pc : {"idle", "check", "plan", "planned", "begin", "apply",
                         "absent", "final", "retire"},
                   job : 0 .. MaxSeals, next : 1 .. Len(PROVIDERS) + 1,
                   fresh : BOOLEAN, plan : [Providers -> States \cup {"none"}]]]
    /\ kills \in 0 .. MaxKills /\ fails \in 0 .. MaxFails /\ drifts \in 0 .. MaxDrift

Init ==
    /\ real = [p \in Providers |-> "present"]
    /\ state = [p \in Providers |-> "first"]
    /\ override = {} /\ snapshot = NoScope
    /\ manifest = [m \in Manifests |-> Unsealed]
    /\ progress = [m \in Manifests |-> NoProgress]
    /\ receipt = {}
    /\ ctl = [c \in Controllers |-> Idle]
    /\ kills = 0 /\ fails = 0 /\ drifts = 0

At(c, pc) == ctl[c].pc = pc
Step(c, to) == ctl' = [ctl EXCEPT ![c].pc = to]
Stop(c) == ctl' = [ctl EXCEPT ![c] = Idle]
Here(c) == PROVIDERS[ctl[c].next]
Last(c) == ctl[c].next > Len(PROVIDERS)
Snapshotting(c) == ctl[c].job = 0

\* build_progress, advance_progress and the reads of the progress file
HasProgress(m) == progress[m] # NoProgress
Phase(c) ==
    IF HasProgress(ctl[c].job) THEN progress[ctl[c].job][Here(c)] ELSE "pending"
Advanced(m, p, phase) == [progress EXCEPT ![m][p] = phase]

\* The provider's answers about the recorded identities: all there, or none
\* (provider_presence; anything between is neither).
AllThere(p) == real[p] = "present"
AllGone(p) == real[p] = "gone"

\* extract_provider_scope: the addresses and identities of a state that is not
\* empty.
Scope(p) == IF state[p] = "empty" THEN "none" ELSE state[p]

\* validate_destroy_plan: the plan deletes exactly the addresses of the scope.
DestroyOnly(p) == AllThere(p) /\ state[p] \in {"first", "changed"}

\* validate_manifest: an expired approval is accepted only to finish a run
\* that has left its progress file.
Valid(m) ==
    /\ manifest[m] # Unsealed /\ m \notin receipt
    /\ manifest[m].open \/ HasProgress(m)

\* validate_state_binding: the state bytes are the ones the manifest froze.
Bound(c) == state[Here(c)] = manifest[ctl[c].job].scope[Here(c)]

----------------------------------------------------------------------------
(* Snapshot and seal.                                                      *)

SnapshotBegin(c) ==
    /\ At(c, "idle") /\ snapshot = NoScope
    /\ \E m \in Manifests : manifest[m] = Unsealed
    /\ ctl' = [ctl EXCEPT ![c] = [Idle EXCEPT !.pc = "check"]]
    /\ UNCHANGED <<real, state, override, snapshot, manifest, progress, receipt,
                   kills, fails, drifts>>

\* Every state is non-empty and every resource is there.
SnapshotCheck(c) ==
    /\ At(c, "check") /\ Snapshotting(c) /\ ~Last(c)
    /\ IF Scope(Here(c)) # "none" /\ AllThere(Here(c))
       THEN ctl' = [ctl EXCEPT ![c].pc = "plan", ![c].plan[Here(c)] = Scope(Here(c))]
       ELSE Stop(c)
    /\ UNCHANGED <<real, state, override, snapshot, manifest, progress, receipt,
                   kills, fails, drifts>>

SnapshotPublish(c) ==
    /\ At(c, "check") /\ Snapshotting(c) /\ Last(c)
    /\ snapshot' = ctl[c].plan
    /\ Stop(c)
    /\ UNCHANGED <<real, state, override, manifest, progress, receipt, kills,
                   fails, drifts>>

\* seal_manifest, with an approval of the snapshot; a snapshot is sealed while
\* it is fresh, otherwise it is taken again.
Seal(m) ==
    /\ snapshot # NoScope /\ manifest[m] = Unsealed
    /\ \A n \in 1 .. m - 1 : manifest[n] # Unsealed
    /\ manifest' = [manifest EXCEPT ![m] = [scope |-> snapshot, open |-> TRUE]]
    /\ snapshot' = NoScope
    /\ UNCHANGED <<real, state, override, progress, receipt, ctl, kills, fails, drifts>>

----------------------------------------------------------------------------
(* A plan, of a snapshot or of a run: the override lifts prevent_destroy   *)
(* while Terraform plans and is removed on every way out.                  *)

WriteOverride(c) ==
    /\ At(c, "plan") /\ Here(c) \notin override
    /\ override' = override \cup {Here(c)}
    /\ Step(c, "planned")
    /\ UNCHANGED <<real, state, snapshot, manifest, progress, receipt, kills,
                   fails, drifts>>

\* The file is created exclusively: one that is there is a refusal.
OverrideBusy(c) ==
    /\ At(c, "plan") /\ Here(c) \in override
    /\ Stop(c)
    /\ UNCHANGED <<real, state, override, snapshot, manifest, progress, receipt,
                   kills, fails, drifts>>

\* The plan is made from the state as it is now; only its addresses and
\* actions are compared with the reviewed ones.
MakePlan(c) ==
    /\ At(c, "planned")
    /\ override' = override \ {Here(c)}
    /\ IF DestroyOnly(Here(c))
       THEN ctl' = [ctl EXCEPT ![c].pc = "check", ![c].next = @ + 1,
                   ![c].plan[Here(c)] = IF Snapshotting(c) THEN @ ELSE state[Here(c)]]
       ELSE Stop(c)
    /\ UNCHANGED <<real, state, snapshot, manifest, progress, receipt, kills,
                   fails, drifts>>

----------------------------------------------------------------------------
(* A run of a manifest.                                                    *)

Locked(m) == \E c \in Controllers : ~At(c, "idle") /\ ctl[c].job = m

RunBegin(c, m) ==
    /\ At(c, "idle") /\ ~Locked(m) /\ Valid(m)
    /\ ctl' = [ctl EXCEPT ![c] = [Idle EXCEPT !.pc = "check", !.job = m,
                                              !.fresh = manifest[m].open]]
    /\ UNCHANGED <<real, state, override, snapshot, manifest, progress, receipt,
                   kills, fails, drifts>>

\* Mutation: an interrupted apply is taken for a finished one.
Recover_trusting(c) ==
    /\ At(c, "check") /\ ~Snapshotting(c) /\ ~Last(c)
    /\ Phase(c) \in {"apply-started", "absent"}
    /\ progress' = Advanced(ctl[c].job, Here(c), "absent")
    /\ ctl' = [ctl EXCEPT ![c].next = @ + 1]
    /\ UNCHANGED <<real, state, override, snapshot, manifest, receipt, kills,
                   fails, drifts>>

\* A provider that is already absent is passed by; the one whose apply was
\* interrupted becomes absent when all of it is gone.
Recover(c) ==
    /\ At(c, "check") /\ ~Snapshotting(c) /\ ~Last(c)
    /\ Phase(c) \in {"apply-started", "absent"} /\ AllGone(Here(c))
    /\ progress' = Advanced(ctl[c].job, Here(c), "absent")
    /\ ctl' = [ctl EXCEPT ![c].next = @ + 1]
    /\ UNCHANGED <<real, state, override, snapshot, manifest, receipt, kills,
                   fails, drifts>>

\* Any other provider is planned again while the approval the run began with
\* is open, its frozen state is untouched and all its resources are there.
Admissible(c) ==
    /\ Phase(c) \in {"pending", "apply-started"}
    /\ ctl[c].fresh /\ Bound(c) /\ AllThere(Here(c))

Check(c) ==
    /\ At(c, "check") /\ ~Snapshotting(c) /\ ~Last(c)
    /\ ~(Phase(c) \in {"apply-started", "absent"} /\ AllGone(Here(c)))
    /\ IF Admissible(c) THEN Step(c, "plan") ELSE Stop(c)
    /\ UNCHANGED <<real, state, override, snapshot, manifest, progress, receipt,
                   kills, fails, drifts>>

\* Every remaining provider is planned: the progress file is published.
Publish(c) ==
    LET m == ctl[c].job IN
    /\ At(c, "check") /\ ~Snapshotting(c) /\ Last(c)
    /\ progress' = IF HasProgress(m) THEN progress
                   ELSE [progress EXCEPT ![m] = [p \in Providers |-> "pending"]]
    /\ ctl' = [ctl EXCEPT ![c].pc = "begin", ![c].next = 1]
    /\ UNCHANGED <<real, state, override, snapshot, manifest, receipt, kills,
                   fails, drifts>>

\* The next provider that has a plan; the approval is checked once more, and
\* the phase is recorded before the first delete.
Begin(c) ==
    LET m == ctl[c].job IN
    /\ At(c, "begin") /\ ~Last(c)
    /\ IF ctl[c].plan[Here(c)] = "none"
       THEN ctl' = [ctl EXCEPT ![c].next = @ + 1] /\ UNCHANGED progress
       ELSE IF manifest[m].open
       THEN Step(c, "apply") /\ progress' = Advanced(m, Here(c), "apply-started")
       ELSE Stop(c) /\ UNCHANGED progress
    /\ UNCHANGED <<real, state, override, snapshot, manifest, receipt, kills,
                   fails, drifts>>

\* Terraform applies the saved plan, or refuses one that is stale.
PlanStale(c) == state[Here(c)] # ctl[c].plan[Here(c)]

Apply(c) ==
    /\ At(c, "apply")
    /\ IF PlanStale(c)
       THEN Stop(c) /\ UNCHANGED <<real, state>>
       ELSE /\ real' = [real EXCEPT ![Here(c)] = "gone"]
            /\ state' = [state EXCEPT ![Here(c)] = "empty"]
            /\ Step(c, "absent")
    /\ UNCHANGED <<override, snapshot, manifest, progress, receipt, kills, fails,
                   drifts>>

\* verify_provider_absence, then the phase.
Absent(c) ==
    /\ At(c, "absent")
    /\ IF AllGone(Here(c))
       THEN /\ progress' = Advanced(ctl[c].job, Here(c), "absent")
            /\ ctl' = [ctl EXCEPT ![c].pc = "begin", ![c].next = @ + 1]
       ELSE Stop(c) /\ UNCHANGED progress
    /\ UNCHANGED <<real, state, override, snapshot, manifest, receipt, kills,
                   fails, drifts>>

\* Every phase is absent and every provider is queried again.
Final(c) ==
    LET m == ctl[c].job IN
    /\ At(c, "begin") /\ Last(c)
    /\ IF \A p \in Providers : progress[m][p] = "absent" /\ AllGone(p)
       THEN receipt' = receipt \cup {m} /\ Step(c, "retire")
       ELSE Stop(c) /\ UNCHANGED receipt
    /\ UNCHANGED <<real, state, override, snapshot, manifest, progress, kills,
                   fails, drifts>>

Retire(c) ==
    /\ At(c, "retire")
    /\ progress' = [progress EXCEPT ![ctl[c].job] = NoProgress]
    /\ Stop(c)
    /\ UNCHANGED <<real, state, override, snapshot, manifest, receipt, kills,
                   fails, drifts>>

----------------------------------------------------------------------------
(* The environment.                                                        *)

\* A provider query or a Terraform command fails: the invocation ends, and
\* the override of a plan under way is removed.  A failed apply may have
\* deleted a part of the resources.
Failure(c) ==
    /\ ~At(c, "idle") /\ fails < MaxFails /\ fails' = fails + 1
    /\ override' = IF At(c, "planned") THEN override \ {Here(c)} ELSE override
    /\ \/ UNCHANGED <<real, state>>
       \/ /\ MayTear /\ At(c, "apply") /\ ~PlanStale(c)
          /\ real' = [real EXCEPT ![Here(c)] = "partial"]
          /\ state' = [state EXCEPT ![Here(c)] = "rest"]
    /\ Stop(c)
    /\ UNCHANGED <<snapshot, manifest, progress, receipt, kills, drifts>>

\* The invocation is killed; an apply under way may still have had its effect.
Kill(c) ==
    /\ ~At(c, "idle") /\ kills < MaxKills /\ kills' = kills + 1
    /\ \/ UNCHANGED <<real, state>>
       \/ /\ At(c, "apply") /\ ~PlanStale(c)
          /\ real' = [real EXCEPT ![Here(c)] = "gone"]
          /\ state' = [state EXCEPT ![Here(c)] = "empty"]
    /\ Stop(c)
    /\ UNCHANGED <<override, snapshot, manifest, progress, receipt, fails, drifts>>

Expire(m) ==
    /\ MayExpire /\ manifest[m].open
    /\ manifest' = [manifest EXCEPT ![m].open = FALSE]
    /\ UNCHANGED <<real, state, override, snapshot, progress, receipt, ctl, kills,
                   fails, drifts>>

\* Somebody else applies a change to a staging workspace.
Drift(p) ==
    /\ drifts < MaxDrift /\ drifts' = drifts + 1
    /\ state[p] = "first" /\ state' = [state EXCEPT ![p] = "changed"]
    /\ UNCHANGED <<real, override, snapshot, manifest, progress, receipt, ctl,
                   kills, fails>>

Work(c) ==
    \/ SnapshotCheck(c) \/ SnapshotPublish(c)
    \/ WriteOverride(c) \/ OverrideBusy(c) \/ MakePlan(c)
    \/ Recover(c) \/ Check(c) \/ Publish(c) \/ Begin(c) \/ Apply(c) \/ Absent(c)
    \/ Final(c) \/ Retire(c)

Next ==
    \/ \E c \in Controllers :
          \/ Work(c) \/ SnapshotBegin(c) \/ (\E m \in Manifests : RunBegin(c, m))
          \/ Failure(c) \/ Kill(c)
    \/ \E m \in Manifests : Seal(m) \/ Expire(m)
    \/ \E p \in Providers : Drift(p)

Spec == Init /\ [][Next]_vars

----------------------------------------------------------------------------
(* Properties.                                                             *)

\* Resources that a run has deleted are on record: from the first delete on,
\* until the receipt, some progress file says that the provider was begun, so
\* a killed run is always taken up and never starts afresh (advance_progress
\* before _apply_plan).
TouchedIsRecorded ==
    \A p \in Providers : real[p] # "present" =>
        \E m \in Manifests :
            m \in receipt \/ progress[m][p] \in {"apply-started", "absent"}

\* A receipt, which permits the local retirement, and an absent phase, which
\* a later run passes by, are only there when the provider is really empty
\* (verify_provider_absence and the final round of execute_run).
AbsenceIsReal ==
    \A m \in Manifests : \A p \in Providers :
        m \in receipt \/ progress[m][p] = "absent" => real[p] = "gone"

\* No provider is touched before the first check of all of them: a deletion
\* in one provider means that every other provider had been found as sealed,
\* planned, or already absent by the run that deletes (the plans of
\* execute_run).
AllCheckedFirst ==
    \A c \in Controllers : ctl[c].pc \in {"apply", "absent"} =>
        \A p \in Providers :
            ctl[c].plan[p] # "none" \/ progress[ctl[c].job][p] = "absent"

=============================================================================
