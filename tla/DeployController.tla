------------------------- MODULE DeployController -------------------------
(***************************************************************************)
(* make deploy and make dry-run (scripts/deploy-controller.py with         *)
(* bootstrap_readiness.py and public_site_inputs.py).  A run takes private *)
(* copies of the operator's inputs, checks everything it can for all       *)
(* selected hosts, and then converges the hosts one after the other:       *)
(* readiness, recovery foundation, source identity, site playbook (always  *)
(* the baseline and the firewall, the other roles and the manifest as the  *)
(* tags select them, and the SSH transaction last), source parity.  The    *)
(* operator may edit the inputs and move the checkout at any time, also    *)
(* while a playbook runs; commands fail, runs are cancelled or killed.     *)
(***************************************************************************)
EXTENDS Integers, Sequences, FiniteSets

CONSTANTS
    Hosts,          \* the names in sorted order, a sequence
    MaxEdits,       \* edits of inputs and moves of the checkout
    MaxRuns, MaxFaults,
    MaxTries        \* attempts of wait_for_bootstrap (30 in the code)

DeployAssumption ==
    MaxEdits \in Nat /\ MaxRuns \in Nat /\ MaxFaults \in Nat
    /\ MaxTries \in Nat \ {0}

Inputs == {"secrets", "overrides", "site"}
None == [i \in Inputs |-> 0]
Names == {Hosts[i] : i \in DOMAIN Hosts}

\* What site.yml converges: the roles tagged always, those of one other tag, the rest.
Parts == {"always", "xray", "other"}
\* DEPLOY_TAGS of a deploy: none, a tag of some roles, or only the manifest.
Tags == {{}, {"xray"}, {"manifest"}}

VARIABLES
    tree,       \* the checkout: revision, clean
    file,       \* version of every input file or tree
    apv,        \* versions bound by DEPLOY_APPROVED_INPUTS_FILE (0: not named), None without
    sinks,      \* hosts whose failure receipt path is fresh
    run,        \* the controller
    host,       \* what a host carries: revision of every part, manifest, inputs, open SSH
                \* transaction; moved (history): the checkout moved while its playbook ran
    touched,    \* hosts the run has written to
    done,       \* hosts the run has finished, while it lasts
    masters,    \* hosts with a shared SSH master
    cut,        \* the last run was killed, or could not close its masters
    edits, runs, faults

counts == <<edits, runs, faults>>
vars == <<tree, file, apv, sinks, run, host, touched, done, masters, cut, counts>>

Versions == 1 .. MaxEdits + 1
Pcs == {"idle", "identify", "secrets", "overrides", "site", "transact", "prepare",
        "fence1", "fence2", "sinks", "wait", "foundation", "source",
        "site1", "site2", "manifest", "ssh1", "ssh2", "drift", "close"}
\* The controller is inside checked(site).
InSite == run.pc \in {"site1", "site2", "manifest", "ssh1", "ssh2"}

TypeOK ==
    /\ tree \in [rev : Versions, clean : BOOLEAN]
    /\ file \in [Inputs -> Versions]
    /\ apv \in [Inputs -> Versions \cup {0}]
    /\ sinks \subseteq Names /\ touched \subseteq Names /\ done \subseteq Names
    /\ masters \subseteq Names /\ cut \in BOOLEAN
    /\ run.pc \in Pcs /\ run.mode \in {"deploy", "dry-run"} /\ run.rev \in Versions
    /\ run.snap \in [Inputs -> Versions \cup {0}] /\ run.tries \in 0 .. MaxTries
    /\ run.k \in 1 .. Len(Hosts) + 1 /\ run.tags \in Tags
    /\ \A h \in Names :
         /\ host[h].rev \in [Parts -> Versions \cup {0}] /\ host[h].man \in Versions \cup {0}
         /\ host[h].in \in [Inputs -> Versions \cup {0}]
         /\ host[h].ssh \in BOOLEAN /\ host[h].moved \in BOOLEAN
    /\ edits \in 0 .. MaxEdits /\ runs \in 0 .. MaxRuns /\ faults \in 0 .. MaxFaults

\* No controller runs.
Idle == [pc |-> "idle", mode |-> "dry-run", rev |-> 1, snap |-> None,
         sel |-> <<>>, k |-> 1, tries |-> 0, tags |-> {}]

Init ==
    /\ tree = [rev |-> 1, clean |-> TRUE]
    /\ file = [i \in Inputs |-> 1] /\ apv = None
    /\ sinks = Names
    /\ run = Idle
    /\ host = [h \in Names |-> [rev |-> [p \in Parts |-> 0], man |-> 0, in |-> None,
                                ssh |-> FALSE, moved |-> FALSE]]
    /\ touched = {} /\ done = {} /\ masters = {} /\ cut = FALSE
    /\ edits = 0 /\ runs = 0 /\ faults = 0

At(pc) == run.pc = pc
Goto(pc) == run' = [run EXCEPT !.pc = pc]
Here == run.sel[run.k]
Deploying == run.mode = "deploy"
\* Everything a step of the controller before convergence leaves alone.
Quiet == UNCHANGED <<tree, file, apv, sinks, host, touched, done, masters, cut, counts>>

----------------------------------------------------------------------------
(* Preparation.                                                            *)

\* inventory_selection and select_hosts: the named hosts, sorted by name.
Selection(names) == SelectSeq(Hosts, LAMBDA h : h \in names)

\* An unknown name or an empty selection is refused.
Selectable(names) == names # {} /\ names \subseteq Names

Start(mode, names, tags) ==
    /\ At("idle") /\ Selectable(names) /\ runs < MaxRuns /\ runs' = runs + 1
    /\ mode = "dry-run" \/ apv # None => tags = {}
    /\ run' = [pc |-> "identify", mode |-> mode, rev |-> 1, snap |-> None,
               sel |-> Selection(names), k |-> 1, tries |-> 0, tags |-> tags]
    /\ touched' = {} /\ done' = {} /\ cut' = FALSE
    /\ UNCHANGED <<tree, file, apv, sinks, host, masters, edits, faults>>

\* source_identity: revision and digest of HEAD; deploy wants a clean checkout.
Clean == ~Deploying \/ tree.clean

Identify ==
    /\ At("identify")
    /\ run' = [run EXCEPT !.pc = IF Clean THEN "secrets" ELSE "close", !.rev = tree.rev]
    /\ Quiet

\* approved_inputs: a file that the approval names must have its digest, one that it
\* does not name is taken as it is; a public site it does not name is refused.
Approved(i) ==
    \/ apv = None \/ apv[i] = file[i]
    \/ i # "site" /\ apv[i] = 0

\* read_input, read_fenced_input, read_site: a private copy of this moment.
ReadInput(i, next) ==
    run' = [run EXCEPT !.pc = IF Approved(i) THEN next ELSE "close",
                       !.snap[i] = file[i]]

ReadSecrets == At("secrets") /\ ReadInput("secrets", "overrides") /\ Quiet
ReadOverrides == At("overrides") /\ ReadInput("overrides", "site") /\ Quiet
ReadSite == At("site") /\ ReadInput("site", "transact") /\ Quiet

\* fresh_private_output for every selected host.
Fresh == Deploying => \A i \in DOMAIN run.sel : run.sel[i] \in sinks

\* transaction_inputs: contexts, promotion configs and receipt paths of all hosts.
Transact == At("transact") /\ Goto(IF Fresh THEN "prepare" ELSE "close") /\ Quiet

\* prepare_host_playbooks: from here on the hosts depend on private copies only; then
\* secrets and certificates are checked for all of them.
Prepare == At("prepare") /\ Goto("fence1") /\ Quiet

\* verify_input_fence and the second read_site: the originals are unchanged.
Fence(i) == file[i] = run.snap[i]

VerifyOverrides ==
    At("fence1") /\ Goto(IF Fence("overrides") THEN "fence2" ELSE "close") /\ Quiet
VerifySite ==
    At("fence2") /\ Goto(IF Fence("site") THEN "sinks" ELSE "close") /\ Quiet

RecheckSinks == At("sinks") /\ Goto(IF Fresh THEN "wait" ELSE "close") /\ Quiet

----------------------------------------------------------------------------
(* Convergence, host by host.                                              *)

\* wait_for_bootstrap: ready, still running (a bounded number of times), failed.
WaitForBootstrap ==
    /\ At("wait")
    /\ \/ run' = [run EXCEPT !.pc = "foundation", !.tries = 0]
       \/ run' = IF run.tries + 1 < MaxTries THEN [run EXCEPT !.tries = @ + 1]
                                             ELSE [run EXCEPT !.pc = "close"]
    /\ Quiet

\* RECOVERY_PREFLIGHT: installed generation, and no SSH transaction open.
Foundation(h) == ~host[h].ssh

RequireFoundation ==
    At("foundation") /\ Goto(IF Foundation(Here) THEN "source" ELSE "close") /\ Quiet

SameSource == tree.rev = run.rev /\ Clean

RequireSource ==
    /\ At("source") /\ Goto(IF SameSource THEN "site1" ELSE "close")
    /\ host' = [host EXCEPT ![Here].moved = FALSE]
    /\ UNCHANGED <<tree, file, apv, sinks, touched, done, masters, cut, counts>>

\* What a playbook reads from the checkout at this moment.
Piece == IF tree.clean THEN tree.rev ELSE 0

\* checked(site): baseline and firewall, tagged always, whatever DEPLOY_TAGS says.
\* With --check nothing is written.
SiteBegins ==
    /\ At("site1")
    /\ masters' = masters \cup {Here}
    /\ IF Deploying
       THEN /\ host' = [host EXCEPT ![Here] =
                          [@ EXCEPT !.rev["always"] = Piece, !.in = run.snap]]
            /\ touched' = touched \cup {Here}
            /\ Goto("site2")
       ELSE Goto("drift") /\ UNCHANGED <<host, touched>>
    /\ UNCHANGED <<tree, file, apv, sinks, done, cut, counts>>

\* --tags: without it everything runs.
Tagged(part) == run.tags = {} \/ part \in run.tags

\* The other roles, as far as the tags select them.
SiteContinues ==
    /\ At("site2")
    /\ host' = [host EXCEPT ![Here].rev =
                    [p \in Parts |-> IF p # "always" /\ Tagged(p) THEN Piece ELSE @[p]]]
    /\ Goto("manifest")
    /\ UNCHANGED <<tree, file, apv, sinks, touched, done, masters, cut, counts>>

\* node_manifest, tagged manifest only, writes the identity in the environment of the run.
WriteManifest ==
    /\ At("manifest")
    /\ host' = IF Tagged("manifest") THEN [host EXCEPT ![Here].man = run.rev] ELSE host
    /\ Goto("ssh1")
    /\ UNCHANGED <<tree, file, apv, sinks, touched, done, masters, cut, counts>>

\* The second play, tagged always: the SSH baseline is as wanted, or a transaction opens.
SshPlay ==
    /\ At("ssh1")
    /\ \/ Goto("drift") /\ UNCHANGED host
       \/ Goto("ssh2") /\ host' = [host EXCEPT ![Here].ssh = TRUE]
    /\ UNCHANGED <<tree, file, apv, sinks, touched, done, masters, cut, counts>>

\* The transaction is confirmed, unless its timer was faster.
SshConfirmed ==
    /\ At("ssh2")
    /\ Goto(IF host[Here].ssh THEN "drift" ELSE "close")
    /\ sinks' = IF host[Here].ssh THEN sinks ELSE sinks \ {Here}
    /\ host' = [host EXCEPT ![Here].ssh = FALSE]
    /\ UNCHANGED <<tree, file, apv, touched, done, masters, cut, counts>>

NextHost ==
    run' = [run EXCEPT !.pc = IF run.k = Len(run.sel) THEN "close" ELSE "wait",
                       !.k = @ + 1]

\* source-drift.yml, the audit line, and the next host.
Parity(h) == ~Deploying \/ host[h].man = run.rev

SourceDrift ==
    /\ At("drift")
    /\ IF Parity(Here) THEN NextHost /\ done' = done \cup {Here}
                       ELSE Goto("close") /\ UNCHANGED done
    /\ UNCHANGED <<tree, file, apv, sinks, host, touched, masters, cut, counts>>

\* A command fails, times out or is cancelled: the fleet stops here.  A site run
\* that fails in its SSH transaction uses up the receipt path of the host.
Fails ==
    /\ run.pc \notin {"idle", "close"} /\ faults < MaxFaults /\ faults' = faults + 1
    /\ Goto("close")
    /\ sinks' = IF run.pc \in {"ssh1", "ssh2"} THEN sinks \ {Here} ELSE sinks
    /\ UNCHANGED <<tree, file, apv, host, touched, done, masters, cut, edits, runs>>

\* The finally clause; close_master is best effort.
CloseMasters ==
    /\ At("close")
    /\ \/ masters' = masters \ {run.sel[i] : i \in DOMAIN run.sel} /\ UNCHANGED <<cut, faults>>
       \/ faults < MaxFaults /\ faults' = faults + 1 /\ cut' = TRUE /\ UNCHANGED masters
    /\ run' = Idle /\ done' = {}
    /\ UNCHANGED <<tree, file, apv, sinks, host, touched, edits, runs>>

----------------------------------------------------------------------------
(* The environment.                                                        *)

Kill ==
    /\ ~At("idle") /\ faults < MaxFaults /\ faults' = faults + 1
    /\ run' = Idle /\ done' = {} /\ cut' = TRUE
    /\ UNCHANGED <<tree, file, apv, sinks, host, touched, masters, edits, runs>>

\* The SSH transaction is rolled back by its own timer.
SshRecovers(h) ==
    /\ host[h].ssh
    /\ host' = [host EXCEPT ![h].ssh = FALSE]
    /\ UNCHANGED <<tree, file, apv, sinks, run, touched, done, masters, cut, counts>>

\* ControlPersist
MasterExpires(h) ==
    /\ At("idle") /\ h \in masters
    /\ masters' = masters \ {h}
    /\ UNCHANGED <<tree, file, apv, sinks, run, host, touched, done, cut, counts>>

EditInput(i) ==
    /\ edits < MaxEdits /\ edits' = edits + 1
    /\ file' = [file EXCEPT ![i] = @ + 1]
    /\ UNCHANGED <<tree, apv, sinks, run, host, touched, done, masters, cut, runs, faults>>

\* A commit is checked out, or files are changed without one.
MoveTree ==
    /\ edits < MaxEdits /\ edits' = edits + 1
    /\ \/ tree' = [rev |-> tree.rev + 1, clean |-> TRUE]
       \/ tree' = [tree EXCEPT !.clean = FALSE]
    /\ host' = IF InSite THEN [host EXCEPT ![Here].moved = TRUE] ELSE host
    /\ UNCHANGED <<file, apv, sinks, run, touched, done, masters, cut, runs, faults>>

\* prepare_attempt of the fleet maintenance binds the inputs its plan names, or there
\* is no maintenance; the decrypted secrets are named by another path.
Approve ==
    /\ At("idle") /\ apv' \in {[file EXCEPT !["secrets"] = 0], None} /\ apv' # apv
    /\ UNCHANGED <<tree, file, sinks, run, host, touched, done, masters, cut, counts>>

\* The operator names a new receipt path.
NewSink(h) ==
    /\ At("idle") /\ h \notin sinks /\ sinks' = sinks \cup {h}
    /\ UNCHANGED <<tree, file, apv, run, host, touched, done, masters, cut, counts>>

Controller ==
    \/ Identify \/ ReadSecrets \/ ReadOverrides \/ ReadSite \/ Transact \/ Prepare
    \/ VerifyOverrides \/ VerifySite \/ RecheckSinks
    \/ WaitForBootstrap \/ RequireFoundation \/ RequireSource
    \/ SiteBegins \/ SiteContinues \/ WriteManifest \/ SshPlay \/ SshConfirmed
    \/ SourceDrift \/ CloseMasters

Next ==
    \/ Controller \/ Fails \/ Kill \/ MoveTree \/ Approve
    \/ \E mode \in {"deploy", "dry-run"}, names \in SUBSET Names, tags \in Tags :
           Start(mode, names, tags)
    \/ \E h \in Names : SshRecovers(h) \/ MasterExpires(h) \/ NewSink(h)
    \/ \E i \in Inputs : EditInput(i)

Spec == Init /\ [][Next]_vars

----------------------------------------------------------------------------
(* Properties.                                                             *)

\* All hosts of a run receive the same inputs, whatever is edited meanwhile, and
\* with an approval exactly the versions it names (read_input, approved_inputs).
InputsBound ==
    ~At("idle") => \A h \in touched :
        /\ host[h].in = run.snap
        /\ \A i \in Inputs : apv[i] # 0 => run.snap[i] = apv[i]

\* "stops the fleet": a run leaves at most one host unfinished, and none behind it
\* is written (controller).
StopsAtFailure ==
    \A h \in touched \ done :
        \A i \in DOMAIN run.sel : run.sel[i] = h =>
            \A j \in DOMAIN run.sel : run.sel[j] \in touched => j <= i

\* A host that passed the parity gate carries the revision its manifest names in every
\* part the run reached ("so the live manifest can name an immutable source revision"),
\* unless the checkout moved while its playbook ran.  Of the parts that DEPLOY_TAGS left
\* out nothing is said: the manifest alone may be deployed over older roles.
ManifestTrue ==
    \A h \in touched \cap done :
        ~host[h].moved =>
            /\ host[h].man = run.rev
            /\ \A p \in Parts : p = "always" \/ Tagged(p) => host[h].rev[p] = run.rev

\* A run that ends by itself leaves no shared session behind (close_master).
MastersClosed == (At("idle") /\ ~cut) => \A h \in touched : h \notin masters

=============================================================================
