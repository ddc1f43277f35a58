--------------------------- MODULE SentinelInstall ---------------------------
(***************************************************************************)
(* install_liveness_sentinel.py and liveness_generation.py: a controller   *)
(* prepares a generation of the liveness probe, records it as pending,     *)
(* ships it over SSH, and a detached systemd job on the sentinel installs, *)
(* probes and commits it.  The controller publishes the assignment in its  *)
(* registry only on a committed receipt.  SSH answers may be lost, jobs    *)
(* and controllers may be killed, and every operation on the host that     *)
(* takes generation.lock first takes back an unfinished installation.      *)
(* A candidate's bytes (runner, profiles, engine) are those of the source  *)
(* revision it was prepared from.                                          *)
(***************************************************************************)
EXTENDS Naturals, FiniteSets

CONSTANTS Controllers,  \* registries, each with its own lock
          MaxGens,      \* bound: generation identifiers drawn by uuid4()
          MaxRev,       \* bound: revisions of the controllers' source
          MaxFaults     \* bound: kills, lost answers and failed probes

VARIABLES
    host,    \* /etc/vpn-liveness and the three bootstrap files
    eng,     \* the process that holds generation.lock
    queued,  \* install units started, not yet at the lock
    ctl,     \* the installer process of each controller
    reg,     \* registry: the entry published
    pending, \* <registry>.pending.json
    rev,     \* revision checked out beside each controller
    drawn,   \* identifiers drawn so far
    report,  \* the last report of run_current and whether its generation was committed
    faults
vars == <<host, eng, queued, ctl, reg, pending, rev, drawn, report, faults>>

Gens == 1..MaxGens
Revs == 1..MaxRev
Boot == 1..3                                  \* engine, launcher and sudo rule
NoEntry == [gen |-> 0, rev |-> 0]
Entries == [gen : Gens, rev : Revs] \cup {NoEntry}
NoBoot == [i \in Boot |-> 0]
NoPend == [gen |-> 0, prev |-> 0, boot |-> NoBoot]
NoEng == [op |-> "none", gen |-> 0, by |-> "nobody", pc |-> "idle", at |-> 1, failed |-> FALSE]
Free == eng.op = "none"
Idle(c) == ctl[c].pc = "idle"

TypeOK ==
    /\ host \in [cur : Gens \cup {0}, receipts : SUBSET Gens, dirs : SUBSET Gens,
                 staged : [Gens -> Revs \cup {0}], jobs : [Gens -> Revs \cup {0}],
                 boot : [Boot -> Revs \cup {0}],
                 pend : [gen : Gens \cup {0}, prev : Gens \cup {0}, boot : [Boot -> Revs \cup {0}]]]
    /\ host.cur \in host.dirs \cup {0} /\ host.receipts \subseteq host.dirs
    /\ eng \in [op : {"none", "install", "receipt", "run"}, gen : Gens \cup {0},
                by : Controllers \cup {"nobody"},
                pc : {"idle", "restore", "deactivate", "unreceipt", "close", "check", "save",
                      "boot", "activate", "probe", "receipt", "commit"},
                at : 1..4, failed : BOOLEAN]
    /\ queued \in SUBSET Gens
    /\ ctl \in [Controllers -> [pc : {"idle", "ask", "poll", "asking", "polling", "prepare",
                                      "stage", "publish", "forget"},
                                entry : Entries]]
    /\ reg \in [Controllers -> Entries] /\ pending \in [Controllers -> Entries]
    /\ rev \in [Controllers -> Revs] /\ drawn \in 0..MaxGens
    /\ report \in [gen : Gens \cup {0}, committed : BOOLEAN]
    /\ faults \in 0..MaxFaults

Init ==
    /\ host = [cur |-> 0, receipts |-> {}, dirs |-> {}, staged |-> [g \in Gens |-> 0],
               jobs |-> [g \in Gens |-> 0], boot |-> NoBoot, pend |-> NoPend]
    /\ eng = NoEng /\ queued = {} /\ drawn = 0 /\ faults = 0
    /\ ctl = [c \in Controllers |-> [pc |-> "idle", entry |-> NoEntry]]
    /\ reg = [c \in Controllers |-> NoEntry] /\ pending = [c \in Controllers |-> NoEntry]
    /\ rev = [c \in Controllers |-> 1]
    /\ report = [gen |-> 0, committed |-> TRUE]

Goto(c, pc) == ctl' = [ctl EXCEPT ![c].pc = pc]
Stop(c) == ctl' = [ctl EXCEPT ![c] = [pc |-> "idle", entry |-> NoEntry]]
HostUntouched == UNCHANGED <<host, eng, queued, report>>
ControllersUntouched == UNCHANGED <<ctl, reg, pending, rev, drawn>>
Fault == faults < MaxFaults /\ faults' = faults + 1

(***************************************************************************)
(* install(): under the registry lock, a pending entry is reconciled with  *)
(* the receipt of its generation before anything is prepared.              *)
(***************************************************************************)
Drawing(c) == ctl[c].pc = "prepare" /\ pending[c] = NoEntry
Begin(c) ==
    /\ Idle(c)
    /\ pending[c] = NoEntry => drawn + Cardinality({d \in Controllers : Drawing(d)}) < MaxGens
    /\ ctl' = [ctl EXCEPT ![c] = [pc |-> IF pending[c] = NoEntry THEN "prepare" ELSE "ask",
                                  entry |-> pending[c]]]
    /\ HostUntouched /\ UNCHANGED <<reg, pending, rev, drawn, faults>>

\* The candidate is rendered and recorded as pending before the host hears of it: a new
\* identifier, or the pending one if it would be the same entry again.
Prepare(c) ==
    /\ Drawing(c)
    /\ drawn' = drawn + 1
    /\ pending' = [pending EXCEPT ![c] = [gen |-> drawn', rev |-> rev[c]]]
    /\ ctl' = [ctl EXCEPT ![c] = [pc |-> "stage", entry |-> pending'[c]]]
    /\ HostUntouched /\ UNCHANGED <<reg, rev, faults>>

PrepareAgain(c) ==
    /\ ctl[c].pc = "prepare" /\ pending[c] # NoEntry
    /\ IF pending[c].rev = rev[c] THEN Goto(c, "stage")
       ELSE Stop(c)                          \* pending-source-or-profile-conflict
    /\ HostUntouched /\ UNCHANGED <<reg, pending, rev, drawn, faults>>

\* REMOTE_STAGE: without the lock it fails; a stage or engine of other bytes is refused.
\* An active unit of this generation is not started twice.  The controller ignores the outcome.
Active(g) == g \in queued \/ (eng.op = "install" /\ eng.gen = g)
Stage(c) ==
    LET g == ctl[c].entry.gen
        r == ctl[c].entry.rev
    IN  /\ ctl[c].pc = "stage"
        /\ IF Free /\ host.staged[g] \in {0, r} /\ host.jobs[g] \in {0, r}
             THEN /\ host' = [host EXCEPT !.staged[g] = r, !.jobs[g] = r]
                  /\ queued' = IF Active(g) THEN queued ELSE queued \cup {g}
             ELSE UNCHANGED <<host, queued>>
        /\ Goto(c, "poll")
        /\ UNCHANGED <<eng, reg, pending, rev, drawn, report, faults>>

\* The command is lost on the way, or dies after the stage, or after the engine.
StageLost(c) ==
    LET g == ctl[c].entry.gen
        r == ctl[c].entry.rev
    IN  /\ ctl[c].pc = "stage" /\ Fault
        /\ \/ UNCHANGED host
           \/ Free /\ host.staged[g] \in {0, r} /\ host' = [host EXCEPT !.staged[g] = r]
           \/ /\ Free /\ host.staged[g] \in {0, r} /\ host.jobs[g] \in {0, r}
              /\ host' = [host EXCEPT !.staged[g] = r, !.jobs[g] = r]
        /\ Goto(c, "poll")
        /\ UNCHANGED <<eng, queued, reg, pending, rev, drawn, report>>

(***************************************************************************)
(* REMOTE_RECEIPT runs the job's engine, or the installed one.  Without    *)
(* either, state that needs one is an error and its absence an answer.     *)
(***************************************************************************)
HasEngine(g) == host.jobs[g] # 0 \/ host.boot[1] # 0
Unresolved == host.pend # NoPend \/ host.cur # 0 \/ host.receipts # {}
Asking(pc) == IF pc = "ask" THEN "asking" ELSE "polling"
\* _receipt(): None sends install() on to prepare, and _wait_receipt() on polling.
Uncommitted(c) == IF ctl[c].pc \in {"ask", "asking"} THEN "prepare" ELSE "poll"

Ask(c) ==
    /\ ctl[c].pc \in {"ask", "poll"} /\ HasEngine(ctl[c].entry.gen) /\ Free
    /\ eng' = [NoEng EXCEPT !.op = "receipt", !.gen = ctl[c].entry.gen, !.by = c, !.pc = "restore"]
    /\ Goto(c, Asking(ctl[c].pc))
    /\ UNCHANGED <<host, queued, reg, pending, rev, drawn, report, faults>>

\* Exit status 75: the answer "running" sends install() to _wait_receipt().
AskBusy(c) ==
    /\ ctl[c].pc \in {"ask", "poll"} /\ HasEngine(ctl[c].entry.gen) /\ ~Free
    /\ Goto(c, "poll")
    /\ HostUntouched /\ UNCHANGED <<reg, pending, rev, drawn, faults>>

AskNoEngine(c) ==
    /\ ctl[c].pc \in {"ask", "poll"} /\ ~HasEngine(ctl[c].entry.gen)
    /\ IF ~Unresolved THEN Goto(c, Uncommitted(c))
       ELSE IF ctl[c].pc = "ask" THEN Stop(c) ELSE UNCHANGED ctl
    /\ HostUntouched /\ UNCHANGED <<reg, pending, rev, drawn, faults>>

\* command-failed: install() gives up, _wait_receipt() goes on.  The host's process, if
\* it was started, goes on alone.
AnswerLost(c) ==
    /\ ctl[c].pc \in {"ask", "asking", "polling"} /\ Fault
    /\ eng' = IF eng.by = c THEN [eng EXCEPT !.by = "nobody"] ELSE eng
    /\ IF ctl[c].pc = "polling" THEN Goto(c, "poll") ELSE Stop(c)
    /\ UNCHANGED <<host, queued, reg, pending, rev, drawn, report>>

\* installation-unknown-pending-preserved
GiveUp(c) ==
    /\ ctl[c].pc = "poll"
    /\ Stop(c)
    /\ HostUntouched /\ UNCHANGED <<reg, pending, rev, drawn, faults>>

\* _publish(): first the registry, then the pending entry.
Publish(c) ==
    /\ ctl[c].pc = "publish"
    /\ reg' = [reg EXCEPT ![c] = ctl[c].entry]
    /\ Goto(c, "forget")
    /\ HostUntouched /\ UNCHANGED <<pending, rev, drawn, faults>>

Forget(c) ==
    /\ ctl[c].pc = "forget"
    /\ pending' = [pending EXCEPT ![c] = NoEntry]
    /\ Stop(c)
    /\ HostUntouched /\ UNCHANGED <<reg, rev, drawn, faults>>

KillController(c) ==
    /\ ~Idle(c) /\ Fault
    /\ Stop(c)
    /\ eng' = IF eng.by = c THEN [eng EXCEPT !.by = "nobody"] ELSE eng
    /\ UNCHANGED <<host, queued, reg, pending, rev, drawn, report>>

\* The operator checks out another revision between two runs.
Checkout(c, r) ==
    /\ Idle(c) /\ r = rev[c] + 1 /\ Fault
    /\ rev' = [rev EXCEPT ![c] = r]
    /\ HostUntouched /\ UNCHANGED <<ctl, reg, pending, drawn>>

(***************************************************************************)
(* The host: the installed unit and the launcher's probe take the lock     *)
(* without waiting, or fail.                                               *)
(***************************************************************************)
JobTakes(g) ==
    /\ g \in queued /\ Free
    /\ eng' = [NoEng EXCEPT !.op = "install", !.gen = g, !.pc = "restore"]
    /\ queued' = queued \ {g}
    /\ UNCHANGED <<host, report, faults>> /\ ControllersUntouched

JobBusy(g) ==
    /\ g \in queued /\ ~Free
    /\ queued' = queued \ {g}
    /\ UNCHANGED <<host, eng, report, faults>> /\ ControllersUntouched

\* vpn-protocol-liveness, the launcher that the sudo rule permits.
Launch ==
    /\ Free /\ \A i \in Boot : host.boot[i] # 0
    /\ eng' = [NoEng EXCEPT !.op = "run", !.pc = "restore"]
    /\ UNCHANGED <<host, queued, report, faults>> /\ ControllersUntouched

\* The process ends; a controller that still listens learns the answer.
Answer(pc) == ctl' = IF eng.by \in Controllers THEN [ctl EXCEPT ![eng.by].pc = pc] ELSE ctl
Refuse == ctl' = IF eng.by \in Controllers
                   THEN [ctl EXCEPT ![eng.by] = [pc |-> "idle", entry |-> NoEntry]] ELSE ctl
End == eng' = NoEng
Step(pc) == eng' = [eng EXCEPT !.pc = pc, !.at = 1]
Quiet == UNCHANGED <<queued, faults>> /\ ControllersUntouched

(***************************************************************************)
(* _recover(): the bootstrap files, the previous generation, the receipt   *)
(* and then the pending record.                                            *)
(***************************************************************************)
NothingPending ==
    /\ eng.pc = "restore" /\ host.pend = NoPend
    /\ IF eng.failed THEN End ELSE Step("check")
    /\ UNCHANGED <<host, report>> /\ Quiet

RestoreBoot ==
    /\ eng.pc = "restore" /\ host.pend # NoPend
    /\ host' = [host EXCEPT !.boot[eng.at] = host.pend.boot[eng.at]]
    /\ IF eng.at = 3 THEN Step("deactivate") ELSE eng' = [eng EXCEPT !.at = @ + 1]
    /\ UNCHANGED report /\ Quiet

Deactivate ==
    /\ eng.pc = "deactivate"
    /\ host' = [host EXCEPT !.cur = host.pend.prev]
    /\ Step("unreceipt")
    /\ UNCHANGED report /\ Quiet

DropReceipt ==
    /\ eng.pc = "unreceipt"
    /\ host' = [host EXCEPT !.receipts = @ \ {host.pend.gen}]
    /\ Step("close")
    /\ UNCHANGED report /\ Quiet

ClosePending ==
    /\ eng.pc = "close"
    /\ host' = [host EXCEPT !.pend = NoPend]
    /\ IF eng.failed THEN End ELSE Step("check")
    /\ UNCHANGED report /\ Quiet

(***************************************************************************)
(* install_generation()                                                    *)
(***************************************************************************)
\* _candidate(): files, modes, identities and digests of one complete staged revision.
Candidate(g) == host.staged[g] # 0

\* A generation that is committed and current is done; committed and replaced, or a
\* previous generation without its receipt, is refused.
InstallDone ==
    /\ eng.pc = "check" /\ eng.op = "install"
    /\ eng.gen \in host.receipts \/ (host.cur # 0 /\ host.cur \notin host.receipts)
    /\ End
    /\ UNCHANGED <<host, report>> /\ Quiet

\* The candidate is copied and renamed into generations/.
CopyCandidate ==
    /\ eng.pc = "check" /\ eng.op = "install" /\ Candidate(eng.gen)
    /\ eng.gen \notin host.receipts /\ (host.cur # 0 => host.cur \in host.receipts)
    /\ host' = [host EXCEPT !.dirs = @ \cup {eng.gen}]
    /\ Step("save")
    /\ UNCHANGED report /\ Quiet

SaveUndo ==
    /\ eng.pc = "save"
    /\ host' = [host EXCEPT !.pend = [gen |-> eng.gen, prev |-> host.cur, boot |-> host.boot]]
    /\ Step("boot")
    /\ UNCHANGED report /\ Quiet

WriteBoot ==
    /\ eng.pc = "boot"
    /\ host' = [host EXCEPT !.boot[eng.at] = host.staged[eng.gen]]
    /\ IF eng.at = 3 THEN Step("activate") ELSE eng' = [eng EXCEPT !.at = @ + 1]
    /\ UNCHANGED report /\ Quiet

Activate ==
    /\ eng.pc = "activate"
    /\ host' = [host EXCEPT !.cur = eng.gen]
    /\ Step("probe")
    /\ UNCHANGED report /\ Quiet

\* The initial authenticated probe of every required profile.
Probe ==
    /\ eng.pc = "probe"
    /\ Step("receipt")
    /\ UNCHANGED <<host, report>> /\ Quiet

SaveReceipt ==
    /\ eng.pc = "receipt"
    /\ host' = [host EXCEPT !.receipts = @ \cup {eng.gen}]
    /\ Step("commit")
    /\ UNCHANGED report /\ Quiet

Commit ==
    /\ eng.pc = "commit"
    /\ host' = [host EXCEPT !.pend = NoPend]
    /\ End
    /\ UNCHANGED report /\ Quiet

\* A failed probe or write, or SIGTERM at RuntimeMaxSec: _recover() in the same process.
InstallFails ==
    /\ eng.op = "install" /\ Fault
    /\ eng.pc \in {"save", "boot", "activate", "probe", "receipt", "commit"}
    /\ eng' = [eng EXCEPT !.pc = "restore", !.at = 1, !.failed = TRUE]
    /\ UNCHANGED <<host, queued, report>> /\ ControllersUntouched

\* SIGKILL or a power cut; queued units are gone with the power.
KillEngine ==
    /\ ~Free /\ Fault
    /\ End
    /\ queued' \in {queued, {}}
    /\ IF eng.by \in Controllers
         THEN IF ctl[eng.by].pc = "polling" THEN Answer("poll") ELSE Refuse
         ELSE UNCHANGED ctl
    /\ UNCHANGED <<host, reg, pending, rev, drawn, report>>

(***************************************************************************)
(* committed_receipt() and run_current()                                   *)
(***************************************************************************)
ReceiptCommitted ==
    /\ eng.op = "receipt" /\ eng.pc = "check"
    /\ host.cur = eng.gen /\ eng.gen \in host.receipts
    /\ Answer("publish") /\ End
    /\ UNCHANGED <<host, report, queued, faults, reg, pending, rev, drawn>>

ReceiptUncommitted ==
    /\ eng.op = "receipt" /\ eng.pc = "check"
    /\ host.cur # eng.gen /\ eng.gen \notin host.receipts
    /\ host.cur # 0 => host.cur \in host.receipts
    /\ End
    /\ IF eng.by \in Controllers THEN Answer(Uncommitted(eng.by)) ELSE UNCHANGED ctl
    /\ UNCHANGED <<host, report, queued, faults, reg, pending, rev, drawn>>

\* generation-not-current or a receipt that is missing: remote-state-refused.
ReceiptRefused ==
    /\ eng.op = "receipt" /\ eng.pc = "check"
    /\ \/ host.cur # eng.gen /\ eng.gen \in host.receipts
       \/ host.cur # 0 /\ host.cur \notin host.receipts
    /\ Refuse /\ End
    /\ UNCHANGED <<host, report, queued, faults, reg, pending, rev, drawn>>

RunCurrent ==
    /\ eng.op = "run" /\ eng.pc = "check"
    /\ End
    /\ report' = IF host.cur \notin host.receipts THEN report
                 ELSE [gen |-> host.cur, committed |-> host.pend = NoPend]
    /\ UNCHANGED host /\ Quiet

ControllerStep(c) ==
    \/ Prepare(c) \/ PrepareAgain(c) \/ Stage(c) \/ Ask(c) \/ AskBusy(c) \/ AskNoEngine(c)
    \/ Publish(c) \/ Forget(c)
EngineStep ==
    \/ NothingPending \/ RestoreBoot \/ Deactivate \/ DropReceipt \/ ClosePending
    \/ InstallDone \/ CopyCandidate \/ SaveUndo \/ WriteBoot \/ Activate \/ Probe
    \/ SaveReceipt \/ Commit
    \/ ReceiptCommitted \/ ReceiptUncommitted \/ ReceiptRefused \/ RunCurrent
Installing ==
    \/ \E c \in Controllers :
          \/ Begin(c) \/ ControllerStep(c) \/ GiveUp(c)
          \/ StageLost(c) \/ AnswerLost(c) \/ KillController(c)
          \/ \E r \in Revs : Checkout(c, r)
    \/ \E g \in Gens : JobTakes(g) \/ JobBusy(g)
    \/ EngineStep \/ InstallFails \/ KillEngine
Next == Installing \/ Launch

Spec == Init /\ [][Next]_vars

(***************************************************************************)
(* Properties                                                              *)
(***************************************************************************)

\* Whenever nobody holds generation.lock and no installation is unfinished, the host is
\* one generation as a whole: current is committed, and engine, launcher and sudo rule
\* are of the revision it was staged from (install_generation and _recover together).
SettledWhole ==
    Free /\ host.pend = NoPend =>
        IF host.cur = 0 THEN host.boot = NoBoot /\ host.receipts = {}
        ELSE /\ host.cur \in host.receipts
             /\ \A i \in Boot : host.boot[i] = host.staged[host.cur]

\* A published assignment is committed for good: no recovery takes back a receipt that a
\* controller was told of, although the receipt is on disk before its installation is
\* closed (committed_receipt recovers first).
PublishedStands == \A c \in Controllers : reg[c].gen # 0 => reg[c].gen \in host.receipts

\* A report is made only by a committed generation, with no installation half done
\* (run_current takes the lock, recovers and checks the receipt).
ReportsCommitted == report.committed

\* The registry follows its only sentinel: the generation in use is the published or the
\* pending one, so none is ever in use that no record of the controller names, and a late
\* job of an older generation does not bring it back.
NeverUnaccounted ==
    \A c \in Controllers : Cardinality(Controllers) = 1 =>
        host.cur \in {0, reg[c].gen, pending[c].gen}

=============================================================================
