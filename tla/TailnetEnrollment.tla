------------------------- MODULE TailnetEnrollment -------------------------
(***************************************************************************)
(* The first enrollment of a node into the management network              *)
(* (scripts/tailnet_management.py, tailnet_firewall.py, the recovery units *)
(* and the controller bootstrap-tailnet.py).  The guest arms a journal     *)
(* with a 300 second lease, publishes a firewall, logs the node in and     *)
(* waits for the controller's proof from outside.  Whatever is not         *)
(* confirmed is undone: by the failing request, by the controller, by a    *)
(* timer once the lease is over, and at boot by two services that gate     *)
(* nftables, ssh.socket and ssh.service.                                   *)
(*                                                                         *)
(* All requests and both services take one lock without waiting; the job   *)
(* that holds it is the variable job.  Jobs are killed, commands fail, the *)
(* host reboots, answers get lost and controllers die.                     *)
(***************************************************************************)
EXTENDS Integers, FiniteSets, TLC

CONSTANTS
    Controllers,    \* concurrent runs of bootstrap-tailnet.py
    MaxTx,          \* transactions (random nonces)
    MaxFaults,      \* failing commands, lost answers, killed controllers
    MaxKills,       \* killed jobs
    MaxReboots,
    Torn            \* a kill or reboot may leave the temporary file of a transition

EnrollmentAssumption ==
    MaxTx \in Nat \ {0} /\ MaxFaults \in Nat /\ MaxKills \in Nat /\ MaxReboots \in Nat
    /\ Torn \in BOOLEAN

Nobody == "nobody"

VARIABLES
    jrn,        \* transaction.json: phase, nonce, lease still open
    litter,     \* phases whose temporary file a killed transition has left
    arch,       \* nonce of confirmed.json, 0 without one
    ts,         \* the identity tailscale runs with, 0 for NeedsLogin
    login,      \* nonce of a login client that is still running, or 0
    auth,       \* the file with the enrollment key is there
    fw,         \* nftables.conf, the fragment, the kernel rules, the service
    early,      \* firewall recovery unit in this boot: todo, ok, failed
    late,       \* result of the last run of the recovery unit
    sock, ssh,  \* ssh.socket and ssh.service are up
    job,        \* the holder of the lock
    ctl,        \* controllers
    handoffs,   \* nonces for which a controller has published its handoff
    used,       \* nonces used so far
    faults, kills, reboots

guest == <<jrn, litter, arch, ts, login, auth, fw>>
units == <<early, late, sock, ssh>>
counts == <<faults, kills, reboots>>
vars == <<guest, units, job, ctl, handoffs, used, counts>>

Phases == {"armed", "rolling_back", "firewall_restored", "confirmed"}
NoJrn == [phase |-> "none", tx |-> 0, open |-> FALSE]
NoJob == [kind |-> "none", pc |-> "none", force |-> FALSE, owner |-> Nobody, tx |-> 0]
NoRun == [pc |-> "idle", tx |-> 0]
OldWall == [main |-> "old", frag |-> "old", rules |-> "old", svc |-> "old"]
NewWall == [main |-> "new", frag |-> "new", rules |-> "new", svc |-> "new"]

TypeOK ==
    /\ jrn \in [phase : Phases \cup {"none"}, tx : 0 .. MaxTx, open : BOOLEAN]
    /\ litter \subseteq Phases /\ arch \in 0 .. MaxTx
    /\ ts \in 0 .. MaxTx /\ login \in 0 .. MaxTx /\ auth \in BOOLEAN
    /\ fw \in [main : {"old", "new"}, frag : {"old", "new"},
               rules : {"old", "new", "none"}, svc : {"old", "new"}]
    /\ early \in {"todo", "ok", "failed"} /\ late \in {"ok", "failed"}
    /\ sock \in BOOLEAN /\ ssh \in BOOLEAN
    /\ job \in [kind : {"none", "recover", "enroll", "confirm", "rollback", "early"},
                pc : {"none", "rec", "archive", "unjournal", "logout", "fmain",
                      "ffrag", "fload", "fsvc", "restored", "remove", "snap", "arm",
                      "frag", "main", "load", "svc", "key", "login", "unkey",
                      "verify", "match", "mark"},
                force : BOOLEAN, owner : Controllers \cup {Nobody}, tx : 0 .. MaxTx]
    /\ ctl \in [Controllers ->
                  [pc : {"idle", "status1", "enroll", "status2", "proof", "confirm",
                         "reproof", "status3", "publish", "undo1", "undo2"}, tx : 0 .. MaxTx]]
    /\ handoffs \subseteq 1 .. MaxTx /\ used \in 0 .. MaxTx
    /\ faults \in 0 .. MaxFaults /\ kills \in 0 .. MaxKills /\ reboots \in 0 .. MaxReboots

\* The recovery units are installed and have run.
Init ==
    /\ jrn = NoJrn /\ litter = {} /\ arch = 0 /\ ts = 0 /\ login = 0 /\ auth = FALSE
    /\ fw = OldWall
    /\ early = "ok" /\ late = "ok" /\ sock = TRUE /\ ssh = TRUE
    /\ job = NoJob /\ ctl = [c \in Controllers |-> NoRun]
    /\ handoffs = {} /\ used = 0
    /\ faults = 0 /\ kills = 0 /\ reboots = 0

Free == job.kind = "none"
At(pc) == job.pc = pc
Step(pc) == job' = [job EXCEPT !.pc = pc]
Fault == faults < MaxFaults /\ faults' = faults + 1 /\ UNCHANGED <<kills, reboots>>

\* _read_transaction: there is a journal.
Recorded == jrn.phase # "none"

\* _match_capability: the capability names the transaction of the journal.
Matches(tx) == Recorded /\ jrn.tx = tx

\* _expired: past the deadline, or armed in an earlier boot.
Expired == ~jrn.open

----------------------------------------------------------------------------
(* Answers to the controllers.                                             *)

\* run: what a controller does next when its request is answered with result r
\* about transaction x.
After(c, r, x) ==
    LET s == ctl[c] IN
    CASE s.pc = "status1" /\ r = "configured" -> [pc |-> "reproof", tx |-> x]
      [] s.pc = "status1" /\ r = "idle" -> [pc |-> "enroll", tx |-> 0]
      [] s.pc \in {"enroll", "status2"} /\ r \in {"pending", "configured"}
            -> [pc |-> "proof", tx |-> x]
      [] s.pc = "enroll" /\ r = "refused" -> [pc |-> "status2", tx |-> 0]
      [] s.pc \in {"confirm", "status3"} /\ r = "configured" /\ x = s.tx
            -> [pc |-> "publish", tx |-> x]
      [] s.pc = "confirm" /\ r = "refused" -> [pc |-> "status3", tx |-> s.tx]
      [] s.pc \in {"confirm", "status3"} -> [pc |-> "undo1", tx |-> s.tx]
      [] s.pc = "undo1" /\ r = "pending" -> [pc |-> "undo2", tx |-> s.tx]
      [] OTHER -> NoRun

\* The job ends: its lock is free, and a controller that still waits is answered.
Reply(r, x) ==
    /\ job' = NoJob
    /\ ctl' = IF job.owner = Nobody THEN ctl
              ELSE [ctl EXCEPT ![job.owner] = After(job.owner, r, x)]

\* The recovery unit ends; ssh.service is only started after a success.
UnitEnds(result) ==
    /\ late' = result
    /\ ssh' = (ssh \/ (result = "ok" /\ sock))
    /\ UNCHANGED <<early, sock>>

\* The firewall unit ends.  At boot a success lets nftables load its files and
\* opens ssh.socket; units that failed with it are not started again.
GateEnds(result) ==
    /\ early' = result
    /\ sock' = (sock \/ (result = "ok" /\ early = "todo"))
    /\ UNCHANGED <<late, ssh>>

\* _recover_locked has come to its result.
Recovered(r) ==
    CASE job.kind = "recover" -> UnitEnds("ok") /\ Reply(r, 0)
      [] job.kind = "enroll" /\ ~job.force /\ r # "pending" -> Step("snap") /\ UNCHANGED <<units, ctl>>
      [] job.kind = "confirm" /\ r = "confirmed" ->
            Reply("configured", job.tx) /\ UNCHANGED units
      [] job.kind = "rollback" -> Reply(r, 0) /\ UNCHANGED units
      [] OTHER -> Reply("refused", 0) /\ UNCHANGED units

\* A job refuses, or gives up in its recovery.
Refuse ==
    CASE job.kind = "recover" -> UnitEnds("failed") /\ Reply("refused", 0)
      [] job.kind = "early" -> GateEnds("failed") /\ Reply("refused", 0)
      [] OTHER -> Reply("refused", 0) /\ UNCHANGED units

----------------------------------------------------------------------------
(* _transition: a temporary file named after nonce and phase is created    *)
(* exclusively and moved over the journal.  One that is left over makes    *)
(* the transition fail, and is removed on the way out.                     *)

Phased(phase) == jrn' = [jrn EXCEPT !.phase = phase]
Blocked(phase) == phase \in litter /\ litter' = litter \ {phase} /\ UNCHANGED jrn
Transition(phase) == phase \notin litter /\ Phased(phase) /\ UNCHANGED litter

----------------------------------------------------------------------------
(* _recover_locked.                                                        *)

\* Nothing to recover, or an enrollment whose lease is open.
RecoverNothing ==
    /\ At("rec") /\ job.kind # "early"
    /\ \/ ~Recorded /\ Recovered("idle")
       \/ jrn.phase = "armed" /\ ~job.force /\ ~Expired /\ Recovered("pending")
    /\ UNCHANGED <<guest, handoffs, used, counts>>

\* The key file goes first, then the decision to roll back becomes durable.
RecoverArmed ==
    /\ At("rec") /\ job.kind # "early" /\ jrn.phase = "armed"
    /\ job.force \/ Expired
    /\ auth' = FALSE
    /\ \/ Transition("rolling_back") /\ Step("logout") /\ UNCHANGED <<units, ctl>>
       \/ Blocked("rolling_back") /\ Refuse
    /\ UNCHANGED <<arch, ts, login, fw, handoffs, used, counts>>

RecoverRolling ==
    /\ At("rec") /\ job.kind # "early"
    /\ jrn.phase \in {"rolling_back", "firewall_restored"}
    /\ auth' = FALSE
    /\ Step("logout")
    /\ UNCHANGED <<jrn, litter, arch, ts, login, fw, units, ctl, handoffs, used, counts>>

RecoverConfirmed ==
    /\ At("rec") /\ job.kind # "early" /\ jrn.phase = "confirmed"
    /\ auth' = FALSE
    /\ Step("archive")
    /\ UNCHANGED <<jrn, litter, arch, ts, login, fw, units, ctl, handoffs, used, counts>>

\* _archive_confirmation
Archive ==
    /\ At("archive")
    /\ IF arch \in {0, jrn.tx} THEN arch' = jrn.tx /\ Step("unjournal") /\ UNCHANGED <<units, ctl>>
                               ELSE UNCHANGED arch /\ Refuse
    /\ UNCHANGED <<jrn, litter, ts, login, auth, fw, handoffs, used, counts>>

Unjournal ==
    /\ At("unjournal")
    /\ jrn' = NoJrn /\ litter' = {}
    /\ Recovered("confirmed")
    /\ UNCHANGED <<arch, ts, login, auth, fw, handoffs, used, counts>>

\* Only the identity that carries the nonce of the transaction is logged out.
Logout ==
    /\ At("logout")
    /\ \/ ts \in {0, jrn.tx} /\ ts' = 0 /\ Step("fmain") /\ UNCHANGED <<units, ctl>>
       \/ ts \notin {0, jrn.tx} /\ UNCHANGED ts /\ Refuse
    /\ UNCHANGED <<jrn, litter, arch, login, auth, fw, handoffs, used, counts>>

\* Firewall.restore: files, then the whole ruleset, then (online) the service.
RestoreMain ==
    /\ At("fmain")
    /\ fw' = [fw EXCEPT !.main = "old"]
    /\ Step("ffrag")
    /\ UNCHANGED <<jrn, litter, arch, ts, login, auth, units, ctl, handoffs, used, counts>>

RestoreFragment ==
    /\ At("ffrag")
    /\ fw' = [fw EXCEPT !.frag = "old"]
    /\ Step("fload")
    /\ UNCHANGED <<jrn, litter, arch, ts, login, auth, units, ctl, handoffs, used, counts>>

RestoreRules ==
    /\ At("fload")
    /\ fw' = [fw EXCEPT !.rules = "old"]
    /\ Step(IF job.kind = "early" THEN "restored" ELSE "fsvc")
    /\ UNCHANGED <<jrn, litter, arch, ts, login, auth, units, ctl, handoffs, used, counts>>

RestoreService ==
    /\ At("fsvc")
    /\ fw' = [fw EXCEPT !.svc = "old"]
    /\ Step("remove")
    /\ UNCHANGED <<jrn, litter, arch, ts, login, auth, units, ctl, handoffs, used, counts>>

RemoveTransaction ==
    /\ At("remove")
    /\ jrn' = NoJrn /\ litter' = {}
    /\ Recovered("rolled_back")
    /\ UNCHANGED <<arch, ts, login, auth, fw, handoffs, used, counts>>

\* recover, from the timer or at boot; a run that meets the lock exits 75.
TimerRun ==
    /\ Free /\ early = "ok"
    /\ job' = [NoJob EXCEPT !.kind = "recover", !.pc = "rec"]
    /\ UNCHANGED <<guest, units, ctl, handoffs, used, counts>>

TimerBusy ==
    /\ ~Free /\ job.kind \notin {"recover", "early"} /\ early = "ok"
    /\ late' = "failed"
    /\ UNCHANGED <<guest, early, sock, ssh, job, ctl, handoffs, used, counts>>

----------------------------------------------------------------------------
(* recover_firewall: the boot gate.                                        *)

EarlyRun ==
    /\ Free /\ early # "ok"
    /\ job' = [NoJob EXCEPT !.kind = "early", !.pc = "rec"]
    /\ UNCHANGED <<guest, units, ctl, handoffs, used, counts>>

Opened ==
    IF early = "todo" THEN [fw EXCEPT !.rules = fw.main] ELSE fw

\* Without an unconfirmed transaction the gate opens at once.
EarlyNothing ==
    /\ At("rec") /\ job.kind = "early" /\ jrn.phase \in {"none", "confirmed"}
    /\ GateEnds("ok") /\ Reply("idle", 0)
    /\ fw' = Opened
    /\ UNCHANGED <<jrn, litter, arch, ts, login, auth, handoffs, used, counts>>

EarlyDecides ==
    /\ At("rec") /\ job.kind = "early" /\ jrn.phase \notin {"none", "confirmed"}
    /\ IF jrn.phase = "armed"
       THEN \/ Transition("rolling_back") /\ Step("fmain") /\ UNCHANGED <<units, ctl>>
            \/ Blocked("rolling_back") /\ Refuse
       ELSE Step("fmain") /\ UNCHANGED <<jrn, litter, units, ctl>>
    /\ UNCHANGED <<arch, ts, login, auth, fw, handoffs, used, counts>>

\* Mutation: a journal that says firewall_restored already is refused.
EarlyEnds_once ==
    /\ At("restored")
    /\ \/ /\ jrn.phase = "rolling_back"
          /\ Transition("firewall_restored") /\ GateEnds("ok") /\ Reply("idle", 0)
          /\ fw' = Opened
       \/ /\ jrn.phase = "firewall_restored" /\ Refuse
          /\ UNCHANGED <<jrn, litter, fw>>
    /\ UNCHANGED <<arch, ts, login, auth, handoffs, used, counts>>

EarlyEnds ==
    /\ At("restored")
    /\ \/ /\ Transition("firewall_restored") /\ GateEnds("ok") /\ Reply("idle", 0)
          /\ fw' = Opened
       \/ Blocked("firewall_restored") /\ jrn.phase # "firewall_restored" /\ Refuse
          /\ UNCHANGED fw
    /\ UNCHANGED <<arch, ts, login, auth, handoffs, used, counts>>

----------------------------------------------------------------------------
(* enroll, in the guest.                                                   *)

\* A request of controller c reaches the guest through ssh and takes the lock.
Request(c, kind, pc) ==
    /\ ssh /\ Free
    /\ job' = [kind |-> kind, pc |-> pc, force |-> FALSE, owner |-> c, tx |-> ctl[c].tx]
    /\ UNCHANGED <<guest, units, ctl, handoffs, used, counts>>

\* _require_recovery_ready: both services have ended with success.
Ready == early = "ok" /\ late = "ok"

RequestEnroll(c) ==
    /\ ctl[c].pc = "enroll" /\ Ready
    /\ Request(c, "enroll", "rec")

\* Firewall.snapshot: only the packaged or our own firewall, as it is loaded.
Baseline == fw = OldWall

\* An identity must be the archived one; without one nothing may be archived.
Snapshot ==
    /\ At("snap")
    /\ \/ ts # 0 /\ ts = arch /\ Reply("configured", arch)
       \/ ts # 0 /\ ts # arch /\ Reply("refused", 0)
       \/ ts = 0 /\ (arch # 0 \/ ~Ready \/ ~Baseline) /\ Reply("refused", 0)
       \/ ts = 0 /\ arch = 0 /\ Ready /\ Baseline /\ Step("arm") /\ UNCHANGED ctl
    /\ UNCHANGED <<guest, units, handoffs, used, counts>>

\* _write_transaction: journal and lease precede every change.
Arm ==
    /\ At("arm") /\ used < MaxTx
    /\ used' = used + 1
    /\ jrn' = [phase |-> "armed", tx |-> used + 1, open |-> TRUE]
    /\ job' = [job EXCEPT !.pc = "frag", !.tx = used + 1]
    /\ UNCHANGED <<litter, arch, ts, login, auth, fw, units, ctl, handoffs, counts>>

\* Firewall.apply: fragment, nftables.conf, kernel rules, service.
ApplyFile(pc, file, next) ==
    /\ At(pc)
    /\ fw' = [fw EXCEPT ![file] = "new"]
    /\ Step(next)
    /\ UNCHANGED <<jrn, litter, arch, ts, login, auth, units, ctl, handoffs, used, counts>>

Apply ==
    \/ ApplyFile("frag", "frag", "main") \/ ApplyFile("main", "main", "load")
    \/ ApplyFile("load", "rules", "svc") \/ ApplyFile("svc", "svc", "key")

\* _write_auth_file, and the login client is started.
WriteKey ==
    /\ At("key")
    /\ auth' = TRUE /\ login' = job.tx
    /\ Step("login")
    /\ UNCHANGED <<jrn, litter, arch, ts, fw, units, ctl, handoffs, used, counts>>

\* The client ends, with or without an identity; it outlives a killed request.
LoginEnds ==
    /\ login # 0 /\ login' = 0
    /\ ts' \in {ts, login}
    /\ UNCHANGED <<jrn, litter, arch, auth, fw, units, job, ctl, handoffs, used, counts>>

RemoveKey ==
    /\ At("login") /\ login = 0
    /\ auth' = FALSE
    /\ Step("verify")
    /\ UNCHANGED <<jrn, litter, arch, ts, login, fw, units, ctl, handoffs, used, counts>>

\* _postconditions, Firewall.verify and the lease.
Proven(tx) == ts = tx /\ fw = NewWall
Force == job' = [job EXCEPT !.pc = "rec", !.force = TRUE]

Verify ==
    /\ At("verify")
    /\ IF Proven(job.tx) /\ ~Expired THEN Reply("pending", job.tx)
                                    ELSE Force /\ UNCHANGED ctl
    /\ UNCHANGED <<guest, units, handoffs, used, counts>>

\* A step of the enrollment fails: it is rolled back under the same lock.
EnrollFails ==
    /\ job.pc \in {"arm", "frag", "main", "load", "svc", "key", "verify"} /\ Fault
    /\ Force
    /\ UNCHANGED <<guest, units, ctl, handoffs, used>>

----------------------------------------------------------------------------
(* confirm, rollback and status.                                           *)

RequestConfirm(c) == ctl[c].pc = "confirm" /\ Request(c, "confirm", "match")

Match ==
    /\ At("match")
    /\ IF Matches(job.tx) /\ jrn.phase = "armed" /\ ~Expired /\ Proven(job.tx)
       THEN Step("mark") /\ UNCHANGED ctl
       ELSE Reply("refused", 0)
    /\ UNCHANGED <<guest, units, handoffs, used, counts>>

\* _mark_transaction_confirmed is the commit point.
Mark ==
    /\ At("mark")
    /\ \/ Transition("confirmed") /\ Step("rec") /\ UNCHANGED ctl
       \/ Blocked("confirmed") /\ Reply("refused", 0)
    /\ UNCHANGED <<arch, ts, login, auth, fw, units, handoffs, used, counts>>

RequestRollback(c) ==
    /\ ctl[c].pc = "undo2" /\ ssh /\ Free
    /\ IF Matches(ctl[c].tx) /\ jrn.phase # "confirmed"
       THEN /\ job' = [kind |-> "rollback", pc |-> "rec", force |-> TRUE,
                       owner |-> c, tx |-> ctl[c].tx]
            /\ UNCHANGED ctl
       ELSE UNCHANGED job /\ ctl' = [ctl EXCEPT ![c] = After(c, "refused", 0)]
    /\ UNCHANGED <<guest, units, handoffs, used, counts>>

\* transaction_status: what is recorded and still verified.
Status ==
    LET tx == IF Recorded THEN jrn.tx ELSE arch IN
    CASE ~Free -> "refused"
      [] tx = 0 -> "idle"
      [] jrn.phase \in {"rolling_back", "firewall_restored"} -> "undoing"
      [] jrn.phase = "armed" /\ Expired -> "expired"
      [] ~Proven(tx) -> "refused"
      [] OTHER -> IF jrn.phase = "armed" THEN "pending" ELSE "configured"

AskStatus(c) ==
    /\ ctl[c].pc \in {"status1", "status2", "status3", "undo1"} /\ ssh
    /\ ctl' = [ctl EXCEPT ![c] =
                  After(c, Status, IF Recorded THEN jrn.tx ELSE arch)]
    /\ UNCHANGED <<guest, units, job, handoffs, used, counts>>

\* Busy, or the services are not ready: the request is refused.
Turned(c) ==
    /\ ctl[c].pc \in {"enroll", "confirm", "undo2"} /\ ssh
    /\ job.owner # c /\ (~Free \/ (ctl[c].pc = "enroll" /\ ~Ready))
    /\ ctl' = [ctl EXCEPT ![c] = After(c, "refused", 0)]
    /\ UNCHANGED <<guest, units, job, handoffs, used, counts>>

----------------------------------------------------------------------------
(* The controller.                                                         *)

Goes(c, pc) == ctl' = [ctl EXCEPT ![c].pc = pc]

Start(c) ==
    /\ ctl[c].pc = "idle"
    /\ Goes(c, "status1")
    /\ UNCHANGED <<guest, units, job, handoffs, used, counts>>

\* _proofs: sessions to the public and to a management address.
Reaches(tx) == ssh /\ ts = tx /\ fw.rules = "new"

Proofs(c) ==
    /\ ctl[c].pc \in {"proof", "reproof"} /\ ssh
    /\ ctl' = [ctl EXCEPT ![c] =
         IF Reaches(@.tx) THEN [@ EXCEPT !.pc = IF @ = "proof" THEN "confirm" ELSE "publish"]
         ELSE IF @.pc = "proof" THEN [@ EXCEPT !.pc = "undo1"] ELSE NoRun]
    /\ UNCHANGED <<guest, units, job, handoffs, used, counts>>

Publish(c) ==
    /\ ctl[c].pc = "publish"
    /\ handoffs' = handoffs \cup {ctl[c].tx}
    /\ ctl' = [ctl EXCEPT ![c] = NoRun]
    /\ UNCHANGED <<guest, units, job, used, counts>>

Orphan(c) == job' = IF job.owner = c THEN [job EXCEPT !.owner = Nobody] ELSE job

\* A session is lost or times out; only a controller with a capability undoes.
Lost(c) ==
    /\ ctl[c].pc \notin {"idle", "publish"} /\ Fault
    /\ ctl' = [ctl EXCEPT ![c] =
         IF @.pc \in {"proof", "confirm", "status3"} THEN [@ EXCEPT !.pc = "undo1"] ELSE NoRun]
    /\ Orphan(c)
    /\ UNCHANGED <<guest, units, handoffs, used>>

\* Without ssh every session is lost.
Unreachable(c) ==
    /\ ctl[c].pc \notin {"idle", "publish"} /\ ~ssh
    /\ ctl' = [ctl EXCEPT ![c] =
         IF @.pc \in {"proof", "confirm", "status3"} THEN [@ EXCEPT !.pc = "undo1"] ELSE NoRun]
    /\ Orphan(c)
    /\ UNCHANGED <<guest, units, handoffs, used, counts>>

ControllerDies(c) ==
    /\ ctl[c].pc # "idle" /\ Fault
    /\ ctl' = [ctl EXCEPT ![c] = NoRun]
    /\ Orphan(c)
    /\ UNCHANGED <<guest, units, handoffs, used>>

----------------------------------------------------------------------------
(* The environment.                                                        *)

\* A login takes 30 seconds at most and the steps before it are short against
\* the 300 seconds of the lease.
Tick ==
    /\ jrn.open /\ login = 0 /\ job.pc \notin {"frag", "main", "load", "svc", "key"}
    /\ jrn' = [jrn EXCEPT !.open = FALSE]
    /\ UNCHANGED <<litter, arch, ts, login, auth, fw, units, job, ctl, handoffs, used, counts>>

\* A command of a recovery fails.
RecoveryFails ==
    /\ job.pc \in {"archive", "unjournal", "logout", "fmain", "ffrag", "fload", "fsvc", "remove"}
    /\ Fault /\ Refuse
    /\ UNCHANGED <<guest, handoffs, used>>

\* The transition a job is about to make, whose file a crash may leave.
Pending ==
    CASE job.pc = "rec" /\ jrn.phase = "armed" /\ (job.force \/ Expired \/ job.kind = "early")
            -> {"rolling_back"}
      [] job.pc = "restored" /\ jrn.phase = "rolling_back" -> {"firewall_restored"}
      [] job.pc = "mark" -> {"confirmed"}
      [] OTHER -> {}
Leave == litter' \in {litter, litter \cup (IF Torn THEN Pending ELSE {})}

JobKilled ==
    /\ ~Free /\ kills < MaxKills /\ kills' = kills + 1
    /\ Leave
    /\ Refuse
    /\ UNCHANGED <<jrn, arch, ts, login, auth, fw, handoffs, used, faults, reboots>>

\* The key is in /run; the rules are gone until nftables starts.
Reboot ==
    /\ reboots < MaxReboots /\ reboots' = reboots + 1
    /\ Leave
    /\ jrn' = [jrn EXCEPT !.open = FALSE]
    /\ login' = 0 /\ auth' = FALSE
    /\ fw' = [fw EXCEPT !.rules = "none"]
    /\ early' = "todo" /\ late' = "failed" /\ sock' = FALSE /\ ssh' = FALSE
    /\ job' = NoJob
    /\ UNCHANGED <<arch, ts, ctl, handoffs, used, faults, kills>>

Recovery ==
    \/ RecoverNothing \/ RecoverArmed \/ RecoverRolling \/ RecoverConfirmed
    \/ Archive \/ Unjournal \/ Logout
    \/ RestoreMain \/ RestoreFragment \/ RestoreRules \/ RestoreService \/ RemoveTransaction
    \/ EarlyNothing \/ EarlyDecides \/ EarlyEnds

Enrolling == Snapshot \/ Arm \/ Apply \/ WriteKey \/ RemoveKey \/ Verify \/ Match \/ Mark

Controller(c) ==
    \/ Start(c) \/ AskStatus(c) \/ RequestEnroll(c) \/ Proofs(c) \/ RequestConfirm(c)
    \/ RequestRollback(c) \/ Turned(c) \/ Publish(c) \/ Unreachable(c)

Next ==
    \/ Recovery \/ Enrolling \/ LoginEnds \/ EnrollFails \/ RecoveryFails
    \/ TimerRun \/ TimerBusy \/ EarlyRun \/ Tick \/ JobKilled \/ Reboot
    \/ \E c \in Controllers : Controller(c) \/ Lost(c) \/ ControllerDies(c)

Spec == Init /\ [][Next]_vars

----------------------------------------------------------------------------
(* Properties.                                                             *)

\* Without a journal the host is either as it was before or enrolled and
\* archived: no half enrollment is left without a record (recover,
\* _remove_transaction come last).
Accounted ==
    jrn.phase = "none" =>
        /\ ~auth /\ login = 0 /\ ts = arch
        /\ fw.main = IF arch = 0 THEN "old" ELSE "new"
        /\ fw.frag = fw.main /\ fw.svc = fw.main

\* "Confirmed publication is the commit point": from then on no recovery, boot
\* or controller ends the identity or the receipt (confirm, recover, rollback).
CommitStands ==
    /\ arch # 0 => arch' = arch /\ ts' = ts /\ fw'.main = "new"
    /\ jrn.phase = "confirmed" =>
         ts' = ts /\ (jrn'.phase = "confirmed" \/ arch' = jrn.tx)

\* A handoff that a controller has published names a committed transaction (_publish).
HandoffTrue ==
    \A x \in handoffs : arch = x \/ (jrn.phase = "confirmed" /\ jrn.tx = x)

\* The node answers on ssh with an identity only behind the management rules:
\* they are loaded before the login, the logout precedes their removal, and at
\* boot ssh waits for both recovery phases.
GuardedIdentity == (ssh /\ ts # 0) => fw.rules = "new"

=============================================================================
