---------- MODULE MCEvidence ----------
(* What proves and announces: guarded cleanups, staging acceptance, the    *)
(* AWG evidence lane and the two alert paths. The components share no      *)
(* state, so a behaviour follows one of them, with the bounds of its       *)
(* instance.                                                               *)
EXTENDS Integers, Sequences, FiniteSets, TLC

CONSTANTS NotUsed,   \* the value of a variable the followed component does not have
          g1, g2, w1, w2, a1, a2

VARIABLES focus,   \* the component this behaviour follows
          acked, again, alert, applies, approved, auth, bcur, brot, calm, cfg, claim, cloud, conf,
          ctl, cur, current, day, disk, drifts, expired, fails, faults, files, flock,
          gen, held, hist, hook, inbox, intent, journal, kills, lane, latest, live, ls,
          ltmp, manifest, mem, net, nid, now, observed, outcome, override, pend, posted,
          prevf, proc, progress, proved, ptmp, push, real, receipt, receipts, received,
          removed, rlock, rotated, run, seen, sentNow, signed, snapshot, src, srv, st,
          stamp, state, suc, terraform, tfstate, tick, timer, txn, unit, wait, work

vars == <<focus, acked, again, alert, applies, approved, auth, bcur, brot, calm, cfg, claim, cloud, conf,
          ctl, cur, current, day, disk, drifts, expired, fails, faults, files, flock,
          gen, held, hist, hook, inbox, intent, journal, kills, lane, latest, live, ls,
          ltmp, manifest, mem, net, nid, now, observed, outcome, override, pend, posted,
          prevf, proc, progress, proved, ptmp, push, real, receipt, receipts, received,
          removed, rlock, rotated, run, seen, sentNow, signed, snapshot, src, srv, st,
          stamp, state, suc, terraform, tfstate, tick, timer, txn, unit, wait, work>>

AllRows == <<"fresh-metrics", "agent-wal", "staleness",
    "grouping-inhibition", "finite-silence", "control-service-loss", "control-host-loss",
    "primary-authority-loss", "invalid-candidate-refusal", "valid-candidate-activation",
    "control-plane-rollback", "component-removal">>

KindOf(r) ==
    CASE r = "fresh-metrics" -> "check"
      [] r = "agent-wal" -> "queue"
      [] r = "staleness" -> "producer"
      [] r = "grouping-inhibition" -> "alerts"
      [] r = "finite-silence" -> "silence"
      [] r = "invalid-candidate-refusal" -> "refusal"
      [] r = "control-service-loss" -> "units"
      [] r = "control-host-loss" -> "host"
      [] r = "primary-authority-loss" -> "authority"
      [] r = "valid-candidate-activation" -> "activation"
      [] r = "control-plane-rollback" -> "rollback"
      [] r = "component-removal" -> "removal"

Symmetry == Permutations({w1, w2}) \cup Permutations({a1, a2})

Vultr == INSTANCE StagingCleanup WITH
    Provider <- "vultr", Paths <- {"p1", "p2"}, Outputs <- {"m1", "m2"},
    Owned <- {"server", "disk"}, MaxState <- 2, MaxFaults <- 2
Upcloud == INSTANCE StagingCleanup WITH
    Provider <- "upcloud", Paths <- {"p1", "p2"}, Outputs <- {"m1", "m2"},
    Owned <- {"server", "disk"}, MaxState <- 2, MaxFaults <- 2
Acceptance == INSTANCE StagingAcceptance WITH
    STEPS <- AllRows, Kind <- [r \in {AllRows[i] : i \in 1 .. Len(AllRows)} |-> KindOf(r)],
    OBSERVED <- {"control-service-loss", "control-host-loss", "primary-authority-loss"},
    MaxKills <- 3, MaxFails <- 3
Retirement == INSTANCE ObservabilityCleanup WITH
    PROVIDERS <- <<"upcloud", "hetzner">>, Controllers <- {w1, w2}, MaxSeals <- 2,
    MaxKills <- 1, MaxFails <- 0, MayExpire <- TRUE, MayTear <- FALSE, MaxDrift <- 0
Drifting == INSTANCE ObservabilityCleanup WITH
    PROVIDERS <- <<"upcloud", "hetzner">>, Controllers <- {w1}, MaxSeals <- 2,
    MaxKills <- 1, MaxFails <- 1, MayExpire <- TRUE, MayTear <- TRUE, MaxDrift <- 1
Awg == INSTANCE AwgRotation WITH
    MaxKeys <- 8, MaxFaults <- 3, Overlap <- FALSE,
    Faults <- {"lost", "server", "hook", "lane", "probe", "load"}
Evidence == INSTANCE EvidenceState WITH
    Sources <- 2, MaxRuns <- 3, MaxKills <- 1, MaxTime <- 2, MaxNonces <- 2, MaxAge <- 1
Deadman == INSTANCE DeadmanReceiver WITH
    Gens <- {g1}, MaxFuture <- 1, Overdue <- 2, Window <- 1, Reminder <- 2,
    CanaryEvery <- 3, MaxFaults <- 1
Pulses == INSTANCE DeadmanReceiver WITH
    Gens <- {g1, g2}, MaxFuture <- 3, Overdue <- 1, Window <- 1, Reminder <- 2,
    CanaryEvery <- 3, MaxFaults <- 0
Relay == INSTANCE TelegramRelay WITH
    Workers <- {w1, w2}, Authorities <- {a1, a2}, MaxSeq <- 2, MaxDay <- 1,
    MaxStamp <- 1, MaxFaults <- 1

(* The constants are within the assumptions of the components.             *)
ASSUME ConstantsAssumption ==
    /\ Vultr!CleanupAssumption
    /\ Upcloud!CleanupAssumption
    /\ Acceptance!RowsAssumption
    /\ Retirement!CleanupAssumption
    /\ Drifting!CleanupAssumption
    /\ Deadman!TimesAssumption
    /\ Pulses!TimesAssumption

(* The first state of a behaviour picks the component and is an initial    *)
(* state of it.                                                            *)
Init ==
    \/ /\ focus = "vultr cleanup" /\ Vultr!Init
       /\ acked = NotUsed /\ again = NotUsed /\ alert = NotUsed
       /\ approved = NotUsed /\ auth = NotUsed /\ bcur = NotUsed /\ brot = NotUsed
       /\ calm = NotUsed /\ cfg = NotUsed /\ conf = NotUsed /\ ctl = NotUsed
       /\ current = NotUsed /\ day = NotUsed /\ disk = NotUsed /\ drifts = NotUsed
       /\ fails = NotUsed /\ flock = NotUsed /\ gen = NotUsed /\ held = NotUsed
       /\ hist = NotUsed /\ hook = NotUsed /\ inbox = NotUsed /\ journal = NotUsed
       /\ kills = NotUsed /\ lane = NotUsed /\ latest = NotUsed /\ live = NotUsed
       /\ ls = NotUsed /\ ltmp = NotUsed /\ mem = NotUsed /\ net = NotUsed
       /\ nid = NotUsed /\ now = NotUsed /\ observed = NotUsed /\ outcome = NotUsed
       /\ pend = NotUsed /\ posted = NotUsed /\ prevf = NotUsed /\ proc = NotUsed
       /\ progress = NotUsed /\ proved = NotUsed /\ ptmp = NotUsed /\ push = NotUsed
       /\ real = NotUsed /\ receipt = NotUsed /\ receipts = NotUsed
       /\ received = NotUsed /\ removed = NotUsed /\ rlock = NotUsed
       /\ rotated = NotUsed /\ seen = NotUsed /\ sentNow = NotUsed
       /\ signed = NotUsed /\ snapshot = NotUsed /\ src = NotUsed /\ srv = NotUsed
       /\ st = NotUsed /\ stamp = NotUsed /\ state = NotUsed /\ suc = NotUsed
       /\ tick = NotUsed /\ timer = NotUsed /\ txn = NotUsed /\ unit = NotUsed
       /\ wait = NotUsed /\ work = NotUsed
    \/ /\ focus = "upcloud cleanup" /\ Upcloud!Init
       /\ acked = NotUsed /\ again = NotUsed /\ alert = NotUsed
       /\ approved = NotUsed /\ auth = NotUsed /\ bcur = NotUsed /\ brot = NotUsed
       /\ calm = NotUsed /\ cfg = NotUsed /\ conf = NotUsed /\ ctl = NotUsed
       /\ current = NotUsed /\ day = NotUsed /\ disk = NotUsed /\ drifts = NotUsed
       /\ fails = NotUsed /\ flock = NotUsed /\ gen = NotUsed /\ held = NotUsed
       /\ hist = NotUsed /\ hook = NotUsed /\ inbox = NotUsed /\ journal = NotUsed
       /\ kills = NotUsed /\ lane = NotUsed /\ latest = NotUsed /\ live = NotUsed
       /\ ls = NotUsed /\ ltmp = NotUsed /\ mem = NotUsed /\ net = NotUsed
       /\ nid = NotUsed /\ now = NotUsed /\ observed = NotUsed /\ outcome = NotUsed
       /\ pend = NotUsed /\ posted = NotUsed /\ prevf = NotUsed /\ proc = NotUsed
       /\ progress = NotUsed /\ proved = NotUsed /\ ptmp = NotUsed /\ push = NotUsed
       /\ real = NotUsed /\ receipt = NotUsed /\ receipts = NotUsed
       /\ received = NotUsed /\ removed = NotUsed /\ rlock = NotUsed
       /\ rotated = NotUsed /\ seen = NotUsed /\ sentNow = NotUsed
       /\ signed = NotUsed /\ snapshot = NotUsed /\ src = NotUsed /\ srv = NotUsed
       /\ st = NotUsed /\ stamp = NotUsed /\ state = NotUsed /\ suc = NotUsed
       /\ tick = NotUsed /\ timer = NotUsed /\ txn = NotUsed /\ unit = NotUsed
       /\ wait = NotUsed /\ work = NotUsed
    \/ /\ focus = "staging acceptance" /\ Acceptance!Init
       /\ acked = NotUsed /\ again = NotUsed /\ alert = NotUsed /\ applies = NotUsed
       /\ auth = NotUsed /\ bcur = NotUsed /\ brot = NotUsed /\ calm = NotUsed
       /\ cfg = NotUsed /\ claim = NotUsed /\ cloud = NotUsed /\ conf = NotUsed
       /\ cur = NotUsed /\ current = NotUsed /\ day = NotUsed /\ disk = NotUsed
       /\ drifts = NotUsed /\ expired = NotUsed /\ faults = NotUsed
       /\ files = NotUsed /\ flock = NotUsed /\ hist = NotUsed /\ hook = NotUsed
       /\ inbox = NotUsed /\ intent = NotUsed /\ lane = NotUsed /\ latest = NotUsed
       /\ live = NotUsed /\ ls = NotUsed /\ ltmp = NotUsed /\ manifest = NotUsed
       /\ mem = NotUsed /\ net = NotUsed /\ nid = NotUsed /\ now = NotUsed
       /\ outcome = NotUsed /\ override = NotUsed /\ pend = NotUsed
       /\ posted = NotUsed /\ prevf = NotUsed /\ proc = NotUsed
       /\ progress = NotUsed /\ ptmp = NotUsed /\ push = NotUsed /\ real = NotUsed
       /\ receipt = NotUsed /\ received = NotUsed /\ rlock = NotUsed
       /\ rotated = NotUsed /\ run = NotUsed /\ seen = NotUsed /\ sentNow = NotUsed
       /\ signed = NotUsed /\ snapshot = NotUsed /\ src = NotUsed /\ srv = NotUsed
       /\ st = NotUsed /\ stamp = NotUsed /\ state = NotUsed /\ suc = NotUsed
       /\ terraform = NotUsed /\ tfstate = NotUsed /\ tick = NotUsed
       /\ timer = NotUsed /\ txn = NotUsed /\ unit = NotUsed /\ wait = NotUsed
       /\ work = NotUsed
    \/ /\ focus = "observability cleanup" /\ Retirement!Init
       /\ acked = NotUsed /\ again = NotUsed /\ alert = NotUsed /\ applies = NotUsed
       /\ approved = NotUsed /\ auth = NotUsed /\ bcur = NotUsed /\ brot = NotUsed
       /\ calm = NotUsed /\ cfg = NotUsed /\ claim = NotUsed /\ cloud = NotUsed
       /\ conf = NotUsed /\ cur = NotUsed /\ current = NotUsed /\ day = NotUsed
       /\ disk = NotUsed /\ expired = NotUsed /\ faults = NotUsed /\ files = NotUsed
       /\ flock = NotUsed /\ gen = NotUsed /\ held = NotUsed /\ hist = NotUsed
       /\ hook = NotUsed /\ inbox = NotUsed /\ intent = NotUsed /\ journal = NotUsed
       /\ lane = NotUsed /\ latest = NotUsed /\ live = NotUsed /\ ls = NotUsed
       /\ ltmp = NotUsed /\ mem = NotUsed /\ net = NotUsed /\ nid = NotUsed
       /\ now = NotUsed /\ observed = NotUsed /\ outcome = NotUsed /\ pend = NotUsed
       /\ posted = NotUsed /\ prevf = NotUsed /\ proc = NotUsed /\ proved = NotUsed
       /\ ptmp = NotUsed /\ push = NotUsed /\ receipts = NotUsed
       /\ received = NotUsed /\ removed = NotUsed /\ rlock = NotUsed
       /\ rotated = NotUsed /\ run = NotUsed /\ seen = NotUsed /\ sentNow = NotUsed
       /\ signed = NotUsed /\ src = NotUsed /\ srv = NotUsed /\ st = NotUsed
       /\ stamp = NotUsed /\ suc = NotUsed /\ terraform = NotUsed
       /\ tfstate = NotUsed /\ tick = NotUsed /\ timer = NotUsed /\ txn = NotUsed
       /\ unit = NotUsed /\ wait = NotUsed /\ work = NotUsed
    \/ /\ focus = "drifting cleanup" /\ Drifting!Init
       /\ acked = NotUsed /\ again = NotUsed /\ alert = NotUsed /\ applies = NotUsed
       /\ approved = NotUsed /\ auth = NotUsed /\ bcur = NotUsed /\ brot = NotUsed
       /\ calm = NotUsed /\ cfg = NotUsed /\ claim = NotUsed /\ cloud = NotUsed
       /\ conf = NotUsed /\ cur = NotUsed /\ current = NotUsed /\ day = NotUsed
       /\ disk = NotUsed /\ expired = NotUsed /\ faults = NotUsed /\ files = NotUsed
       /\ flock = NotUsed /\ gen = NotUsed /\ held = NotUsed /\ hist = NotUsed
       /\ hook = NotUsed /\ inbox = NotUsed /\ intent = NotUsed /\ journal = NotUsed
       /\ lane = NotUsed /\ latest = NotUsed /\ live = NotUsed /\ ls = NotUsed
       /\ ltmp = NotUsed /\ mem = NotUsed /\ net = NotUsed /\ nid = NotUsed
       /\ now = NotUsed /\ observed = NotUsed /\ outcome = NotUsed /\ pend = NotUsed
       /\ posted = NotUsed /\ prevf = NotUsed /\ proc = NotUsed /\ proved = NotUsed
       /\ ptmp = NotUsed /\ push = NotUsed /\ receipts = NotUsed
       /\ received = NotUsed /\ removed = NotUsed /\ rlock = NotUsed
       /\ rotated = NotUsed /\ run = NotUsed /\ seen = NotUsed /\ sentNow = NotUsed
       /\ signed = NotUsed /\ src = NotUsed /\ srv = NotUsed /\ st = NotUsed
       /\ stamp = NotUsed /\ suc = NotUsed /\ terraform = NotUsed
       /\ tfstate = NotUsed /\ tick = NotUsed /\ timer = NotUsed /\ txn = NotUsed
       /\ unit = NotUsed /\ wait = NotUsed /\ work = NotUsed
    \/ /\ focus = "awg rotation" /\ Awg!Init
       /\ acked = NotUsed /\ alert = NotUsed /\ applies = NotUsed
       /\ approved = NotUsed /\ auth = NotUsed /\ cfg = NotUsed /\ claim = NotUsed
       /\ cloud = NotUsed /\ ctl = NotUsed /\ cur = NotUsed /\ day = NotUsed
       /\ disk = NotUsed /\ drifts = NotUsed /\ expired = NotUsed /\ fails = NotUsed
       /\ files = NotUsed /\ flock = NotUsed /\ gen = NotUsed /\ held = NotUsed
       /\ hist = NotUsed /\ inbox = NotUsed /\ journal = NotUsed /\ kills = NotUsed
       /\ latest = NotUsed /\ ltmp = NotUsed /\ manifest = NotUsed /\ mem = NotUsed
       /\ net = NotUsed /\ nid = NotUsed /\ now = NotUsed /\ observed = NotUsed
       /\ override = NotUsed /\ posted = NotUsed /\ proc = NotUsed
       /\ progress = NotUsed /\ proved = NotUsed /\ ptmp = NotUsed /\ push = NotUsed
       /\ real = NotUsed /\ receipt = NotUsed /\ receipts = NotUsed
       /\ received = NotUsed /\ removed = NotUsed /\ rlock = NotUsed
       /\ run = NotUsed /\ seen = NotUsed /\ sentNow = NotUsed /\ signed = NotUsed
       /\ snapshot = NotUsed /\ src = NotUsed /\ st = NotUsed /\ stamp = NotUsed
       /\ state = NotUsed /\ terraform = NotUsed /\ tfstate = NotUsed
       /\ tick = NotUsed /\ timer = NotUsed /\ unit = NotUsed /\ wait = NotUsed
       /\ work = NotUsed
    \/ /\ focus = "recurring evidence" /\ Evidence!Init
       /\ acked = NotUsed /\ again = NotUsed /\ alert = NotUsed /\ applies = NotUsed
       /\ approved = NotUsed /\ auth = NotUsed /\ bcur = NotUsed /\ brot = NotUsed
       /\ calm = NotUsed /\ cfg = NotUsed /\ claim = NotUsed /\ cloud = NotUsed
       /\ conf = NotUsed /\ ctl = NotUsed /\ cur = NotUsed /\ current = NotUsed
       /\ day = NotUsed /\ disk = NotUsed /\ drifts = NotUsed /\ expired = NotUsed
       /\ fails = NotUsed /\ faults = NotUsed /\ files = NotUsed /\ flock = NotUsed
       /\ gen = NotUsed /\ held = NotUsed /\ hook = NotUsed /\ intent = NotUsed
       /\ journal = NotUsed /\ lane = NotUsed /\ live = NotUsed /\ ls = NotUsed
       /\ manifest = NotUsed /\ mem = NotUsed /\ net = NotUsed /\ observed = NotUsed
       /\ outcome = NotUsed /\ override = NotUsed /\ posted = NotUsed
       /\ prevf = NotUsed /\ progress = NotUsed /\ proved = NotUsed
       /\ push = NotUsed /\ real = NotUsed /\ receipt = NotUsed
       /\ receipts = NotUsed /\ received = NotUsed /\ removed = NotUsed
       /\ rlock = NotUsed /\ rotated = NotUsed /\ run = NotUsed /\ sentNow = NotUsed
       /\ snapshot = NotUsed /\ srv = NotUsed /\ st = NotUsed /\ stamp = NotUsed
       /\ state = NotUsed /\ suc = NotUsed /\ terraform = NotUsed
       /\ tfstate = NotUsed /\ tick = NotUsed /\ txn = NotUsed /\ wait = NotUsed
       /\ work = NotUsed
    \/ /\ focus = "deadman" /\ Deadman!Init
       /\ again = NotUsed /\ alert = NotUsed /\ applies = NotUsed
       /\ approved = NotUsed /\ auth = NotUsed /\ bcur = NotUsed /\ brot = NotUsed
       /\ calm = NotUsed /\ claim = NotUsed /\ cloud = NotUsed /\ conf = NotUsed
       /\ ctl = NotUsed /\ cur = NotUsed /\ current = NotUsed /\ day = NotUsed
       /\ disk = NotUsed /\ drifts = NotUsed /\ expired = NotUsed /\ fails = NotUsed
       /\ files = NotUsed /\ flock = NotUsed /\ gen = NotUsed /\ held = NotUsed
       /\ hist = NotUsed /\ hook = NotUsed /\ inbox = NotUsed /\ journal = NotUsed
       /\ kills = NotUsed /\ lane = NotUsed /\ latest = NotUsed /\ live = NotUsed
       /\ ls = NotUsed /\ ltmp = NotUsed /\ manifest = NotUsed /\ mem = NotUsed
       /\ nid = NotUsed /\ now = NotUsed /\ observed = NotUsed /\ outcome = NotUsed
       /\ override = NotUsed /\ pend = NotUsed /\ posted = NotUsed
       /\ prevf = NotUsed /\ proc = NotUsed /\ progress = NotUsed
       /\ proved = NotUsed /\ ptmp = NotUsed /\ push = NotUsed /\ real = NotUsed
       /\ receipt = NotUsed /\ receipts = NotUsed /\ received = NotUsed
       /\ removed = NotUsed /\ rlock = NotUsed /\ rotated = NotUsed /\ run = NotUsed
       /\ signed = NotUsed /\ snapshot = NotUsed /\ src = NotUsed /\ stamp = NotUsed
       /\ state = NotUsed /\ suc = NotUsed /\ terraform = NotUsed
       /\ tfstate = NotUsed /\ timer = NotUsed /\ txn = NotUsed /\ unit = NotUsed
       /\ wait = NotUsed /\ work = NotUsed
    \/ /\ focus = "deadman pulses" /\ Pulses!Init
       /\ again = NotUsed /\ alert = NotUsed /\ applies = NotUsed
       /\ approved = NotUsed /\ auth = NotUsed /\ bcur = NotUsed /\ brot = NotUsed
       /\ calm = NotUsed /\ claim = NotUsed /\ cloud = NotUsed /\ conf = NotUsed
       /\ ctl = NotUsed /\ cur = NotUsed /\ current = NotUsed /\ day = NotUsed
       /\ disk = NotUsed /\ drifts = NotUsed /\ expired = NotUsed /\ fails = NotUsed
       /\ files = NotUsed /\ flock = NotUsed /\ gen = NotUsed /\ held = NotUsed
       /\ hist = NotUsed /\ hook = NotUsed /\ inbox = NotUsed /\ journal = NotUsed
       /\ kills = NotUsed /\ lane = NotUsed /\ latest = NotUsed /\ live = NotUsed
       /\ ls = NotUsed /\ ltmp = NotUsed /\ manifest = NotUsed /\ mem = NotUsed
       /\ nid = NotUsed /\ now = NotUsed /\ observed = NotUsed /\ outcome = NotUsed
       /\ override = NotUsed /\ pend = NotUsed /\ posted = NotUsed
       /\ prevf = NotUsed /\ proc = NotUsed /\ progress = NotUsed
       /\ proved = NotUsed /\ ptmp = NotUsed /\ push = NotUsed /\ real = NotUsed
       /\ receipt = NotUsed /\ receipts = NotUsed /\ received = NotUsed
       /\ removed = NotUsed /\ rlock = NotUsed /\ rotated = NotUsed /\ run = NotUsed
       /\ signed = NotUsed /\ snapshot = NotUsed /\ src = NotUsed /\ stamp = NotUsed
       /\ state = NotUsed /\ suc = NotUsed /\ terraform = NotUsed
       /\ tfstate = NotUsed /\ timer = NotUsed /\ txn = NotUsed /\ unit = NotUsed
       /\ wait = NotUsed /\ work = NotUsed
    \/ /\ focus = "telegram relay" /\ Relay!Init
       /\ again = NotUsed /\ applies = NotUsed /\ approved = NotUsed
       /\ bcur = NotUsed /\ brot = NotUsed /\ calm = NotUsed /\ cfg = NotUsed
       /\ claim = NotUsed /\ cloud = NotUsed /\ conf = NotUsed /\ ctl = NotUsed
       /\ cur = NotUsed /\ current = NotUsed /\ drifts = NotUsed
       /\ expired = NotUsed /\ fails = NotUsed /\ files = NotUsed /\ gen = NotUsed
       /\ held = NotUsed /\ hist = NotUsed /\ hook = NotUsed /\ inbox = NotUsed
       /\ intent = NotUsed /\ journal = NotUsed /\ kills = NotUsed /\ lane = NotUsed
       /\ latest = NotUsed /\ live = NotUsed /\ ls = NotUsed /\ ltmp = NotUsed
       /\ manifest = NotUsed /\ net = NotUsed /\ nid = NotUsed /\ now = NotUsed
       /\ observed = NotUsed /\ outcome = NotUsed /\ override = NotUsed
       /\ pend = NotUsed /\ prevf = NotUsed /\ proc = NotUsed /\ progress = NotUsed
       /\ proved = NotUsed /\ ptmp = NotUsed /\ real = NotUsed /\ receipt = NotUsed
       /\ receipts = NotUsed /\ removed = NotUsed /\ rotated = NotUsed
       /\ run = NotUsed /\ seen = NotUsed /\ sentNow = NotUsed /\ signed = NotUsed
       /\ snapshot = NotUsed /\ src = NotUsed /\ srv = NotUsed /\ st = NotUsed
       /\ state = NotUsed /\ suc = NotUsed /\ terraform = NotUsed
       /\ tfstate = NotUsed /\ tick = NotUsed /\ timer = NotUsed /\ txn = NotUsed
       /\ unit = NotUsed

VultrNext ==
    /\ focus = "vultr cleanup" /\ Vultr!Next
    /\ UNCHANGED <<focus, acked, again, alert, approved, auth, bcur, brot, calm, cfg, conf, ctl, current, day,
                     disk, drifts, fails, flock, gen, held, hist, hook, inbox, journal,
                     kills, lane, latest, live, ls, ltmp, mem, net, nid, now, observed,
                     outcome, pend, posted, prevf, proc, progress, proved, ptmp, push,
                     real, receipt, receipts, received, removed, rlock, rotated, seen,
                     sentNow, signed, snapshot, src, srv, st, stamp, state, suc, tick,
                     timer, txn, unit, wait, work>>

UpcloudNext ==
    /\ focus = "upcloud cleanup" /\ Upcloud!Next
    /\ UNCHANGED <<focus, acked, again, alert, approved, auth, bcur, brot, calm, cfg, conf, ctl, current, day,
                     disk, drifts, fails, flock, gen, held, hist, hook, inbox, journal,
                     kills, lane, latest, live, ls, ltmp, mem, net, nid, now, observed,
                     outcome, pend, posted, prevf, proc, progress, proved, ptmp, push,
                     real, receipt, receipts, received, removed, rlock, rotated, seen,
                     sentNow, signed, snapshot, src, srv, st, stamp, state, suc, tick,
                     timer, txn, unit, wait, work>>

AcceptanceNext ==
    /\ focus = "staging acceptance" /\ Acceptance!Next
    /\ UNCHANGED <<focus, acked, again, alert, applies, auth, bcur, brot, calm, cfg, claim, cloud, conf, cur,
                     current, day, disk, drifts, expired, faults, files, flock, hist,
                     hook, inbox, intent, lane, latest, live, ls, ltmp, manifest, mem,
                     net, nid, now, outcome, override, pend, posted, prevf, proc,
                     progress, ptmp, push, real, receipt, received, rlock, rotated, run,
                     seen, sentNow, signed, snapshot, src, srv, st, stamp, state, suc,
                     terraform, tfstate, tick, timer, txn, unit, wait, work>>

RetirementNext ==
    /\ focus = "observability cleanup" /\ Retirement!Next
    /\ UNCHANGED <<focus, acked, again, alert, applies, approved, auth, bcur, brot, calm, cfg, claim, cloud, conf,
                     cur, current, day, disk, expired, faults, files, flock, gen, held,
                     hist, hook, inbox, intent, journal, lane, latest, live, ls, ltmp,
                     mem, net, nid, now, observed, outcome, pend, posted, prevf, proc,
                     proved, ptmp, push, receipts, received, removed, rlock, rotated,
                     run, seen, sentNow, signed, src, srv, st, stamp, suc, terraform,
                     tfstate, tick, timer, txn, unit, wait, work>>

DriftingNext ==
    /\ focus = "drifting cleanup" /\ Drifting!Next
    /\ UNCHANGED <<focus, acked, again, alert, applies, approved, auth, bcur, brot, calm, cfg, claim, cloud, conf,
                     cur, current, day, disk, expired, faults, files, flock, gen, held,
                     hist, hook, inbox, intent, journal, lane, latest, live, ls, ltmp,
                     mem, net, nid, now, observed, outcome, pend, posted, prevf, proc,
                     proved, ptmp, push, receipts, received, removed, rlock, rotated,
                     run, seen, sentNow, signed, src, srv, st, stamp, suc, terraform,
                     tfstate, tick, timer, txn, unit, wait, work>>

AwgNext ==
    /\ focus = "awg rotation" /\ Awg!Next
    /\ UNCHANGED <<focus, acked, alert, applies, approved, auth, cfg, claim, cloud, ctl, cur, day, disk, drifts,
                     expired, fails, files, flock, gen, held, hist, inbox, journal,
                     kills, latest, ltmp, manifest, mem, net, nid, now, observed,
                     override, posted, proc, progress, proved, ptmp, push, real,
                     receipt, receipts, received, removed, rlock, run, seen, sentNow,
                     signed, snapshot, src, st, stamp, state, terraform, tfstate, tick,
                     timer, unit, wait, work>>

EvidenceNext ==
    /\ focus = "recurring evidence" /\ Evidence!Next
    /\ UNCHANGED <<focus, acked, again, alert, applies, approved, auth, bcur, brot, calm, cfg, claim, cloud, conf,
                     ctl, cur, current, day, disk, drifts, expired, fails, faults,
                     files, flock, gen, held, hook, intent, journal, lane, live, ls,
                     manifest, mem, net, observed, outcome, override, posted, prevf,
                     progress, proved, push, real, receipt, receipts, received, removed,
                     rlock, rotated, run, sentNow, snapshot, srv, st, stamp, state, suc,
                     terraform, tfstate, tick, txn, wait, work>>

DeadmanNext ==
    /\ focus = "deadman" /\ Deadman!Next
    /\ UNCHANGED <<focus, again, alert, applies, approved, auth, bcur, brot, calm, claim, cloud, conf, ctl, cur,
                     current, day, disk, drifts, expired, fails, files, flock, gen,
                     held, hist, hook, inbox, journal, kills, lane, latest, live, ls,
                     ltmp, manifest, mem, nid, now, observed, outcome, override, pend,
                     posted, prevf, proc, progress, proved, ptmp, push, real, receipt,
                     receipts, received, removed, rlock, rotated, run, signed, snapshot,
                     src, stamp, state, suc, terraform, tfstate, timer, txn, unit, wait,
                     work>>

PulsesNext ==
    /\ focus = "deadman pulses" /\ Pulses!PulseNext
    /\ UNCHANGED <<focus, again, alert, applies, approved, auth, bcur, brot, calm, claim, cloud, conf, ctl, cur,
                     current, day, disk, drifts, expired, fails, files, flock, gen,
                     held, hist, hook, inbox, journal, kills, lane, latest, live, ls,
                     ltmp, manifest, mem, nid, now, observed, outcome, override, pend,
                     posted, prevf, proc, progress, proved, ptmp, push, real, receipt,
                     receipts, received, removed, rlock, rotated, run, signed, snapshot,
                     src, stamp, state, suc, terraform, tfstate, timer, txn, unit, wait,
                     work>>

RelayNext ==
    /\ focus = "telegram relay" /\ Relay!Next
    /\ UNCHANGED <<focus, again, applies, approved, bcur, brot, calm, cfg, claim, cloud, conf, ctl, cur, current,
                     drifts, expired, fails, files, gen, held, hist, hook, inbox,
                     intent, journal, kills, lane, latest, live, ls, ltmp, manifest,
                     net, nid, now, observed, outcome, override, pend, prevf, proc,
                     progress, proved, ptmp, real, receipt, receipts, removed, rotated,
                     run, seen, sentNow, signed, snapshot, src, srv, st, state, suc,
                     terraform, tfstate, tick, timer, txn, unit>>

Next == VultrNext \/ UpcloudNext \/ AcceptanceNext \/ RetirementNext \/ DriftingNext \/
        AwgNext \/ EvidenceNext \/ DeadmanNext \/ PulsesNext \/ RelayNext

Spec == Init /\ [][Next]_vars

-----------------------------------------------------------------------------
(* Evidence states what happened. Cleanup: Terraform is launched against a *)
(* node at most once, and evidence exists only at the claimed path.        *)
(* Acceptance: every fault on the hosts belongs to the row the journal     *)
(* runs or restores next, and a completed row was carried out and          *)
(* observed. Retirement: what was deleted is on record, a receipt means    *)
(* the provider is empty, and nothing is touched before all were checked.  *)
(* AWG: a pass has a key the old client lacks, and closed rotations leave  *)
(* one key. Recurring evidence: latest.json is backed by an earlier pass,  *)
(* and nothing recorded is lost.                                           *)
EvidenceTrue ==
    /\ focus = "vultr cleanup" =>
           Vultr!TypeOK /\ Vultr!OneApply /\ Vultr!EvidenceOwned
    /\ focus = "upcloud cleanup" => Upcloud!TypeOK /\ Upcloud!OneApply
    /\ focus = "staging acceptance" =>
           Acceptance!TypeOK /\ Acceptance!FaultAccounted
           /\ Acceptance!CompletedIsProven
    /\ focus = "observability cleanup" =>
           Retirement!TypeOK /\ Retirement!TouchedIsRecorded
           /\ Retirement!AbsenceIsReal /\ Retirement!AllCheckedFirst
    /\ focus = "drifting cleanup" =>
           Drifting!TypeOK /\ Drifting!TouchedIsRecorded
           /\ Drifting!AbsenceIsReal /\ Drifting!AllCheckedFirst
    /\ focus = "awg rotation" => Awg!TypeOK /\ Awg!PassIsRotated /\ Awg!Paired
    /\ focus = "recurring evidence" =>
           Evidence!TypeOK /\ Evidence!LatestIsSecond /\ Evidence!NothingLost

(* Alerts are neither lost nor made up. Deadman: a recovery the operator   *)
(* is owed is on record, the status tells what he has, and an accepted     *)
(* pulse is refused ever after. Relay: no request passes the bot's         *)
(* deadline, a receipt shows only the edit that was acknowledged, the      *)
(* observer hears only of this job's edit, and an answered stamp stays on  *)
(* record.                                                                 *)
AlertsTrue ==
    /\ focus = "deadman" =>
           Deadman!TypeOK /\ Deadman!RecoveryOwed /\ Deadman!StatusTruthful
    /\ focus = "deadman pulses" => Pulses!TypeOK /\ Pulses!NoReplay
    /\ focus = "telegram relay" =>
           Relay!TypeOK /\ Relay!FloodRespected /\ Relay!EditHonest /\ Relay!PushProof
           /\ Relay!StampDurable

(* What a step may never do. Acceptance: a row that has a receipt is not   *)
(* started again. Deadman: an acknowledged recovery is not sent again      *)
(* before the next incident. Relay: no canary text is used twice.          *)
NothingRepeated ==
    [][ /\ focus = "staging acceptance" => Acceptance!NeverRepeated
        /\ focus = "deadman" => Deadman!RecoveryOnce
        /\ focus = "telegram relay" => Relay!SequenceFresh ]_vars

(* The two guards, the journal and the shell implement DestroyPromise      *)
(* through every kill: no deletion without a recorded start, no start      *)
(* taken back, no certificate while a resource is left.                    *)
KeepsDestroyPromise ==
    /\ focus = "vultr cleanup" => Vultr!PromiseStart
    /\ focus = "upcloud cleanup" => Upcloud!PromiseStart
    /\ [][/\ focus = "vultr cleanup" => Vultr!PromiseStep
          /\ focus = "upcloud cleanup" => Upcloud!PromiseStep]_vars

=============================================================================
