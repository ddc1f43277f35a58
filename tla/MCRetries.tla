---------- MODULE MCRetries ----------
(* What eventually happens when operators and clients repeat what failed:  *)
(* each component with a small instance of its own. The components share   *)
(* no state, so a behaviour follows one of them.                           *)
EXTENDS Integers, Sequences, FiniteSets, TLC

CONSTANTS NotUsed,   \* the value of a variable the followed component does not have
          NoValue, p1, n1, h1, h2, g1, g2, c1, c2, w1, w2, a1

VARIABLES focus,   \* the component this behaviour follows
          acked, adverse, alert, applies, approved, arch, auth, cfg, changes, claim, cloud, ctl,
          cur, current, day, deo, deployed, disk, doc, drawn, drifts, early, edits, eng,
          expired, fails, faults, files, flock, foreign, fw, gen, gens, handoffs, held,
          host, intent, issuer, job, journal, jrn, kills, late, links, litter, lock,
          login, made, main, manifest, mem, net, next, observed, out, output, override,
          pending, posted, prep, proc, progress, proof, proved, pub, push, queued, real,
          reboots, receipt, receipts, received, record, reg, release, removed, report,
          ret, rev, rlock, room, route, run, runtime, seen, sentNow, snapshot, sock,
          sops, srv, ssh, st, staged, staging, stamp, state, stops, sys, target,
          terraform, tfstate, tick, ts, tx, txLock, used, valid, vm, vmgen, wait, work,
          worker

vars == <<focus, acked, adverse, alert, applies, approved, arch, auth, cfg, changes, claim, cloud, ctl,
          cur, current, day, deo, deployed, disk, doc, drawn, drifts, early, edits, eng,
          expired, fails, faults, files, flock, foreign, fw, gen, gens, handoffs, held,
          host, intent, issuer, job, journal, jrn, kills, late, links, litter, lock,
          login, made, main, manifest, mem, net, next, observed, out, output, override,
          pending, posted, prep, proc, progress, proof, proved, pub, push, queued, real,
          reboots, receipt, receipts, received, record, reg, release, removed, report,
          ret, rev, rlock, room, route, run, runtime, seen, sentNow, snapshot, sock,
          sops, srv, ssh, st, staged, staging, stamp, state, stops, sys, target,
          terraform, tfstate, tick, ts, tx, txLock, used, valid, vm, vmgen, wait, work,
          worker>>

PlainRows == <<"fresh-metrics", "agent-wal", "staleness", "finite-silence",
    "control-service-loss", "control-host-loss", "primary-authority-loss",
    "component-removal">>

KindOf(r) ==
    CASE r = "fresh-metrics" -> "check"
      [] r = "agent-wal" -> "queue"
      [] r = "staleness" -> "producer"
      [] r = "finite-silence" -> "silence"
      [] r = "control-service-loss" -> "units"
      [] r = "control-host-loss" -> "host"
      [] r = "primary-authority-loss" -> "authority"
      [] r = "valid-candidate-activation" -> "activation"
      [] r = "control-plane-rollback" -> "rollback"
      [] r = "component-removal" -> "removal"

Plan == INSTANCE FleetMaintenance WITH
    Plans <- {p1}, Node <- {n1}, NodesOf <- (p1 :> <<n1>>), Dirs <- {1, 2}, MaxAdverse <- 1,
    None <- NoValue
Device == INSTANCE DeviceLifecycle WITH
    Hosts <- {h1, h2}, Publishers <- {h1}, Ops <- {"revoke"}, ActionOf <- [revoke |-> "revoke"],
    JournalAt <- [revoke |-> h2], Delivery <- {h1}, Native <- {}, MaxForeign <- 0, MaxStops <- 2,
    None <- NoValue
Deadman == INSTANCE DeadmanReceiver WITH
    Gens <- {g1}, MaxFuture <- 1, Overdue <- 2, Window <- 1, Reminder <- 2, CanaryEvery <- 3, MaxFaults <- 0
Silence == INSTANCE DeadmanReceiver WITH
    Gens <- {g1}, MaxFuture <- 0, Overdue <- 2, Window <- 1, Reminder <- 2, CanaryEvery <- 3, MaxFaults <- 1
Client == INSTANCE DisposableClient WITH
    MaxGens <- 2, MaxEdits <- 1, MaxFaults <- 2, Kills <- TRUE
Release == INSTANCE ReleaseActivation WITH
    Controllers <- {c1, c2}, Versions <- {1}, Pins <- {10, 11}, MaxAdverse <- 1,
    None <- NoValue
Enrollment == INSTANCE TailnetEnrollment WITH
    Controllers <- {c1}, MaxTx <- 1, MaxFaults <- 1, MaxKills <- 1, MaxReboots <- 1, Torn <- FALSE
Reboots == INSTANCE TailnetEnrollment WITH
    Controllers <- {c1}, MaxTx <- 1, MaxFaults <- 0, MaxKills <- 0, MaxReboots <- 2, Torn <- FALSE
Bundle == INSTANCE SshdBundle WITH
    Gens <- {g2}, Schema <- (g2 :> 2), MaxRuns <- 4, MaxChanges <- 1, MaxFaults <- 2,
    None <- NoValue
Installer == INSTANCE SshdBundle WITH
    Gens <- {g1, g2}, Schema <- (g1 :> 1) @@ (g2 :> 2), MaxRuns <- 4, MaxChanges <- 0, MaxFaults <- 2,
    None <- NoValue
Sentinel == INSTANCE SentinelInstall WITH
    Controllers <- {"a"}, MaxGens <- 2, MaxRev <- 1, MaxFaults <- 2
Cleanup == INSTANCE StagingCleanup WITH
    Provider <- "vultr", Paths <- {"p1", "p2"}, Outputs <- {"m1", "m2"}, Owned <- {"server", "disk"},
    MaxState <- 1, MaxFaults <- 2
Retirement == INSTANCE ObservabilityCleanup WITH
    PROVIDERS <- <<"upcloud", "hetzner">>, Controllers <- {1, 2}, MaxSeals <- 1, MaxKills <- 0,
    MaxFails <- 2, MayExpire <- FALSE, MayTear <- FALSE, MaxDrift <- 0
Relay == INSTANCE TelegramRelay WITH
    Workers <- {w1, w2}, Authorities <- {a1}, MaxSeq <- 1, MaxDay <- 0, MaxStamp <- 1, MaxFaults <- 1
Acceptance == INSTANCE StagingAcceptance WITH
    STEPS <- PlainRows, Kind <- [r \in {PlainRows[i] : i \in 1 .. Len(PlainRows)} |-> KindOf(r)],
    OBSERVED <- {"control-service-loss", "control-host-loss", "primary-authority-loss"},
    MaxKills <- 1, MaxFails <- 2

(* The constants are within the assumptions of the components.             *)
ASSUME ConstantsAssumption ==
    /\ Plan!PlansAssumption
    /\ Plan!AdverseAssumption
    /\ Device!FleetAssumption
    /\ Device!LimitsAssumption
    /\ Deadman!TimesAssumption
    /\ Silence!TimesAssumption
    /\ Release!ReleaseAssumption
    /\ Enrollment!EnrollmentAssumption
    /\ Reboots!EnrollmentAssumption
    /\ Bundle!BundleAssumption
    /\ Installer!BundleAssumption
    /\ Cleanup!CleanupAssumption
    /\ Retirement!CleanupAssumption
    /\ Acceptance!RowsAssumption

(* The first state of a behaviour picks the component and is an initial    *)
(* state of it.                                                            *)
Init ==
    \/ /\ focus = "maintenance" /\ Plan!Init
       /\ acked = NotUsed /\ alert = NotUsed /\ applies = NotUsed /\ arch = NotUsed
       /\ auth = NotUsed /\ cfg = NotUsed /\ changes = NotUsed /\ claim = NotUsed
       /\ cloud = NotUsed /\ ctl = NotUsed /\ cur = NotUsed /\ current = NotUsed
       /\ day = NotUsed /\ deo = NotUsed /\ disk = NotUsed /\ doc = NotUsed
       /\ drawn = NotUsed /\ drifts = NotUsed /\ early = NotUsed /\ edits = NotUsed
       /\ eng = NotUsed /\ expired = NotUsed /\ fails = NotUsed /\ faults = NotUsed
       /\ files = NotUsed /\ flock = NotUsed /\ foreign = NotUsed /\ fw = NotUsed
       /\ gen = NotUsed /\ gens = NotUsed /\ handoffs = NotUsed /\ held = NotUsed
       /\ host = NotUsed /\ intent = NotUsed /\ issuer = NotUsed /\ job = NotUsed
       /\ jrn = NotUsed /\ kills = NotUsed /\ late = NotUsed /\ links = NotUsed
       /\ litter = NotUsed /\ lock = NotUsed /\ login = NotUsed /\ main = NotUsed
       /\ manifest = NotUsed /\ mem = NotUsed /\ net = NotUsed /\ next = NotUsed
       /\ observed = NotUsed /\ out = NotUsed /\ output = NotUsed
       /\ override = NotUsed /\ pending = NotUsed /\ posted = NotUsed
       /\ prep = NotUsed /\ proc = NotUsed /\ progress = NotUsed /\ proof = NotUsed
       /\ proved = NotUsed /\ pub = NotUsed /\ push = NotUsed /\ queued = NotUsed
       /\ real = NotUsed /\ reboots = NotUsed /\ receipt = NotUsed
       /\ receipts = NotUsed /\ received = NotUsed /\ record = NotUsed
       /\ reg = NotUsed /\ release = NotUsed /\ removed = NotUsed
       /\ report = NotUsed /\ ret = NotUsed /\ rev = NotUsed /\ rlock = NotUsed
       /\ route = NotUsed /\ run = NotUsed /\ runtime = NotUsed /\ seen = NotUsed
       /\ sentNow = NotUsed /\ snapshot = NotUsed /\ sock = NotUsed
       /\ sops = NotUsed /\ srv = NotUsed /\ ssh = NotUsed /\ st = NotUsed
       /\ staged = NotUsed /\ staging = NotUsed /\ stamp = NotUsed
       /\ state = NotUsed /\ stops = NotUsed /\ sys = NotUsed /\ target = NotUsed
       /\ terraform = NotUsed /\ tfstate = NotUsed /\ tick = NotUsed /\ ts = NotUsed
       /\ tx = NotUsed /\ txLock = NotUsed /\ used = NotUsed /\ vm = NotUsed
       /\ vmgen = NotUsed /\ wait = NotUsed /\ work = NotUsed
    \/ /\ focus = "devices" /\ Device!Init
       /\ acked = NotUsed /\ adverse = NotUsed /\ alert = NotUsed
       /\ applies = NotUsed /\ approved = NotUsed /\ arch = NotUsed
       /\ auth = NotUsed /\ cfg = NotUsed /\ changes = NotUsed /\ claim = NotUsed
       /\ cloud = NotUsed /\ ctl = NotUsed /\ cur = NotUsed /\ current = NotUsed
       /\ day = NotUsed /\ deo = NotUsed /\ deployed = NotUsed /\ disk = NotUsed
       /\ drawn = NotUsed /\ drifts = NotUsed /\ early = NotUsed /\ edits = NotUsed
       /\ eng = NotUsed /\ fails = NotUsed /\ faults = NotUsed /\ files = NotUsed
       /\ flock = NotUsed /\ fw = NotUsed /\ gen = NotUsed /\ gens = NotUsed
       /\ handoffs = NotUsed /\ held = NotUsed /\ host = NotUsed /\ intent = NotUsed
       /\ jrn = NotUsed /\ kills = NotUsed /\ late = NotUsed /\ litter = NotUsed
       /\ lock = NotUsed /\ login = NotUsed /\ made = NotUsed /\ main = NotUsed
       /\ manifest = NotUsed /\ mem = NotUsed /\ net = NotUsed /\ next = NotUsed
       /\ observed = NotUsed /\ out = NotUsed /\ override = NotUsed
       /\ pending = NotUsed /\ posted = NotUsed /\ prep = NotUsed /\ proc = NotUsed
       /\ progress = NotUsed /\ proof = NotUsed /\ proved = NotUsed /\ pub = NotUsed
       /\ push = NotUsed /\ queued = NotUsed /\ real = NotUsed /\ reboots = NotUsed
       /\ receipt = NotUsed /\ receipts = NotUsed /\ received = NotUsed
       /\ record = NotUsed /\ reg = NotUsed /\ release = NotUsed
       /\ removed = NotUsed /\ report = NotUsed /\ ret = NotUsed /\ rev = NotUsed
       /\ rlock = NotUsed /\ room = NotUsed /\ run = NotUsed /\ seen = NotUsed
       /\ sentNow = NotUsed /\ snapshot = NotUsed /\ sock = NotUsed
       /\ sops = NotUsed /\ srv = NotUsed /\ ssh = NotUsed /\ st = NotUsed
       /\ staged = NotUsed /\ staging = NotUsed /\ stamp = NotUsed
       /\ state = NotUsed /\ sys = NotUsed /\ target = NotUsed
       /\ terraform = NotUsed /\ tfstate = NotUsed /\ tick = NotUsed /\ ts = NotUsed
       /\ tx = NotUsed /\ txLock = NotUsed /\ used = NotUsed /\ valid = NotUsed
       /\ vm = NotUsed /\ vmgen = NotUsed /\ wait = NotUsed /\ work = NotUsed
       /\ worker = NotUsed
    \/ /\ focus = "deadman" /\ Deadman!Init
       /\ adverse = NotUsed /\ alert = NotUsed /\ applies = NotUsed
       /\ approved = NotUsed /\ arch = NotUsed /\ auth = NotUsed
       /\ changes = NotUsed /\ claim = NotUsed /\ cloud = NotUsed /\ ctl = NotUsed
       /\ cur = NotUsed /\ current = NotUsed /\ day = NotUsed /\ deo = NotUsed
       /\ deployed = NotUsed /\ disk = NotUsed /\ doc = NotUsed /\ drawn = NotUsed
       /\ drifts = NotUsed /\ early = NotUsed /\ edits = NotUsed /\ eng = NotUsed
       /\ expired = NotUsed /\ fails = NotUsed /\ files = NotUsed /\ flock = NotUsed
       /\ foreign = NotUsed /\ fw = NotUsed /\ gen = NotUsed /\ gens = NotUsed
       /\ handoffs = NotUsed /\ held = NotUsed /\ host = NotUsed /\ issuer = NotUsed
       /\ job = NotUsed /\ journal = NotUsed /\ jrn = NotUsed /\ kills = NotUsed
       /\ late = NotUsed /\ links = NotUsed /\ litter = NotUsed /\ lock = NotUsed
       /\ login = NotUsed /\ made = NotUsed /\ main = NotUsed /\ manifest = NotUsed
       /\ mem = NotUsed /\ next = NotUsed /\ observed = NotUsed /\ out = NotUsed
       /\ output = NotUsed /\ override = NotUsed /\ pending = NotUsed
       /\ posted = NotUsed /\ prep = NotUsed /\ proc = NotUsed /\ progress = NotUsed
       /\ proof = NotUsed /\ proved = NotUsed /\ pub = NotUsed /\ push = NotUsed
       /\ queued = NotUsed /\ real = NotUsed /\ reboots = NotUsed
       /\ receipt = NotUsed /\ receipts = NotUsed /\ received = NotUsed
       /\ record = NotUsed /\ reg = NotUsed /\ release = NotUsed
       /\ removed = NotUsed /\ report = NotUsed /\ ret = NotUsed /\ rev = NotUsed
       /\ rlock = NotUsed /\ room = NotUsed /\ route = NotUsed /\ run = NotUsed
       /\ runtime = NotUsed /\ snapshot = NotUsed /\ sock = NotUsed
       /\ sops = NotUsed /\ ssh = NotUsed /\ staged = NotUsed /\ staging = NotUsed
       /\ stamp = NotUsed /\ state = NotUsed /\ stops = NotUsed /\ sys = NotUsed
       /\ target = NotUsed /\ terraform = NotUsed /\ tfstate = NotUsed
       /\ ts = NotUsed /\ tx = NotUsed /\ txLock = NotUsed /\ used = NotUsed
       /\ valid = NotUsed /\ vm = NotUsed /\ vmgen = NotUsed /\ wait = NotUsed
       /\ work = NotUsed /\ worker = NotUsed
    \/ /\ focus = "silent plane" /\ Silence!Init
       /\ adverse = NotUsed /\ alert = NotUsed /\ applies = NotUsed
       /\ approved = NotUsed /\ arch = NotUsed /\ auth = NotUsed
       /\ changes = NotUsed /\ claim = NotUsed /\ cloud = NotUsed /\ ctl = NotUsed
       /\ cur = NotUsed /\ current = NotUsed /\ day = NotUsed /\ deo = NotUsed
       /\ deployed = NotUsed /\ disk = NotUsed /\ doc = NotUsed /\ drawn = NotUsed
       /\ drifts = NotUsed /\ early = NotUsed /\ edits = NotUsed /\ eng = NotUsed
       /\ expired = NotUsed /\ fails = NotUsed /\ files = NotUsed /\ flock = NotUsed
       /\ foreign = NotUsed /\ fw = NotUsed /\ gen = NotUsed /\ gens = NotUsed
       /\ handoffs = NotUsed /\ held = NotUsed /\ host = NotUsed /\ issuer = NotUsed
       /\ job = NotUsed /\ journal = NotUsed /\ jrn = NotUsed /\ kills = NotUsed
       /\ late = NotUsed /\ links = NotUsed /\ litter = NotUsed /\ lock = NotUsed
       /\ login = NotUsed /\ made = NotUsed /\ main = NotUsed /\ manifest = NotUsed
       /\ mem = NotUsed /\ next = NotUsed /\ observed = NotUsed /\ out = NotUsed
       /\ output = NotUsed /\ override = NotUsed /\ pending = NotUsed
       /\ posted = NotUsed /\ prep = NotUsed /\ proc = NotUsed /\ progress = NotUsed
       /\ proof = NotUsed /\ proved = NotUsed /\ pub = NotUsed /\ push = NotUsed
       /\ queued = NotUsed /\ real = NotUsed /\ reboots = NotUsed
       /\ receipt = NotUsed /\ receipts = NotUsed /\ received = NotUsed
       /\ record = NotUsed /\ reg = NotUsed /\ release = NotUsed
       /\ removed = NotUsed /\ report = NotUsed /\ ret = NotUsed /\ rev = NotUsed
       /\ rlock = NotUsed /\ room = NotUsed /\ route = NotUsed /\ run = NotUsed
       /\ runtime = NotUsed /\ snapshot = NotUsed /\ sock = NotUsed
       /\ sops = NotUsed /\ ssh = NotUsed /\ staged = NotUsed /\ staging = NotUsed
       /\ stamp = NotUsed /\ state = NotUsed /\ stops = NotUsed /\ sys = NotUsed
       /\ target = NotUsed /\ terraform = NotUsed /\ tfstate = NotUsed
       /\ ts = NotUsed /\ tx = NotUsed /\ txLock = NotUsed /\ used = NotUsed
       /\ valid = NotUsed /\ vm = NotUsed /\ vmgen = NotUsed /\ wait = NotUsed
       /\ work = NotUsed /\ worker = NotUsed
    \/ /\ focus = "disposable client" /\ Client!Init
       /\ acked = NotUsed /\ adverse = NotUsed /\ alert = NotUsed
       /\ applies = NotUsed /\ approved = NotUsed /\ arch = NotUsed
       /\ auth = NotUsed /\ cfg = NotUsed /\ changes = NotUsed /\ claim = NotUsed
       /\ cloud = NotUsed /\ ctl = NotUsed /\ cur = NotUsed /\ current = NotUsed
       /\ day = NotUsed /\ deployed = NotUsed /\ disk = NotUsed /\ doc = NotUsed
       /\ drifts = NotUsed /\ early = NotUsed /\ eng = NotUsed /\ fails = NotUsed
       /\ files = NotUsed /\ flock = NotUsed /\ foreign = NotUsed /\ fw = NotUsed
       /\ gen = NotUsed /\ gens = NotUsed /\ handoffs = NotUsed /\ held = NotUsed
       /\ host = NotUsed /\ intent = NotUsed /\ issuer = NotUsed /\ job = NotUsed
       /\ journal = NotUsed /\ jrn = NotUsed /\ kills = NotUsed /\ late = NotUsed
       /\ links = NotUsed /\ litter = NotUsed /\ lock = NotUsed /\ login = NotUsed
       /\ made = NotUsed /\ mem = NotUsed /\ net = NotUsed /\ next = NotUsed
       /\ observed = NotUsed /\ output = NotUsed /\ override = NotUsed
       /\ pending = NotUsed /\ posted = NotUsed /\ proc = NotUsed
       /\ progress = NotUsed /\ proof = NotUsed /\ proved = NotUsed /\ pub = NotUsed
       /\ push = NotUsed /\ queued = NotUsed /\ real = NotUsed /\ reboots = NotUsed
       /\ receipt = NotUsed /\ receipts = NotUsed /\ received = NotUsed
       /\ reg = NotUsed /\ release = NotUsed /\ removed = NotUsed
       /\ report = NotUsed /\ rev = NotUsed /\ rlock = NotUsed /\ room = NotUsed
       /\ route = NotUsed /\ run = NotUsed /\ runtime = NotUsed /\ seen = NotUsed
       /\ sentNow = NotUsed /\ snapshot = NotUsed /\ sock = NotUsed /\ srv = NotUsed
       /\ ssh = NotUsed /\ st = NotUsed /\ staged = NotUsed /\ staging = NotUsed
       /\ stamp = NotUsed /\ state = NotUsed /\ stops = NotUsed /\ sys = NotUsed
       /\ terraform = NotUsed /\ tfstate = NotUsed /\ tick = NotUsed /\ ts = NotUsed
       /\ tx = NotUsed /\ txLock = NotUsed /\ used = NotUsed /\ valid = NotUsed
       /\ wait = NotUsed /\ work = NotUsed /\ worker = NotUsed
    \/ /\ focus = "release" /\ Release!Init
       /\ acked = NotUsed /\ alert = NotUsed /\ applies = NotUsed
       /\ approved = NotUsed /\ arch = NotUsed /\ auth = NotUsed /\ cfg = NotUsed
       /\ changes = NotUsed /\ claim = NotUsed /\ cloud = NotUsed /\ ctl = NotUsed
       /\ cur = NotUsed /\ current = NotUsed /\ day = NotUsed /\ deo = NotUsed
       /\ deployed = NotUsed /\ disk = NotUsed /\ doc = NotUsed /\ drawn = NotUsed
       /\ drifts = NotUsed /\ early = NotUsed /\ edits = NotUsed /\ eng = NotUsed
       /\ expired = NotUsed /\ fails = NotUsed /\ faults = NotUsed
       /\ files = NotUsed /\ flock = NotUsed /\ foreign = NotUsed /\ fw = NotUsed
       /\ gen = NotUsed /\ gens = NotUsed /\ handoffs = NotUsed /\ held = NotUsed
       /\ host = NotUsed /\ intent = NotUsed /\ issuer = NotUsed
       /\ journal = NotUsed /\ jrn = NotUsed /\ kills = NotUsed /\ late = NotUsed
       /\ litter = NotUsed /\ login = NotUsed /\ made = NotUsed /\ main = NotUsed
       /\ manifest = NotUsed /\ mem = NotUsed /\ net = NotUsed /\ next = NotUsed
       /\ observed = NotUsed /\ out = NotUsed /\ output = NotUsed
       /\ override = NotUsed /\ pending = NotUsed /\ posted = NotUsed
       /\ prep = NotUsed /\ proc = NotUsed /\ progress = NotUsed /\ proof = NotUsed
       /\ proved = NotUsed /\ pub = NotUsed /\ push = NotUsed /\ queued = NotUsed
       /\ real = NotUsed /\ reboots = NotUsed /\ receipt = NotUsed
       /\ receipts = NotUsed /\ received = NotUsed /\ record = NotUsed
       /\ reg = NotUsed /\ removed = NotUsed /\ report = NotUsed /\ ret = NotUsed
       /\ rev = NotUsed /\ rlock = NotUsed /\ room = NotUsed /\ route = NotUsed
       /\ run = NotUsed /\ runtime = NotUsed /\ seen = NotUsed /\ sentNow = NotUsed
       /\ snapshot = NotUsed /\ sock = NotUsed /\ sops = NotUsed /\ srv = NotUsed
       /\ ssh = NotUsed /\ st = NotUsed /\ staged = NotUsed /\ stamp = NotUsed
       /\ state = NotUsed /\ stops = NotUsed /\ sys = NotUsed /\ target = NotUsed
       /\ terraform = NotUsed /\ tfstate = NotUsed /\ tick = NotUsed /\ ts = NotUsed
       /\ tx = NotUsed /\ txLock = NotUsed /\ used = NotUsed /\ valid = NotUsed
       /\ vm = NotUsed /\ vmgen = NotUsed /\ wait = NotUsed /\ work = NotUsed
       /\ worker = NotUsed
    \/ /\ focus = "tailnet enrollment" /\ Enrollment!Init
       /\ acked = NotUsed /\ adverse = NotUsed /\ alert = NotUsed
       /\ applies = NotUsed /\ approved = NotUsed /\ cfg = NotUsed
       /\ changes = NotUsed /\ claim = NotUsed /\ cloud = NotUsed /\ cur = NotUsed
       /\ current = NotUsed /\ day = NotUsed /\ deo = NotUsed /\ deployed = NotUsed
       /\ disk = NotUsed /\ doc = NotUsed /\ drawn = NotUsed /\ drifts = NotUsed
       /\ edits = NotUsed /\ eng = NotUsed /\ expired = NotUsed /\ fails = NotUsed
       /\ files = NotUsed /\ flock = NotUsed /\ foreign = NotUsed /\ gen = NotUsed
       /\ gens = NotUsed /\ held = NotUsed /\ host = NotUsed /\ intent = NotUsed
       /\ issuer = NotUsed /\ journal = NotUsed /\ links = NotUsed /\ lock = NotUsed
       /\ made = NotUsed /\ main = NotUsed /\ manifest = NotUsed /\ mem = NotUsed
       /\ net = NotUsed /\ next = NotUsed /\ observed = NotUsed /\ out = NotUsed
       /\ output = NotUsed /\ override = NotUsed /\ pending = NotUsed
       /\ posted = NotUsed /\ prep = NotUsed /\ proc = NotUsed /\ progress = NotUsed
       /\ proof = NotUsed /\ proved = NotUsed /\ pub = NotUsed /\ push = NotUsed
       /\ queued = NotUsed /\ real = NotUsed /\ receipt = NotUsed
       /\ receipts = NotUsed /\ received = NotUsed /\ record = NotUsed
       /\ reg = NotUsed /\ release = NotUsed /\ removed = NotUsed
       /\ report = NotUsed /\ ret = NotUsed /\ rev = NotUsed /\ rlock = NotUsed
       /\ room = NotUsed /\ route = NotUsed /\ run = NotUsed /\ runtime = NotUsed
       /\ seen = NotUsed /\ sentNow = NotUsed /\ snapshot = NotUsed
       /\ sops = NotUsed /\ srv = NotUsed /\ st = NotUsed /\ staged = NotUsed
       /\ staging = NotUsed /\ stamp = NotUsed /\ state = NotUsed /\ stops = NotUsed
       /\ sys = NotUsed /\ target = NotUsed /\ terraform = NotUsed
       /\ tfstate = NotUsed /\ tick = NotUsed /\ tx = NotUsed /\ txLock = NotUsed
       /\ valid = NotUsed /\ vm = NotUsed /\ vmgen = NotUsed /\ wait = NotUsed
       /\ work = NotUsed /\ worker = NotUsed
    \/ /\ focus = "reboots of an enrolling node" /\ Reboots!Init
       /\ acked = NotUsed /\ adverse = NotUsed /\ alert = NotUsed
       /\ applies = NotUsed /\ approved = NotUsed /\ cfg = NotUsed
       /\ changes = NotUsed /\ claim = NotUsed /\ cloud = NotUsed /\ cur = NotUsed
       /\ current = NotUsed /\ day = NotUsed /\ deo = NotUsed /\ deployed = NotUsed
       /\ disk = NotUsed /\ doc = NotUsed /\ drawn = NotUsed /\ drifts = NotUsed
       /\ edits = NotUsed /\ eng = NotUsed /\ expired = NotUsed /\ fails = NotUsed
       /\ files = NotUsed /\ flock = NotUsed /\ foreign = NotUsed /\ gen = NotUsed
       /\ gens = NotUsed /\ held = NotUsed /\ host = NotUsed /\ intent = NotUsed
       /\ issuer = NotUsed /\ journal = NotUsed /\ links = NotUsed /\ lock = NotUsed
       /\ made = NotUsed /\ main = NotUsed /\ manifest = NotUsed /\ mem = NotUsed
       /\ net = NotUsed /\ next = NotUsed /\ observed = NotUsed /\ out = NotUsed
       /\ output = NotUsed /\ override = NotUsed /\ pending = NotUsed
       /\ posted = NotUsed /\ prep = NotUsed /\ proc = NotUsed /\ progress = NotUsed
       /\ proof = NotUsed /\ proved = NotUsed /\ pub = NotUsed /\ push = NotUsed
       /\ queued = NotUsed /\ real = NotUsed /\ receipt = NotUsed
       /\ receipts = NotUsed /\ received = NotUsed /\ record = NotUsed
       /\ reg = NotUsed /\ release = NotUsed /\ removed = NotUsed
       /\ report = NotUsed /\ ret = NotUsed /\ rev = NotUsed /\ rlock = NotUsed
       /\ room = NotUsed /\ route = NotUsed /\ run = NotUsed /\ runtime = NotUsed
       /\ seen = NotUsed /\ sentNow = NotUsed /\ snapshot = NotUsed
       /\ sops = NotUsed /\ srv = NotUsed /\ st = NotUsed /\ staged = NotUsed
       /\ staging = NotUsed /\ stamp = NotUsed /\ state = NotUsed /\ stops = NotUsed
       /\ sys = NotUsed /\ target = NotUsed /\ terraform = NotUsed
       /\ tfstate = NotUsed /\ tick = NotUsed /\ tx = NotUsed /\ txLock = NotUsed
       /\ valid = NotUsed /\ vm = NotUsed /\ vmgen = NotUsed /\ wait = NotUsed
       /\ work = NotUsed /\ worker = NotUsed
    \/ /\ focus = "sshd bundle" /\ Bundle!Init
       /\ acked = NotUsed /\ adverse = NotUsed /\ alert = NotUsed
       /\ applies = NotUsed /\ approved = NotUsed /\ arch = NotUsed
       /\ auth = NotUsed /\ cfg = NotUsed /\ claim = NotUsed /\ cloud = NotUsed
       /\ ctl = NotUsed /\ cur = NotUsed /\ day = NotUsed /\ deo = NotUsed
       /\ deployed = NotUsed /\ disk = NotUsed /\ doc = NotUsed /\ drawn = NotUsed
       /\ drifts = NotUsed /\ early = NotUsed /\ edits = NotUsed /\ eng = NotUsed
       /\ expired = NotUsed /\ fails = NotUsed /\ files = NotUsed /\ flock = NotUsed
       /\ foreign = NotUsed /\ fw = NotUsed /\ gen = NotUsed /\ handoffs = NotUsed
       /\ held = NotUsed /\ host = NotUsed /\ intent = NotUsed /\ issuer = NotUsed
       /\ job = NotUsed /\ jrn = NotUsed /\ kills = NotUsed /\ late = NotUsed
       /\ litter = NotUsed /\ lock = NotUsed /\ login = NotUsed /\ made = NotUsed
       /\ main = NotUsed /\ manifest = NotUsed /\ mem = NotUsed /\ net = NotUsed
       /\ observed = NotUsed /\ out = NotUsed /\ output = NotUsed
       /\ override = NotUsed /\ pending = NotUsed /\ posted = NotUsed
       /\ prep = NotUsed /\ progress = NotUsed /\ proved = NotUsed /\ push = NotUsed
       /\ queued = NotUsed /\ real = NotUsed /\ reboots = NotUsed
       /\ receipt = NotUsed /\ receipts = NotUsed /\ received = NotUsed
       /\ record = NotUsed /\ reg = NotUsed /\ release = NotUsed
       /\ removed = NotUsed /\ report = NotUsed /\ ret = NotUsed /\ rev = NotUsed
       /\ rlock = NotUsed /\ room = NotUsed /\ route = NotUsed /\ run = NotUsed
       /\ runtime = NotUsed /\ seen = NotUsed /\ sentNow = NotUsed
       /\ snapshot = NotUsed /\ sock = NotUsed /\ sops = NotUsed /\ srv = NotUsed
       /\ st = NotUsed /\ staging = NotUsed /\ stamp = NotUsed /\ state = NotUsed
       /\ stops = NotUsed /\ target = NotUsed /\ terraform = NotUsed
       /\ tfstate = NotUsed /\ tick = NotUsed /\ ts = NotUsed /\ used = NotUsed
       /\ valid = NotUsed /\ vm = NotUsed /\ vmgen = NotUsed /\ wait = NotUsed
       /\ work = NotUsed
    \/ /\ focus = "sshd bundle installer" /\ Installer!Init
       /\ acked = NotUsed /\ adverse = NotUsed /\ alert = NotUsed
       /\ applies = NotUsed /\ approved = NotUsed /\ arch = NotUsed
       /\ auth = NotUsed /\ cfg = NotUsed /\ claim = NotUsed /\ cloud = NotUsed
       /\ ctl = NotUsed /\ cur = NotUsed /\ day = NotUsed /\ deo = NotUsed
       /\ deployed = NotUsed /\ disk = NotUsed /\ doc = NotUsed /\ drawn = NotUsed
       /\ drifts = NotUsed /\ early = NotUsed /\ edits = NotUsed /\ eng = NotUsed
       /\ expired = NotUsed /\ fails = NotUsed /\ files = NotUsed /\ flock = NotUsed
       /\ foreign = NotUsed /\ fw = NotUsed /\ gen = NotUsed /\ handoffs = NotUsed
       /\ held = NotUsed /\ host = NotUsed /\ intent = NotUsed /\ issuer = NotUsed
       /\ job = NotUsed /\ jrn = NotUsed /\ kills = NotUsed /\ late = NotUsed
       /\ litter = NotUsed /\ lock = NotUsed /\ login = NotUsed /\ made = NotUsed
       /\ main = NotUsed /\ manifest = NotUsed /\ mem = NotUsed /\ net = NotUsed
       /\ observed = NotUsed /\ out = NotUsed /\ output = NotUsed
       /\ override = NotUsed /\ pending = NotUsed /\ posted = NotUsed
       /\ prep = NotUsed /\ progress = NotUsed /\ proved = NotUsed /\ push = NotUsed
       /\ queued = NotUsed /\ real = NotUsed /\ reboots = NotUsed
       /\ receipt = NotUsed /\ receipts = NotUsed /\ received = NotUsed
       /\ record = NotUsed /\ reg = NotUsed /\ release = NotUsed
       /\ removed = NotUsed /\ report = NotUsed /\ ret = NotUsed /\ rev = NotUsed
       /\ rlock = NotUsed /\ room = NotUsed /\ route = NotUsed /\ run = NotUsed
       /\ runtime = NotUsed /\ seen = NotUsed /\ sentNow = NotUsed
       /\ snapshot = NotUsed /\ sock = NotUsed /\ sops = NotUsed /\ srv = NotUsed
       /\ st = NotUsed /\ staging = NotUsed /\ stamp = NotUsed /\ state = NotUsed
       /\ stops = NotUsed /\ target = NotUsed /\ terraform = NotUsed
       /\ tfstate = NotUsed /\ tick = NotUsed /\ ts = NotUsed /\ used = NotUsed
       /\ valid = NotUsed /\ vm = NotUsed /\ vmgen = NotUsed /\ wait = NotUsed
       /\ work = NotUsed
    \/ /\ focus = "sentinel" /\ Sentinel!Init
       /\ acked = NotUsed /\ adverse = NotUsed /\ alert = NotUsed
       /\ applies = NotUsed /\ approved = NotUsed /\ arch = NotUsed
       /\ auth = NotUsed /\ cfg = NotUsed /\ changes = NotUsed /\ claim = NotUsed
       /\ cloud = NotUsed /\ cur = NotUsed /\ current = NotUsed /\ day = NotUsed
       /\ deo = NotUsed /\ deployed = NotUsed /\ disk = NotUsed /\ doc = NotUsed
       /\ drifts = NotUsed /\ early = NotUsed /\ edits = NotUsed
       /\ expired = NotUsed /\ fails = NotUsed /\ files = NotUsed /\ flock = NotUsed
       /\ foreign = NotUsed /\ fw = NotUsed /\ gen = NotUsed /\ gens = NotUsed
       /\ handoffs = NotUsed /\ held = NotUsed /\ intent = NotUsed
       /\ issuer = NotUsed /\ job = NotUsed /\ journal = NotUsed /\ jrn = NotUsed
       /\ kills = NotUsed /\ late = NotUsed /\ links = NotUsed /\ litter = NotUsed
       /\ lock = NotUsed /\ login = NotUsed /\ made = NotUsed /\ main = NotUsed
       /\ manifest = NotUsed /\ mem = NotUsed /\ net = NotUsed /\ next = NotUsed
       /\ observed = NotUsed /\ out = NotUsed /\ output = NotUsed
       /\ override = NotUsed /\ posted = NotUsed /\ prep = NotUsed /\ proc = NotUsed
       /\ progress = NotUsed /\ proof = NotUsed /\ proved = NotUsed /\ pub = NotUsed
       /\ push = NotUsed /\ real = NotUsed /\ reboots = NotUsed /\ receipt = NotUsed
       /\ receipts = NotUsed /\ received = NotUsed /\ record = NotUsed
       /\ release = NotUsed /\ removed = NotUsed /\ ret = NotUsed /\ rlock = NotUsed
       /\ room = NotUsed /\ route = NotUsed /\ run = NotUsed /\ runtime = NotUsed
       /\ seen = NotUsed /\ sentNow = NotUsed /\ snapshot = NotUsed
       /\ sock = NotUsed /\ sops = NotUsed /\ srv = NotUsed /\ ssh = NotUsed
       /\ st = NotUsed /\ staged = NotUsed /\ staging = NotUsed /\ stamp = NotUsed
       /\ state = NotUsed /\ stops = NotUsed /\ sys = NotUsed /\ target = NotUsed
       /\ terraform = NotUsed /\ tfstate = NotUsed /\ tick = NotUsed /\ ts = NotUsed
       /\ tx = NotUsed /\ txLock = NotUsed /\ used = NotUsed /\ valid = NotUsed
       /\ vm = NotUsed /\ vmgen = NotUsed /\ wait = NotUsed /\ work = NotUsed
       /\ worker = NotUsed
    \/ /\ focus = "staging cleanup" /\ Cleanup!Init
       /\ acked = NotUsed /\ adverse = NotUsed /\ alert = NotUsed
       /\ approved = NotUsed /\ arch = NotUsed /\ auth = NotUsed /\ cfg = NotUsed
       /\ changes = NotUsed /\ ctl = NotUsed /\ current = NotUsed /\ day = NotUsed
       /\ deo = NotUsed /\ deployed = NotUsed /\ disk = NotUsed /\ doc = NotUsed
       /\ drawn = NotUsed /\ drifts = NotUsed /\ early = NotUsed /\ edits = NotUsed
       /\ eng = NotUsed /\ fails = NotUsed /\ flock = NotUsed /\ foreign = NotUsed
       /\ fw = NotUsed /\ gen = NotUsed /\ gens = NotUsed /\ handoffs = NotUsed
       /\ held = NotUsed /\ host = NotUsed /\ issuer = NotUsed /\ job = NotUsed
       /\ journal = NotUsed /\ jrn = NotUsed /\ kills = NotUsed /\ late = NotUsed
       /\ links = NotUsed /\ litter = NotUsed /\ lock = NotUsed /\ login = NotUsed
       /\ made = NotUsed /\ main = NotUsed /\ mem = NotUsed /\ net = NotUsed
       /\ next = NotUsed /\ observed = NotUsed /\ out = NotUsed /\ output = NotUsed
       /\ pending = NotUsed /\ posted = NotUsed /\ prep = NotUsed /\ proc = NotUsed
       /\ progress = NotUsed /\ proof = NotUsed /\ proved = NotUsed /\ pub = NotUsed
       /\ push = NotUsed /\ queued = NotUsed /\ real = NotUsed /\ reboots = NotUsed
       /\ receipt = NotUsed /\ receipts = NotUsed /\ received = NotUsed
       /\ record = NotUsed /\ reg = NotUsed /\ release = NotUsed
       /\ removed = NotUsed /\ report = NotUsed /\ ret = NotUsed /\ rev = NotUsed
       /\ rlock = NotUsed /\ room = NotUsed /\ route = NotUsed /\ runtime = NotUsed
       /\ seen = NotUsed /\ sentNow = NotUsed /\ snapshot = NotUsed
       /\ sock = NotUsed /\ sops = NotUsed /\ srv = NotUsed /\ ssh = NotUsed
       /\ st = NotUsed /\ staged = NotUsed /\ staging = NotUsed /\ stamp = NotUsed
       /\ state = NotUsed /\ stops = NotUsed /\ sys = NotUsed /\ target = NotUsed
       /\ tick = NotUsed /\ ts = NotUsed /\ tx = NotUsed /\ txLock = NotUsed
       /\ used = NotUsed /\ valid = NotUsed /\ vm = NotUsed /\ vmgen = NotUsed
       /\ wait = NotUsed /\ work = NotUsed /\ worker = NotUsed
    \/ /\ focus = "observability cleanup" /\ Retirement!Init
       /\ acked = NotUsed /\ adverse = NotUsed /\ alert = NotUsed
       /\ applies = NotUsed /\ approved = NotUsed /\ arch = NotUsed
       /\ auth = NotUsed /\ cfg = NotUsed /\ changes = NotUsed /\ claim = NotUsed
       /\ cloud = NotUsed /\ cur = NotUsed /\ current = NotUsed /\ day = NotUsed
       /\ deo = NotUsed /\ deployed = NotUsed /\ disk = NotUsed /\ doc = NotUsed
       /\ drawn = NotUsed /\ early = NotUsed /\ edits = NotUsed /\ eng = NotUsed
       /\ expired = NotUsed /\ faults = NotUsed /\ files = NotUsed
       /\ flock = NotUsed /\ foreign = NotUsed /\ fw = NotUsed /\ gen = NotUsed
       /\ gens = NotUsed /\ handoffs = NotUsed /\ held = NotUsed /\ host = NotUsed
       /\ intent = NotUsed /\ issuer = NotUsed /\ job = NotUsed /\ journal = NotUsed
       /\ jrn = NotUsed /\ late = NotUsed /\ links = NotUsed /\ litter = NotUsed
       /\ lock = NotUsed /\ login = NotUsed /\ made = NotUsed /\ main = NotUsed
       /\ mem = NotUsed /\ net = NotUsed /\ next = NotUsed /\ observed = NotUsed
       /\ out = NotUsed /\ output = NotUsed /\ pending = NotUsed /\ posted = NotUsed
       /\ prep = NotUsed /\ proc = NotUsed /\ proof = NotUsed /\ proved = NotUsed
       /\ pub = NotUsed /\ push = NotUsed /\ queued = NotUsed /\ reboots = NotUsed
       /\ receipts = NotUsed /\ received = NotUsed /\ record = NotUsed
       /\ reg = NotUsed /\ release = NotUsed /\ removed = NotUsed
       /\ report = NotUsed /\ ret = NotUsed /\ rev = NotUsed /\ rlock = NotUsed
       /\ room = NotUsed /\ route = NotUsed /\ run = NotUsed /\ runtime = NotUsed
       /\ seen = NotUsed /\ sentNow = NotUsed /\ sock = NotUsed /\ sops = NotUsed
       /\ srv = NotUsed /\ ssh = NotUsed /\ st = NotUsed /\ staged = NotUsed
       /\ staging = NotUsed /\ stamp = NotUsed /\ stops = NotUsed /\ sys = NotUsed
       /\ target = NotUsed /\ terraform = NotUsed /\ tfstate = NotUsed
       /\ tick = NotUsed /\ ts = NotUsed /\ tx = NotUsed /\ txLock = NotUsed
       /\ used = NotUsed /\ valid = NotUsed /\ vm = NotUsed /\ vmgen = NotUsed
       /\ wait = NotUsed /\ work = NotUsed /\ worker = NotUsed
    \/ /\ focus = "telegram relay" /\ Relay!Init
       /\ adverse = NotUsed /\ applies = NotUsed /\ approved = NotUsed
       /\ arch = NotUsed /\ cfg = NotUsed /\ changes = NotUsed /\ claim = NotUsed
       /\ cloud = NotUsed /\ ctl = NotUsed /\ cur = NotUsed /\ current = NotUsed
       /\ deo = NotUsed /\ deployed = NotUsed /\ doc = NotUsed /\ drawn = NotUsed
       /\ drifts = NotUsed /\ early = NotUsed /\ edits = NotUsed /\ eng = NotUsed
       /\ expired = NotUsed /\ fails = NotUsed /\ files = NotUsed
       /\ foreign = NotUsed /\ fw = NotUsed /\ gen = NotUsed /\ gens = NotUsed
       /\ handoffs = NotUsed /\ held = NotUsed /\ host = NotUsed /\ intent = NotUsed
       /\ issuer = NotUsed /\ job = NotUsed /\ journal = NotUsed /\ jrn = NotUsed
       /\ kills = NotUsed /\ late = NotUsed /\ links = NotUsed /\ litter = NotUsed
       /\ lock = NotUsed /\ login = NotUsed /\ made = NotUsed /\ main = NotUsed
       /\ manifest = NotUsed /\ net = NotUsed /\ next = NotUsed
       /\ observed = NotUsed /\ out = NotUsed /\ output = NotUsed
       /\ override = NotUsed /\ pending = NotUsed /\ prep = NotUsed
       /\ proc = NotUsed /\ progress = NotUsed /\ proof = NotUsed
       /\ proved = NotUsed /\ pub = NotUsed /\ queued = NotUsed /\ real = NotUsed
       /\ reboots = NotUsed /\ receipt = NotUsed /\ receipts = NotUsed
       /\ record = NotUsed /\ reg = NotUsed /\ release = NotUsed
       /\ removed = NotUsed /\ report = NotUsed /\ ret = NotUsed /\ rev = NotUsed
       /\ room = NotUsed /\ route = NotUsed /\ run = NotUsed /\ runtime = NotUsed
       /\ seen = NotUsed /\ sentNow = NotUsed /\ snapshot = NotUsed
       /\ sock = NotUsed /\ sops = NotUsed /\ srv = NotUsed /\ ssh = NotUsed
       /\ st = NotUsed /\ staged = NotUsed /\ staging = NotUsed /\ state = NotUsed
       /\ stops = NotUsed /\ sys = NotUsed /\ target = NotUsed
       /\ terraform = NotUsed /\ tfstate = NotUsed /\ tick = NotUsed /\ ts = NotUsed
       /\ tx = NotUsed /\ txLock = NotUsed /\ used = NotUsed /\ valid = NotUsed
       /\ vm = NotUsed /\ vmgen = NotUsed /\ worker = NotUsed
    \/ /\ focus = "staging acceptance" /\ Acceptance!Init
       /\ acked = NotUsed /\ adverse = NotUsed /\ alert = NotUsed
       /\ applies = NotUsed /\ arch = NotUsed /\ auth = NotUsed /\ cfg = NotUsed
       /\ changes = NotUsed /\ claim = NotUsed /\ cloud = NotUsed /\ cur = NotUsed
       /\ current = NotUsed /\ day = NotUsed /\ deo = NotUsed /\ deployed = NotUsed
       /\ disk = NotUsed /\ doc = NotUsed /\ drawn = NotUsed /\ drifts = NotUsed
       /\ early = NotUsed /\ edits = NotUsed /\ eng = NotUsed /\ expired = NotUsed
       /\ faults = NotUsed /\ files = NotUsed /\ flock = NotUsed
       /\ foreign = NotUsed /\ fw = NotUsed /\ gens = NotUsed /\ handoffs = NotUsed
       /\ host = NotUsed /\ intent = NotUsed /\ issuer = NotUsed /\ job = NotUsed
       /\ jrn = NotUsed /\ late = NotUsed /\ links = NotUsed /\ litter = NotUsed
       /\ lock = NotUsed /\ login = NotUsed /\ made = NotUsed /\ main = NotUsed
       /\ manifest = NotUsed /\ mem = NotUsed /\ net = NotUsed /\ next = NotUsed
       /\ out = NotUsed /\ output = NotUsed /\ override = NotUsed
       /\ pending = NotUsed /\ posted = NotUsed /\ prep = NotUsed /\ proc = NotUsed
       /\ progress = NotUsed /\ proof = NotUsed /\ pub = NotUsed /\ push = NotUsed
       /\ queued = NotUsed /\ real = NotUsed /\ reboots = NotUsed
       /\ receipt = NotUsed /\ received = NotUsed /\ record = NotUsed
       /\ reg = NotUsed /\ release = NotUsed /\ report = NotUsed /\ ret = NotUsed
       /\ rev = NotUsed /\ rlock = NotUsed /\ room = NotUsed /\ route = NotUsed
       /\ run = NotUsed /\ runtime = NotUsed /\ seen = NotUsed /\ sentNow = NotUsed
       /\ snapshot = NotUsed /\ sock = NotUsed /\ sops = NotUsed /\ srv = NotUsed
       /\ ssh = NotUsed /\ st = NotUsed /\ staged = NotUsed /\ staging = NotUsed
       /\ stamp = NotUsed /\ state = NotUsed /\ stops = NotUsed /\ sys = NotUsed
       /\ target = NotUsed /\ terraform = NotUsed /\ tfstate = NotUsed
       /\ tick = NotUsed /\ ts = NotUsed /\ tx = NotUsed /\ txLock = NotUsed
       /\ used = NotUsed /\ valid = NotUsed /\ vm = NotUsed /\ vmgen = NotUsed
       /\ wait = NotUsed /\ work = NotUsed /\ worker = NotUsed

PlanNext ==
    /\ focus = "maintenance" /\ Plan!Next
    /\ UNCHANGED <<focus, acked, alert, applies, arch, auth, cfg, changes, claim, cloud, ctl, cur, current, day,
                     deo, disk, doc, drawn, drifts, early, edits, eng, expired, fails,
                     faults, files, flock, foreign, fw, gen, gens, handoffs, held, host,
                     intent, issuer, job, jrn, kills, late, links, litter, lock, login,
                     main, manifest, mem, net, next, observed, out, output, override,
                     pending, posted, prep, proc, progress, proof, proved, pub, push,
                     queued, real, reboots, receipt, receipts, received, record, reg,
                     release, removed, report, ret, rev, rlock, route, run, runtime,
                     seen, sentNow, snapshot, sock, sops, srv, ssh, st, staged, staging,
                     stamp, state, stops, sys, target, terraform, tfstate, tick, ts, tx,
                     txLock, used, vm, vmgen, wait, work>>

DeviceNext ==
    /\ focus = "devices" /\ Device!Next
    /\ UNCHANGED <<focus, acked, adverse, alert, applies, approved, arch, auth, cfg, changes, claim, cloud, ctl,
                     cur, current, day, deo, deployed, disk, drawn, drifts, early,
                     edits, eng, fails, faults, files, flock, fw, gen, gens, handoffs,
                     held, host, intent, jrn, kills, late, litter, lock, login, made,
                     main, manifest, mem, net, next, observed, out, override, pending,
                     posted, prep, proc, progress, proof, proved, pub, push, queued,
                     real, reboots, receipt, receipts, received, record, reg, release,
                     removed, report, ret, rev, rlock, room, run, seen, sentNow,
                     snapshot, sock, sops, srv, ssh, st, staged, staging, stamp, state,
                     sys, target, terraform, tfstate, tick, ts, tx, txLock, used, valid,
                     vm, vmgen, wait, work, worker>>

DeadmanNext ==
    /\ focus = "deadman" /\ Deadman!PromptNext
    /\ UNCHANGED <<focus, adverse, alert, applies, approved, arch, auth, changes, claim, cloud, ctl, cur, current,
                     day, deo, deployed, disk, doc, drawn, drifts, early, edits, eng,
                     expired, fails, files, flock, foreign, fw, gen, gens, handoffs,
                     held, host, issuer, job, journal, jrn, kills, late, links, litter,
                     lock, login, made, main, manifest, mem, next, observed, out,
                     output, override, pending, posted, prep, proc, progress, proof,
                     proved, pub, push, queued, real, reboots, receipt, receipts,
                     received, record, reg, release, removed, report, ret, rev, rlock,
                     room, route, run, runtime, snapshot, sock, sops, ssh, staged,
                     staging, stamp, state, stops, sys, target, terraform, tfstate, ts,
                     tx, txLock, used, valid, vm, vmgen, wait, work, worker>>

SilenceNext ==
    /\ focus = "silent plane" /\ Silence!Next
    /\ UNCHANGED <<focus, adverse, alert, applies, approved, arch, auth, changes, claim, cloud, ctl, cur, current,
                     day, deo, deployed, disk, doc, drawn, drifts, early, edits, eng,
                     expired, fails, files, flock, foreign, fw, gen, gens, handoffs,
                     held, host, issuer, job, journal, jrn, kills, late, links, litter,
                     lock, login, made, main, manifest, mem, next, observed, out,
                     output, override, pending, posted, prep, proc, progress, proof,
                     proved, pub, push, queued, real, reboots, receipt, receipts,
                     received, record, reg, release, removed, report, ret, rev, rlock,
                     room, route, run, runtime, snapshot, sock, sops, ssh, staged,
                     staging, stamp, state, stops, sys, target, terraform, tfstate, ts,
                     tx, txLock, used, valid, vm, vmgen, wait, work, worker>>

ClientNext ==
    /\ focus = "disposable client" /\ Client!Next
    /\ UNCHANGED <<focus, acked, adverse, alert, applies, approved, arch, auth, cfg, changes, claim, cloud, ctl,
                     cur, current, day, deployed, disk, doc, drifts, early, eng, fails,
                     files, flock, foreign, fw, gen, gens, handoffs, held, host, intent,
                     issuer, job, journal, jrn, kills, late, links, litter, lock, login,
                     made, mem, net, next, observed, output, override, pending, posted,
                     proc, progress, proof, proved, pub, push, queued, real, reboots,
                     receipt, receipts, received, reg, release, removed, report, rev,
                     rlock, room, route, run, runtime, seen, sentNow, snapshot, sock,
                     srv, ssh, st, staged, staging, stamp, state, stops, sys, terraform,
                     tfstate, tick, ts, tx, txLock, used, valid, wait, work, worker>>

ReleaseNext ==
    /\ focus = "release" /\ Release!Next
    /\ UNCHANGED <<focus, acked, alert, applies, approved, arch, auth, cfg, changes, claim, cloud, ctl, cur,
                     current, day, deo, deployed, disk, doc, drawn, drifts, early,
                     edits, eng, expired, fails, faults, files, flock, foreign, fw, gen,
                     gens, handoffs, held, host, intent, issuer, journal, jrn, kills,
                     late, litter, login, made, main, manifest, mem, net, next,
                     observed, out, output, override, pending, posted, prep, proc,
                     progress, proof, proved, pub, push, queued, real, reboots, receipt,
                     receipts, received, record, reg, removed, report, ret, rev, rlock,
                     room, route, run, runtime, seen, sentNow, snapshot, sock, sops,
                     srv, ssh, st, staged, stamp, state, stops, sys, target, terraform,
                     tfstate, tick, ts, tx, txLock, used, valid, vm, vmgen, wait, work,
                     worker>>

EnrollmentNext ==
    /\ focus = "tailnet enrollment" /\ Enrollment!Next
    /\ UNCHANGED <<focus, acked, adverse, alert, applies, approved, cfg, changes, claim, cloud, cur, current, day,
                     deo, deployed, disk, doc, drawn, drifts, edits, eng, expired,
                     fails, files, flock, foreign, gen, gens, held, host, intent,
                     issuer, journal, links, lock, made, main, manifest, mem, net, next,
                     observed, out, output, override, pending, posted, prep, proc,
                     progress, proof, proved, pub, push, queued, real, receipt,
                     receipts, received, record, reg, release, removed, report, ret,
                     rev, rlock, room, route, run, runtime, seen, sentNow, snapshot,
                     sops, srv, st, staged, staging, stamp, state, stops, sys, target,
                     terraform, tfstate, tick, tx, txLock, valid, vm, vmgen, wait, work,
                     worker>>

RebootsNext ==
    /\ focus = "reboots of an enrolling node" /\ Reboots!Next
    /\ UNCHANGED <<focus, acked, adverse, alert, applies, approved, cfg, changes, claim, cloud, cur, current, day,
                     deo, deployed, disk, doc, drawn, drifts, edits, eng, expired,
                     fails, files, flock, foreign, gen, gens, held, host, intent,
                     issuer, journal, links, lock, made, main, manifest, mem, net, next,
                     observed, out, output, override, pending, posted, prep, proc,
                     progress, proof, proved, pub, push, queued, real, receipt,
                     receipts, received, record, reg, release, removed, report, ret,
                     rev, rlock, room, route, run, runtime, seen, sentNow, snapshot,
                     sops, srv, st, staged, staging, stamp, state, stops, sys, target,
                     terraform, tfstate, tick, tx, txLock, valid, vm, vmgen, wait, work,
                     worker>>

BundleNext ==
    /\ focus = "sshd bundle" /\ Bundle!Next
    /\ UNCHANGED <<focus, acked, adverse, alert, applies, approved, arch, auth, cfg, claim, cloud, ctl, cur, day,
                     deo, deployed, disk, doc, drawn, drifts, early, edits, eng,
                     expired, fails, files, flock, foreign, fw, gen, handoffs, held,
                     host, intent, issuer, job, jrn, kills, late, litter, lock, login,
                     made, main, manifest, mem, net, observed, out, output, override,
                     pending, posted, prep, progress, proved, push, queued, real,
                     reboots, receipt, receipts, received, record, reg, release,
                     removed, report, ret, rev, rlock, room, route, run, runtime, seen,
                     sentNow, snapshot, sock, sops, srv, st, staging, stamp, state,
                     stops, target, terraform, tfstate, tick, ts, used, valid, vm,
                     vmgen, wait, work>>

InstallerNext ==
    /\ focus = "sshd bundle installer" /\ Installer!Next
    /\ UNCHANGED <<focus, acked, adverse, alert, applies, approved, arch, auth, cfg, claim, cloud, ctl, cur, day,
                     deo, deployed, disk, doc, drawn, drifts, early, edits, eng,
                     expired, fails, files, flock, foreign, fw, gen, handoffs, held,
                     host, intent, issuer, job, jrn, kills, late, litter, lock, login,
                     made, main, manifest, mem, net, observed, out, output, override,
                     pending, posted, prep, progress, proved, push, queued, real,
                     reboots, receipt, receipts, received, record, reg, release,
                     removed, report, ret, rev, rlock, room, route, run, runtime, seen,
                     sentNow, snapshot, sock, sops, srv, st, staging, stamp, state,
                     stops, target, terraform, tfstate, tick, ts, used, valid, vm,
                     vmgen, wait, work>>

SentinelNext ==
    /\ focus = "sentinel" /\ Sentinel!Installing
    /\ UNCHANGED <<focus, acked, adverse, alert, applies, approved, arch, auth, cfg, changes, claim, cloud, cur,
                     current, day, deo, deployed, disk, doc, drifts, early, edits,
                     expired, fails, files, flock, foreign, fw, gen, gens, handoffs,
                     held, intent, issuer, job, journal, jrn, kills, late, links,
                     litter, lock, login, made, main, manifest, mem, net, next,
                     observed, out, output, override, posted, prep, proc, progress,
                     proof, proved, pub, push, real, reboots, receipt, receipts,
                     received, record, release, removed, ret, rlock, room, route, run,
                     runtime, seen, sentNow, snapshot, sock, sops, srv, ssh, st, staged,
                     staging, stamp, state, stops, sys, target, terraform, tfstate,
                     tick, ts, tx, txLock, used, valid, vm, vmgen, wait, work, worker>>

CleanupNext ==
    /\ focus = "staging cleanup" /\ Cleanup!Next
    /\ UNCHANGED <<focus, acked, adverse, alert, approved, arch, auth, cfg, changes, ctl, current, day, deo,
                     deployed, disk, doc, drawn, drifts, early, edits, eng, fails,
                     flock, foreign, fw, gen, gens, handoffs, held, host, issuer, job,
                     journal, jrn, kills, late, links, litter, lock, login, made, main,
                     mem, net, next, observed, out, output, pending, posted, prep, proc,
                     progress, proof, proved, pub, push, queued, real, reboots, receipt,
                     receipts, received, record, reg, release, removed, report, ret,
                     rev, rlock, room, route, runtime, seen, sentNow, snapshot, sock,
                     sops, srv, ssh, st, staged, staging, stamp, state, stops, sys,
                     target, tick, ts, tx, txLock, used, valid, vm, vmgen, wait, work,
                     worker>>

RetirementNext ==
    /\ focus = "observability cleanup" /\ Retirement!Next
    /\ UNCHANGED <<focus, acked, adverse, alert, applies, approved, arch, auth, cfg, changes, claim, cloud, cur,
                     current, day, deo, deployed, disk, doc, drawn, early, edits, eng,
                     expired, faults, files, flock, foreign, fw, gen, gens, handoffs,
                     held, host, intent, issuer, job, journal, jrn, late, links, litter,
                     lock, login, made, main, mem, net, next, observed, out, output,
                     pending, posted, prep, proc, proof, proved, pub, push, queued,
                     reboots, receipts, received, record, reg, release, removed, report,
                     ret, rev, rlock, room, route, run, runtime, seen, sentNow, sock,
                     sops, srv, ssh, st, staged, staging, stamp, stops, sys, target,
                     terraform, tfstate, tick, ts, tx, txLock, used, valid, vm, vmgen,
                     wait, work, worker>>

RelayNext ==
    /\ focus = "telegram relay" /\ Relay!Next
    /\ UNCHANGED <<focus, adverse, applies, approved, arch, cfg, changes, claim, cloud, ctl, cur, current, deo,
                     deployed, doc, drawn, drifts, early, edits, eng, expired, fails,
                     files, foreign, fw, gen, gens, handoffs, held, host, intent,
                     issuer, job, journal, jrn, kills, late, links, litter, lock, login,
                     made, main, manifest, net, next, observed, out, output, override,
                     pending, prep, proc, progress, proof, proved, pub, queued, real,
                     reboots, receipt, receipts, record, reg, release, removed, report,
                     ret, rev, room, route, run, runtime, seen, sentNow, snapshot, sock,
                     sops, srv, ssh, st, staged, staging, state, stops, sys, target,
                     terraform, tfstate, tick, ts, tx, txLock, used, valid, vm, vmgen,
                     worker>>

AcceptanceNext ==
    /\ focus = "staging acceptance" /\ Acceptance!Next
    /\ UNCHANGED <<focus, acked, adverse, alert, applies, arch, auth, cfg, changes, claim, cloud, cur, current,
                     day, deo, deployed, disk, doc, drawn, drifts, early, edits, eng,
                     expired, faults, files, flock, foreign, fw, gens, handoffs, host,
                     intent, issuer, job, jrn, late, links, litter, lock, login, made,
                     main, manifest, mem, net, next, out, output, override, pending,
                     posted, prep, proc, progress, proof, pub, push, queued, real,
                     reboots, receipt, received, record, reg, release, report, ret, rev,
                     rlock, room, route, run, runtime, seen, sentNow, snapshot, sock,
                     sops, srv, ssh, st, staged, staging, stamp, state, stops, sys,
                     target, terraform, tfstate, tick, ts, tx, txLock, used, valid, vm,
                     vmgen, wait, work, worker>>

Next == PlanNext \/ DeviceNext \/ DeadmanNext \/ SilenceNext \/ ClientNext \/
        ReleaseNext \/ EnrollmentNext \/ RebootsNext \/ BundleNext \/ InstallerNext
        \/ SentinelNext \/ CleanupNext \/ RetirementNext \/ RelayNext \/
        AcceptanceNext

Spec == Init /\ [][Next]_vars

(* The variables of the component a behaviour follows, and an action of    *)
(* that component.                                                         *)
followed ==
    CASE focus = "maintenance" -> Plan!vars
      [] focus = "devices" -> Device!vars
      [] focus = "deadman" -> Deadman!vars
      [] focus = "silent plane" -> Silence!vars
      [] focus = "disposable client" -> Client!vars
      [] focus = "release" -> Release!vars
      [] focus = "tailnet enrollment" -> Enrollment!vars
      [] focus = "reboots of an enrolling node" -> Reboots!vars
      [] focus = "sshd bundle" -> Bundle!vars
      [] focus = "sshd bundle installer" -> Installer!vars
      [] focus = "sentinel" -> Sentinel!vars
      [] focus = "staging cleanup" -> Cleanup!vars
      [] focus = "observability cleanup" -> Retirement!vars
      [] focus = "telegram relay" -> Relay!vars
      [] focus = "staging acceptance" -> Acceptance!vars
Of(component, A) == focus = component /\ A /\ UNCHANGED focus

(* What is fair, for the component a behaviour follows (one conjunct       *)
(* serves all components: a step of another one is never enabled).         *)
(* maintenance: commands have timeouts, so a living worker moves on; the   *)
(* operator removes a foreign file he is told of, previews what has no     *)
(* review, approves what he reviewed and calls resume again.               *)
(* devices: every command of a run has a timeout; the operator resumes     *)
(* what is unfinished and restarts a stale link service.                   *)
(* deadman: systemd starts the timer job again and again and it runs to    *)
(* its end unless it is killed; time passes; a service that is tried for   *)
(* ever answers at some time.                                              *)
(* silent plane: as above.                                                 *)
(* disposable client: the operator repeats the command that applies, and a *)
(* command that started goes on.                                           *)
(* release: commands end, and flock serves its waiters in turn.            *)
(* tailnet enrollment: the timer comes every 30 seconds and requests do    *)
(* not hold the lock for ever; a running job and a running login proceed,  *)
(* and time passes.                                                        *)
(* reboots of an enrolling node: as above.                                 *)
(* sshd bundle: the timer ticks and services run; a change runs out of     *)
(* time; and an installer that failed, or a listener that stayed closed,   *)
(* is started again.                                                       *)
(* sshd bundle installer: as above.                                        *)
(* sentinel: the operator repeats the installation until it is published,  *)
(* and no probe is launched meanwhile; a process that started goes on;     *)
(* neither the unit nor the controller's poll loses the race for the lock  *)
(* for ever.                                                               *)
(* staging cleanup: a command that holds the lock goes on, and the         *)
(* operator repeats the recovery of the claimed path and the interrupted   *)
(* publication until they are through.                                     *)
(* observability cleanup: an invocation goes on, and the operator seals    *)
(* and runs again.                                                         *)
(* telegram relay: threads run and deadlines pass. Alertmanager retries    *)
(* for as long as it gets no 200, so its request is taken up, is not       *)
(* always refused because of another one, and does not fail for ever.      *)
(* staging acceptance: a running invocation goes on; the owner invokes the *)
(* controller again, renews approvals, records what was seen and revokes   *)
(* what the row needs.                                                     *)
Fairness ==
    /\ WF_followed(\/ Of("maintenance", Plan!Work(p1))
                   \/ Of("devices", Device!Run \/ Device!Refuse)
                   \/ Of("deadman", Deadman!StartTick)
                   \/ Of("silent plane", Silence!StartTick)
                   \/ Of("disposable client", Client!Continue)
                   \/ Of("release", Release!Step(c1))
                   \/ Of("tailnet enrollment", Enrollment!Recovery)
                   \/ Of("reboots of an enrolling node", Reboots!Recovery)
                   \/ Of("sshd bundle", Bundle!Tick)
                   \/ Of("sshd bundle installer", Installer!Tick)
                   \/ Of("sentinel", Sentinel!EngineStep)
                   \/ Of("staging cleanup", Cleanup!Work)
                   \/ Of("observability cleanup", Retirement!Work(1))
                   \/ Of("telegram relay", Relay!WorkerStep(w1))
                   \/ Of("staging acceptance", Acceptance!Controller))
    /\ WF_followed(\/ Of("maintenance", Plan!Withdraw(p1))
                   \/ Of("devices", Device!RouteRestart(h1))
                   \/ Of("deadman", Deadman!TickStep)
                   \/ Of("silent plane", Silence!TickStep)
                   \/ Of("disposable client", Client!FinalizeBegin)
                   \/ Of("release", Release!Step(c2))
                   \/ Of("tailnet enrollment", Enrollment!Enrolling)
                   \/ Of("reboots of an enrolling node", Reboots!Enrolling)
                   \/ Of("sshd bundle", Bundle!Booted)
                   \/ Of("sshd bundle installer", Installer!Booted)
                   \/ Of("sentinel", Sentinel!Begin("a"))
                   \/ Of("observability cleanup", Retirement!Work(2))
                   \/ Of("telegram relay", Relay!WorkerStep(w2))
                   \/ Of("staging acceptance", Acceptance!Approve))
    /\ WF_followed(\/ Of("maintenance", Plan!Approve(p1))
                   \/ Of("deadman", Deadman!Clock)
                   \/ Of("silent plane", Silence!Clock)
                   \/ Of("disposable client", Client!DeonboardBegin)
                   \/ Of("tailnet enrollment", Enrollment!LoginEnds)
                   \/ Of("reboots of an enrolling node", Reboots!LoginEnds)
                   \/ Of("sshd bundle", Bundle!StartFromConsole)
                   \/ Of("sshd bundle installer", Installer!StartFromConsole)
                   \/ Of("sentinel", Sentinel!ControllerStep("a"))
                   \/ Of("observability cleanup", Retirement!SnapshotBegin(1))
                   \/ Of("telegram relay", Relay!DeadlinePasses)
                   \/ Of("staging acceptance", Acceptance!Observe /\ receipts[journal.current] # 0))
    /\ WF_followed(\/ Of("deadman", \E delivered, reported \in BOOLEAN : Deadman!Telegram(delivered, reported))
                   \/ Of("silent plane", \E delivered, reported \in BOOLEAN : Silence!Telegram(delivered, reported))
                   \/ Of("tailnet enrollment", Enrollment!Tick)
                   \/ Of("reboots of an enrolling node", Reboots!Tick)
                   \/ Of("sshd bundle", Bundle!Select("boot"))
                   \/ Of("sshd bundle installer", Installer!Select("boot"))
                   \/ Of("observability cleanup", Retirement!SnapshotBegin(2)))
    /\ WF_followed(\/ Of("sshd bundle", Bundle!Select("timer"))
                   \/ Of("sshd bundle installer", Installer!Select("timer"))
                   \/ Of("observability cleanup", \E m \in Retirement!Manifests : Retirement!Seal(m)))
    /\ WF_followed(\/ Of("sshd bundle", Bundle!Select("change"))
                   \/ Of("sshd bundle installer", Installer!Select("change")))
    /\ WF_followed(\/ Of("sshd bundle", \E e \in BOOLEAN : Bundle!Recover("boot", e))
                   \/ Of("sshd bundle installer", \E e \in BOOLEAN : Installer!Recover("boot", e)))
    /\ WF_followed(\/ Of("sshd bundle", \E e \in BOOLEAN : Bundle!Recover("timer", e))
                   \/ Of("sshd bundle installer", \E e \in BOOLEAN : Installer!Recover("timer", e)))
    /\ WF_followed(\/ Of("sshd bundle", Bundle!Prepare \/ Bundle!Observe \/ Bundle!Decide)
                   \/ Of("sshd bundle installer", Installer!Prepare \/ Installer!Observe \/ Installer!Decide))
    /\ WF_followed(\/ Of("sshd bundle", Bundle!StartProof)
                   \/ Of("sshd bundle installer", Installer!StartProof))
    /\ WF_followed(\/ Of("sshd bundle", Bundle!Proven)
                   \/ Of("sshd bundle installer", Installer!Proven))
    /\ WF_followed(\/ Of("sshd bundle", Bundle!Acquire)
                   \/ Of("sshd bundle installer", Installer!Acquire))
    /\ WF_followed(\/ Of("sshd bundle", Bundle!Arm)
                   \/ Of("sshd bundle installer", Installer!Arm))
    /\ WF_followed(\/ Of("sshd bundle", Bundle!Publishing)
                   \/ Of("sshd bundle installer", Installer!Publishing))
    /\ SF_followed(\/ Of("maintenance", Plan!Launch(p1, "preview") /\ journal[p1].review = 0)
                   \/ Of("devices", Device!Unfinished("revoke") /\ Device!RunStart("revoke"))
                   \/ Of("deadman", tick.event = "firing" /\ Deadman!Telegram(TRUE, TRUE))
                   \/ Of("silent plane", tick.event = "firing" /\ Silence!Telegram(TRUE, TRUE))
                   \/ Of("disposable client", Client!ClientBegin)
                   \/ Of("release", Release!Lock(c1))
                   \/ Of("tailnet enrollment", Enrollment!TimerRun)
                   \/ Of("reboots of an enrolling node", Reboots!TimerRun)
                   \/ Of("sshd bundle", \E c \in {"boot", "timer"} : Bundle!Recover(c, TRUE))
                   \/ Of("sshd bundle installer", \E c \in {"boot", "timer"} : Installer!Recover(c, TRUE))
                   \/ Of("sentinel", Sentinel!Ask("a"))
                   \/ Of("staging cleanup", \E p \in {"p1", "p2"} : claim.path = p /\ Cleanup!Recover(p))
                   \/ Of("observability cleanup", \E m \in Retirement!Manifests : Retirement!RunBegin(1, m))
                   \/ Of("telegram relay", \E w \in {w1, w2} : Relay!TakeAlert(w))
                   \/ Of("staging acceptance", Acceptance!Begin))
    /\ SF_followed(\/ Of("maintenance", Plan!Launch(p1, "resume"))
                   \/ Of("deadman", tick.event = "recovery" /\ Deadman!Telegram(TRUE, TRUE))
                   \/ Of("silent plane", tick.event = "recovery" /\ Silence!Telegram(TRUE, TRUE))
                   \/ Of("disposable client", Client!ExecutorBegin)
                   \/ Of("release", Release!Lock(c2))
                   \/ Of("tailnet enrollment", Enrollment!EarlyRun)
                   \/ Of("reboots of an enrolling node", Reboots!EarlyRun)
                   \/ Of("sshd bundle", Bundle!CheckInstallation)
                   \/ Of("sshd bundle installer", Installer!CheckInstallation)
                   \/ Of("sentinel", Sentinel!GiveUp("a"))
                   \/ Of("staging cleanup", \E o \in {"m1", "m2"} : intent.out = o /\ Cleanup!Publish(o))
                   \/ Of("observability cleanup", \E m \in Retirement!Manifests : Retirement!RunBegin(2, m))
                   \/ Of("telegram relay", \E w \in {w1, w2} : work[w].req = "alert" /\ Relay!StartPost(w))
                   \/ Of("staging acceptance", Acceptance!Interrupted))
    /\ SF_followed(\/ Of("sshd bundle", Bundle!Relock /\ pub'.at = "final")
                   \/ Of("sshd bundle installer", Installer!Relock /\ pub'.at = "final")
                   \/ Of("sentinel", Sentinel!Stage("a") /\ Sentinel!Free)
                   \/ Of("telegram relay", \E w \in {w1, w2} : Relay!AlertSent(w))
                   \/ Of("staging acceptance", Acceptance!Revoke))
    /\ SF_followed(\/ Of("sshd bundle", \E g \in {g2} : journal.gen = g /\ Bundle!Publish(g))
                   \/ Of("sshd bundle installer", \E g \in {g1, g2} : journal.gen = g /\ Installer!Publish(g))
                   \/ Of("sentinel", \E g \in Sentinel!Gens : Sentinel!JobTakes(g)))

FairSpec == Spec /\ Fairness

-----------------------------------------------------------------------------
(* What was interrupted is completed by repeating it. Maintenance: a       *)
(* reviewed operation completes, unless its inputs change, it is prepared  *)
(* anew or its preview is repeated. Devices: a prepared operation          *)
(* completes. Deadman: a plane that stays silent is announced again.       *)
(* Client: a bound client whose target is gone is removed with its         *)
(* credentials, assignment, configuration and VM. Release: no refusal,     *)
(* failure or death keeps a controller out for good. Enrollment: one that  *)
(* nobody confirms is undone. Cleanup: a claim is given back or becomes a  *)
(* recorded start. Observability: the staging is removed and its receipt   *)
(* written although queries and Terraform fail. Relay: an alert arrives    *)
(* though requests are refused meanwhile. Acceptance: the sequence reaches *)
(* its terminal journal.                                                   *)
Resumes ==
    (\/ focus = "maintenance" /\ journal[p1].status \in {"running", "failed"} /\ journal[p1].review # 0
     \/ focus = "devices" /\ Device!Unfinished("revoke")
     \/ focus = "deadman"
     \/ focus = "silent plane"
     \/ focus = "disposable client" /\ target = "absent" /\ out.binding # 0
     \/ focus = "release" /\ ~Release!At(c1, "idle")
     \/ focus = "tailnet enrollment" /\ jrn.phase \in {"armed", "rolling_back", "firewall_restored"}
     \/ focus = "sshd bundle" /\ tx.status = "applying"
     \/ focus = "sentinel" /\ pending["a"].gen = 1
     \/ focus = "staging cleanup" /\ claim # Cleanup!NoClaim
     \/ focus = "observability cleanup"
     \/ focus = "telegram relay" /\ alert = "owed"
     \/ focus = "staging acceptance")
    ~> (\/ focus = "maintenance" /\ (journal[p1].status \in {"complete", "prepared", "previewed"} \/ valid[p1] = "no")
        \/ focus = "devices" /\ journal["revoke"].phase = "complete"
        \/ focus = "deadman" /\ (st.pulse < 2 \/ seen = "firing")
        \/ focus = "silent plane" /\ seen = "firing"
        \/ focus = "disposable client" /\ (deo \/ "evidence" \in out.torn) /\ vm = "none" /\ ~sops.client /\ out.entry = 0
        \/ focus = "release" /\ Release!At(c1, "idle")
        \/ focus = "tailnet enrollment" /\ jrn.phase \in {"none", "confirmed"}
        \/ focus = "sshd bundle" /\ Bundle!Terminal
        \/ focus = "sentinel" /\ reg["a"].gen = 1
        \/ focus = "staging cleanup" /\ (claim = Cleanup!NoClaim \/ Cleanup!Phase \in {"started", "absent"})
        \/ focus = "observability cleanup" /\ receipt # {}
        \/ focus = "telegram relay" /\ alert = "delivered"
        \/ focus = "staging acceptance" /\ journal.status = "ready-for-cleanup")

(* What went away for the time being comes back or goes for good.          *)
(* Maintenance: credentials left behind by a dead worker are removed if    *)
(* the operator keeps calling, even when the plan has expired. Deadman: a  *)
(* plane that is back for good is announced as recovered. Enrollment:      *)
(* after a boot ssh comes back. Cleanup: once an apply was started and     *)
(* every resource is gone, repeating the recovery ends with the            *)
(* certificate of absence.                                                 *)
ComesBack ==
    (\/ focus = "maintenance" /\ \E d \in {1, 2} : room[p1][d] \cap Plan!Owned # {}
     \/ focus = "deadman"
     \/ focus = "reboots of an enrolling node" /\ ~ssh
     \/ focus = "sshd bundle installer" /\ Installer!Pending
     \/ focus = "staging cleanup" /\ applies > 0 /\ cloud = {})
    ~> (\/ focus = "maintenance" /\ \A d \in {1, 2} : room[p1][d] \cap Plan!Owned = {}
        \/ focus = "deadman" /\ (st.pulse >= 2 \/ st.gen # cfg \/ seen # "firing")
        \/ focus = "reboots of an enrolling node" /\ ssh
        \/ focus = "sshd bundle installer" /\ ~Installer!Pending
        \/ focus = "staging cleanup" /\ Cleanup!Phase = "absent")

=============================================================================
