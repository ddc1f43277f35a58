---------- MODULE MCProgress ----------
(* What eventually happens without an operator's retries: each component   *)
(* with a small instance of its own. The components share no state, so a   *)
(* behaviour follows one of them.                                          *)
EXTENDS Integers, Sequences, FiniteSets, TLC

CONSTANTS NotUsed,   \* the value of a variable the followed component does not have
          NoValue, NoSender, Empty, Base, NewRules, OtherRules, Unloaded, v1, v2, c1, e1, b1, x1,
          x2, xr, ng

VARIABLES focus,   \* the component this behaviour follows
          accepted, adverse, adversity, after, again, alerts, archived, asked, attempted,
          awaiting, b, backup, backups, bak, bcur, before, boot, booting, boots, bres,
          brot, bs, c, calm, capture, changes, cloud, cmd, compensating, conf, content,
          cs, ctl, current, daemon, debris, desc, detached, disk, doom, edits, faults,
          fence, file, files, gens, glate, guest, hook, ids, ingroup, intent, jn, job,
          kicks, kills, lane, last, late, live, lock, log, lost, ls, made, marker, nft,
          old, op, orig, outcome, outer, pc, pend, pending, play, prep, prevf, primary,
          queue, ran, receipt, residue, revocation, roll, rollback, rolled, rotated,
          run, running, s, saved, sb, sc, secrets, sel, sets, sexit, snap, source,
          spent, sres, srv, sshd, stage, staged, startup, streak, suc, tf, tfstate,
          timer, tmp, todo, torn, tree, tx, txn, undo, unit, up, want, window, xray

vars == <<focus, accepted, adverse, adversity, after, again, alerts, archived, asked, attempted,
          awaiting, b, backup, backups, bak, bcur, before, boot, booting, boots, bres,
          brot, bs, c, calm, capture, changes, cloud, cmd, compensating, conf, content,
          cs, ctl, current, daemon, debris, desc, detached, disk, doom, edits, faults,
          fence, file, files, gens, glate, guest, hook, ids, ingroup, intent, jn, job,
          kicks, kills, lane, last, late, live, lock, log, lost, ls, made, marker, nft,
          old, op, orig, outcome, outer, pc, pend, pending, play, prep, prevf, primary,
          queue, ran, receipt, residue, revocation, roll, rollback, rolled, rotated,
          run, running, s, saved, sb, sc, secrets, sel, sets, sexit, snap, source,
          spent, sres, srv, sshd, stage, staged, startup, streak, suc, tf, tfstate,
          timer, tmp, todo, torn, tree, tx, txn, undo, unit, up, want, window, xray>>



Ssh == INSTANCE SshdTransaction WITH
    N <- 2, Content <- {v1, v2}, Callers <- {c1}, MaxGen <- 1, MaxEdits <- 0, MaxAdversity <- 1
Runtime == INSTANCE RuntimeTransaction WITH
    Paths <- {"unit", "marker"}, Deferred <- {"marker"}, Bytes <- {"b1"}, Authorities <- {"r1"},
    MaxStaged <- 1, MaxAdverse <- 1,
    None <- NoValue
Barrier == INSTANCE RevocationBarrier WITH
    MaxRevoke <- 3, Disabled <- {2}, MaxAdverse <- 3
Geodata == INSTANCE GeodataPublication WITH
    Gens <- {1, 2}, Pin <- 2, MaxFaults <- 2, Cuts <- FALSE
Guardian == INSTANCE BuildGuardian WITH
    Killable <- {"C", "S"}, MaxKills <- 2, SlowStart <- FALSE
Build == INSTANCE BuildReceipt WITH
    Outs <- 2, Srcs <- {1, 2}, MaxTx <- 4, MaxFaults <- 1, MaxChanges <- 1, Reproducible <- FALSE,
    KillEarly <- FALSE, Drifts <- TRUE
Sender == INSTANCE SenderQueue WITH
    Versions <- {v1, v2}, Entries <- {e1}, Contents <- {b1}, Faults <- {"kill", "unready"}, MaxFault <- 2,
    Gone <- NoSender, None <- NoValue
Watch == INSTANCE Watchdog WITH
    Runners <- {x1, x2}, Units <- {xr, ng}, FailThreshold <- 2, KicksMax <- 2, AlertsMax <- 1,
    Outcomes <- {{}}, MaxFails <- 2, MaxFaults <- 0
Guest == INSTANCE TailnetGuest WITH
    Fragments <- {Base, NewRules}, MaxGen <- 2, MaxFaults <- 3,
    Foreign <- OtherRules
Promotion == INSTANCE TailnetPromotion WITH
    Controllers <- {c1}, Backlog <- 2, MaxGen <- 1, MaxSlips <- 1, MaxKills <- 1, MaxDeaths <- 0, MaxCuts <- 0
FirstBoot == INSTANCE BootstrapSshd WITH
    MaxBoots <- 4, MaxFaults <- 0
Task == INSTANCE TaskLifecycle WITH
    Tasks <- {"spec"}, Required <- {"spec"}, Initial <- {"spec"}, Worked <- {"spec"},
    Blockers <- [t \in {"spec"} |-> {}], Related <- [t \in {"spec"} |-> {}],
    MaxSteps <- 1, MaxCommits <- 6, MaxKills <- 0
Awg == INSTANCE AwgRotation WITH
    MaxKeys <- 8, MaxFaults <- 1, Overlap <- FALSE, Faults <- {"lost", "server", "hook", "probe", "load"}

(* The constants are within the assumptions of the components.             *)
ASSUME ConstantsAssumption ==
    /\ Barrier!RevokeAssumption
    /\ Barrier!AdverseAssumption
    /\ Sender!SenderAssumption
    /\ Guest!GuestAssumption
    /\ Promotion!TailnetAssumption
    /\ FirstBoot!BootstrapAssumption
    /\ Task!TaskAssumption

(* The first state of a behaviour picks the component and is an initial    *)
(* state of it.                                                            *)
Init ==
    \/ /\ focus = "ssh change" /\ Ssh!Init
       /\ accepted = NotUsed /\ adverse = NotUsed /\ after = NotUsed
       /\ again = NotUsed /\ alerts = NotUsed /\ asked = NotUsed
       /\ attempted = NotUsed /\ b = NotUsed /\ backup = NotUsed
       /\ backups = NotUsed /\ bak = NotUsed /\ bcur = NotUsed /\ before = NotUsed
       /\ booting = NotUsed /\ boots = NotUsed /\ bres = NotUsed /\ brot = NotUsed
       /\ bs = NotUsed /\ c = NotUsed /\ calm = NotUsed /\ capture = NotUsed
       /\ changes = NotUsed /\ cloud = NotUsed /\ cmd = NotUsed
       /\ compensating = NotUsed /\ conf = NotUsed /\ content = NotUsed
       /\ cs = NotUsed /\ ctl = NotUsed /\ current = NotUsed /\ daemon = NotUsed
       /\ debris = NotUsed /\ desc = NotUsed /\ detached = NotUsed /\ doom = NotUsed
       /\ faults = NotUsed /\ fence = NotUsed /\ file = NotUsed /\ files = NotUsed
       /\ gens = NotUsed /\ glate = NotUsed /\ guest = NotUsed /\ hook = NotUsed
       /\ ids = NotUsed /\ ingroup = NotUsed /\ intent = NotUsed /\ jn = NotUsed
       /\ kicks = NotUsed /\ kills = NotUsed /\ lane = NotUsed /\ last = NotUsed
       /\ live = NotUsed /\ lock = NotUsed /\ log = NotUsed /\ lost = NotUsed
       /\ ls = NotUsed /\ made = NotUsed /\ nft = NotUsed /\ old = NotUsed
       /\ op = NotUsed /\ orig = NotUsed /\ outcome = NotUsed /\ outer = NotUsed
       /\ pc = NotUsed /\ pend = NotUsed /\ pending = NotUsed /\ play = NotUsed
       /\ prep = NotUsed /\ prevf = NotUsed /\ primary = NotUsed /\ queue = NotUsed
       /\ ran = NotUsed /\ receipt = NotUsed /\ residue = NotUsed
       /\ revocation = NotUsed /\ roll = NotUsed /\ rollback = NotUsed
       /\ rolled = NotUsed /\ rotated = NotUsed /\ run = NotUsed /\ s = NotUsed
       /\ saved = NotUsed /\ sb = NotUsed /\ sc = NotUsed /\ secrets = NotUsed
       /\ sel = NotUsed /\ sets = NotUsed /\ sexit = NotUsed /\ snap = NotUsed
       /\ source = NotUsed /\ spent = NotUsed /\ sres = NotUsed /\ srv = NotUsed
       /\ stage = NotUsed /\ staged = NotUsed /\ startup = NotUsed
       /\ streak = NotUsed /\ suc = NotUsed /\ tf = NotUsed /\ tfstate = NotUsed
       /\ tmp = NotUsed /\ todo = NotUsed /\ torn = NotUsed /\ tree = NotUsed
       /\ tx = NotUsed /\ undo = NotUsed /\ unit = NotUsed /\ up = NotUsed
       /\ want = NotUsed /\ xray = NotUsed
    \/ /\ focus = "runtime" /\ Runtime!Init
       /\ adversity = NotUsed /\ again = NotUsed /\ alerts = NotUsed
       /\ archived = NotUsed /\ asked = NotUsed /\ attempted = NotUsed
       /\ awaiting = NotUsed /\ b = NotUsed /\ backup = NotUsed /\ bak = NotUsed
       /\ bcur = NotUsed /\ boot = NotUsed /\ booting = NotUsed /\ boots = NotUsed
       /\ bres = NotUsed /\ brot = NotUsed /\ bs = NotUsed /\ c = NotUsed
       /\ calm = NotUsed /\ capture = NotUsed /\ changes = NotUsed
       /\ cloud = NotUsed /\ cmd = NotUsed /\ conf = NotUsed /\ cs = NotUsed
       /\ ctl = NotUsed /\ current = NotUsed /\ daemon = NotUsed /\ debris = NotUsed
       /\ desc = NotUsed /\ detached = NotUsed /\ disk = NotUsed /\ doom = NotUsed
       /\ edits = NotUsed /\ faults = NotUsed /\ fence = NotUsed /\ file = NotUsed
       /\ files = NotUsed /\ gens = NotUsed /\ glate = NotUsed /\ guest = NotUsed
       /\ hook = NotUsed /\ ids = NotUsed /\ ingroup = NotUsed /\ intent = NotUsed
       /\ jn = NotUsed /\ kicks = NotUsed /\ kills = NotUsed /\ lane = NotUsed
       /\ late = NotUsed /\ lock = NotUsed /\ log = NotUsed /\ lost = NotUsed
       /\ ls = NotUsed /\ made = NotUsed /\ marker = NotUsed /\ nft = NotUsed
       /\ old = NotUsed /\ op = NotUsed /\ orig = NotUsed /\ outcome = NotUsed
       /\ pc = NotUsed /\ pend = NotUsed /\ prevf = NotUsed /\ primary = NotUsed
       /\ queue = NotUsed /\ ran = NotUsed /\ receipt = NotUsed /\ residue = NotUsed
       /\ roll = NotUsed /\ rolled = NotUsed /\ rotated = NotUsed /\ run = NotUsed
       /\ s = NotUsed /\ saved = NotUsed /\ sb = NotUsed /\ sc = NotUsed
       /\ secrets = NotUsed /\ sel = NotUsed /\ sets = NotUsed /\ sexit = NotUsed
       /\ snap = NotUsed /\ source = NotUsed /\ spent = NotUsed /\ sres = NotUsed
       /\ srv = NotUsed /\ sshd = NotUsed /\ stage = NotUsed /\ startup = NotUsed
       /\ streak = NotUsed /\ suc = NotUsed /\ tf = NotUsed /\ tfstate = NotUsed
       /\ timer = NotUsed /\ tmp = NotUsed /\ todo = NotUsed /\ torn = NotUsed
       /\ tree = NotUsed /\ tx = NotUsed /\ txn = NotUsed /\ up = NotUsed
       /\ want = NotUsed /\ window = NotUsed /\ xray = NotUsed
    \/ /\ focus = "revocation barrier" /\ Barrier!Init
       /\ accepted = NotUsed /\ adversity = NotUsed /\ after = NotUsed
       /\ again = NotUsed /\ alerts = NotUsed /\ archived = NotUsed
       /\ asked = NotUsed /\ attempted = NotUsed /\ awaiting = NotUsed
       /\ b = NotUsed /\ backup = NotUsed /\ backups = NotUsed /\ bak = NotUsed
       /\ bcur = NotUsed /\ before = NotUsed /\ boot = NotUsed /\ booting = NotUsed
       /\ boots = NotUsed /\ bres = NotUsed /\ brot = NotUsed /\ bs = NotUsed
       /\ c = NotUsed /\ calm = NotUsed /\ capture = NotUsed /\ changes = NotUsed
       /\ cloud = NotUsed /\ cmd = NotUsed /\ compensating = NotUsed
       /\ conf = NotUsed /\ content = NotUsed /\ cs = NotUsed /\ ctl = NotUsed
       /\ current = NotUsed /\ daemon = NotUsed /\ debris = NotUsed
       /\ desc = NotUsed /\ detached = NotUsed /\ disk = NotUsed /\ doom = NotUsed
       /\ edits = NotUsed /\ faults = NotUsed /\ files = NotUsed /\ gens = NotUsed
       /\ glate = NotUsed /\ guest = NotUsed /\ hook = NotUsed /\ ids = NotUsed
       /\ ingroup = NotUsed /\ intent = NotUsed /\ jn = NotUsed /\ kicks = NotUsed
       /\ kills = NotUsed /\ lane = NotUsed /\ last = NotUsed /\ late = NotUsed
       /\ live = NotUsed /\ lock = NotUsed /\ log = NotUsed /\ lost = NotUsed
       /\ ls = NotUsed /\ made = NotUsed /\ marker = NotUsed /\ nft = NotUsed
       /\ old = NotUsed /\ op = NotUsed /\ orig = NotUsed /\ outcome = NotUsed
       /\ outer = NotUsed /\ pc = NotUsed /\ pend = NotUsed /\ prep = NotUsed
       /\ prevf = NotUsed /\ primary = NotUsed /\ queue = NotUsed /\ ran = NotUsed
       /\ receipt = NotUsed /\ residue = NotUsed /\ revocation = NotUsed
       /\ roll = NotUsed /\ rollback = NotUsed /\ rolled = NotUsed
       /\ rotated = NotUsed /\ run = NotUsed /\ running = NotUsed /\ s = NotUsed
       /\ saved = NotUsed /\ sb = NotUsed /\ sc = NotUsed /\ sel = NotUsed
       /\ sets = NotUsed /\ sexit = NotUsed /\ snap = NotUsed /\ spent = NotUsed
       /\ sres = NotUsed /\ srv = NotUsed /\ sshd = NotUsed /\ stage = NotUsed
       /\ staged = NotUsed /\ startup = NotUsed /\ streak = NotUsed /\ suc = NotUsed
       /\ tf = NotUsed /\ tfstate = NotUsed /\ timer = NotUsed /\ tmp = NotUsed
       /\ todo = NotUsed /\ torn = NotUsed /\ tree = NotUsed /\ tx = NotUsed
       /\ txn = NotUsed /\ undo = NotUsed /\ up = NotUsed /\ want = NotUsed
       /\ window = NotUsed /\ xray = NotUsed
    \/ /\ focus = "geodata" /\ Geodata!Init
       /\ accepted = NotUsed /\ adverse = NotUsed /\ adversity = NotUsed
       /\ after = NotUsed /\ again = NotUsed /\ alerts = NotUsed
       /\ archived = NotUsed /\ asked = NotUsed /\ attempted = NotUsed
       /\ awaiting = NotUsed /\ b = NotUsed /\ backup = NotUsed /\ backups = NotUsed
       /\ bak = NotUsed /\ bcur = NotUsed /\ before = NotUsed /\ boot = NotUsed
       /\ booting = NotUsed /\ boots = NotUsed /\ bres = NotUsed /\ brot = NotUsed
       /\ bs = NotUsed /\ c = NotUsed /\ calm = NotUsed /\ capture = NotUsed
       /\ changes = NotUsed /\ cloud = NotUsed /\ cmd = NotUsed
       /\ compensating = NotUsed /\ conf = NotUsed /\ content = NotUsed
       /\ cs = NotUsed /\ ctl = NotUsed /\ current = NotUsed /\ daemon = NotUsed
       /\ debris = NotUsed /\ desc = NotUsed /\ detached = NotUsed /\ disk = NotUsed
       /\ doom = NotUsed /\ edits = NotUsed /\ fence = NotUsed /\ file = NotUsed
       /\ gens = NotUsed /\ glate = NotUsed /\ guest = NotUsed /\ hook = NotUsed
       /\ ids = NotUsed /\ ingroup = NotUsed /\ intent = NotUsed /\ jn = NotUsed
       /\ job = NotUsed /\ kicks = NotUsed /\ kills = NotUsed /\ lane = NotUsed
       /\ last = NotUsed /\ late = NotUsed /\ live = NotUsed /\ lock = NotUsed
       /\ log = NotUsed /\ lost = NotUsed /\ ls = NotUsed /\ made = NotUsed
       /\ marker = NotUsed /\ nft = NotUsed /\ old = NotUsed /\ op = NotUsed
       /\ orig = NotUsed /\ outcome = NotUsed /\ outer = NotUsed /\ pc = NotUsed
       /\ pending = NotUsed /\ play = NotUsed /\ prep = NotUsed /\ prevf = NotUsed
       /\ primary = NotUsed /\ queue = NotUsed /\ ran = NotUsed /\ residue = NotUsed
       /\ revocation = NotUsed /\ roll = NotUsed /\ rollback = NotUsed
       /\ rolled = NotUsed /\ rotated = NotUsed /\ running = NotUsed /\ s = NotUsed
       /\ saved = NotUsed /\ sb = NotUsed /\ sc = NotUsed /\ secrets = NotUsed
       /\ sel = NotUsed /\ sexit = NotUsed /\ snap = NotUsed /\ source = NotUsed
       /\ spent = NotUsed /\ sres = NotUsed /\ srv = NotUsed /\ sshd = NotUsed
       /\ stage = NotUsed /\ staged = NotUsed /\ startup = NotUsed
       /\ streak = NotUsed /\ suc = NotUsed /\ tf = NotUsed /\ tfstate = NotUsed
       /\ timer = NotUsed /\ tmp = NotUsed /\ todo = NotUsed /\ torn = NotUsed
       /\ tree = NotUsed /\ tx = NotUsed /\ txn = NotUsed /\ undo = NotUsed
       /\ unit = NotUsed /\ up = NotUsed /\ want = NotUsed /\ window = NotUsed
    \/ /\ focus = "build guardian" /\ Guardian!Init
       /\ accepted = NotUsed /\ adverse = NotUsed /\ adversity = NotUsed
       /\ after = NotUsed /\ again = NotUsed /\ alerts = NotUsed
       /\ archived = NotUsed /\ attempted = NotUsed /\ awaiting = NotUsed
       /\ backup = NotUsed /\ backups = NotUsed /\ bak = NotUsed /\ bcur = NotUsed
       /\ before = NotUsed /\ boot = NotUsed /\ booting = NotUsed /\ boots = NotUsed
       /\ brot = NotUsed /\ calm = NotUsed /\ capture = NotUsed /\ changes = NotUsed
       /\ cloud = NotUsed /\ compensating = NotUsed /\ conf = NotUsed
       /\ content = NotUsed /\ ctl = NotUsed /\ current = NotUsed
       /\ daemon = NotUsed /\ debris = NotUsed /\ disk = NotUsed /\ edits = NotUsed
       /\ faults = NotUsed /\ fence = NotUsed /\ file = NotUsed /\ files = NotUsed
       /\ gens = NotUsed /\ glate = NotUsed /\ guest = NotUsed /\ hook = NotUsed
       /\ ids = NotUsed /\ intent = NotUsed /\ jn = NotUsed /\ job = NotUsed
       /\ kicks = NotUsed /\ lane = NotUsed /\ last = NotUsed /\ late = NotUsed
       /\ live = NotUsed /\ lock = NotUsed /\ log = NotUsed /\ lost = NotUsed
       /\ ls = NotUsed /\ made = NotUsed /\ marker = NotUsed /\ nft = NotUsed
       /\ old = NotUsed /\ op = NotUsed /\ orig = NotUsed /\ outcome = NotUsed
       /\ outer = NotUsed /\ pc = NotUsed /\ pend = NotUsed /\ pending = NotUsed
       /\ play = NotUsed /\ prep = NotUsed /\ prevf = NotUsed /\ queue = NotUsed
       /\ ran = NotUsed /\ receipt = NotUsed /\ residue = NotUsed
       /\ revocation = NotUsed /\ roll = NotUsed /\ rollback = NotUsed
       /\ rolled = NotUsed /\ rotated = NotUsed /\ run = NotUsed
       /\ running = NotUsed /\ saved = NotUsed /\ secrets = NotUsed /\ sel = NotUsed
       /\ sets = NotUsed /\ snap = NotUsed /\ source = NotUsed /\ spent = NotUsed
       /\ srv = NotUsed /\ sshd = NotUsed /\ stage = NotUsed /\ staged = NotUsed
       /\ startup = NotUsed /\ streak = NotUsed /\ suc = NotUsed /\ tf = NotUsed
       /\ tfstate = NotUsed /\ timer = NotUsed /\ tmp = NotUsed /\ todo = NotUsed
       /\ torn = NotUsed /\ tree = NotUsed /\ tx = NotUsed /\ txn = NotUsed
       /\ undo = NotUsed /\ unit = NotUsed /\ up = NotUsed /\ want = NotUsed
       /\ window = NotUsed /\ xray = NotUsed
    \/ /\ focus = "build receipt" /\ Build!Init
       /\ accepted = NotUsed /\ adverse = NotUsed /\ adversity = NotUsed
       /\ after = NotUsed /\ again = NotUsed /\ alerts = NotUsed
       /\ archived = NotUsed /\ asked = NotUsed /\ attempted = NotUsed
       /\ awaiting = NotUsed /\ b = NotUsed /\ backup = NotUsed /\ backups = NotUsed
       /\ bcur = NotUsed /\ before = NotUsed /\ boot = NotUsed /\ booting = NotUsed
       /\ boots = NotUsed /\ bres = NotUsed /\ brot = NotUsed /\ bs = NotUsed
       /\ c = NotUsed /\ calm = NotUsed /\ capture = NotUsed /\ cloud = NotUsed
       /\ cmd = NotUsed /\ compensating = NotUsed /\ conf = NotUsed
       /\ content = NotUsed /\ cs = NotUsed /\ ctl = NotUsed /\ current = NotUsed
       /\ daemon = NotUsed /\ debris = NotUsed /\ desc = NotUsed
       /\ detached = NotUsed /\ disk = NotUsed /\ doom = NotUsed /\ edits = NotUsed
       /\ fence = NotUsed /\ file = NotUsed /\ files = NotUsed /\ gens = NotUsed
       /\ glate = NotUsed /\ guest = NotUsed /\ hook = NotUsed /\ ingroup = NotUsed
       /\ intent = NotUsed /\ job = NotUsed /\ kicks = NotUsed /\ kills = NotUsed
       /\ lane = NotUsed /\ last = NotUsed /\ late = NotUsed /\ lock = NotUsed
       /\ log = NotUsed /\ ls = NotUsed /\ marker = NotUsed /\ nft = NotUsed
       /\ old = NotUsed /\ op = NotUsed /\ orig = NotUsed /\ outcome = NotUsed
       /\ outer = NotUsed /\ pc = NotUsed /\ pend = NotUsed /\ pending = NotUsed
       /\ play = NotUsed /\ prep = NotUsed /\ prevf = NotUsed /\ primary = NotUsed
       /\ queue = NotUsed /\ ran = NotUsed /\ residue = NotUsed
       /\ revocation = NotUsed /\ rollback = NotUsed /\ rolled = NotUsed
       /\ rotated = NotUsed /\ running = NotUsed /\ s = NotUsed /\ saved = NotUsed
       /\ sb = NotUsed /\ sc = NotUsed /\ secrets = NotUsed /\ sel = NotUsed
       /\ sets = NotUsed /\ sexit = NotUsed /\ snap = NotUsed /\ source = NotUsed
       /\ spent = NotUsed /\ sres = NotUsed /\ srv = NotUsed /\ sshd = NotUsed
       /\ stage = NotUsed /\ staged = NotUsed /\ startup = NotUsed
       /\ streak = NotUsed /\ suc = NotUsed /\ tf = NotUsed /\ tfstate = NotUsed
       /\ timer = NotUsed /\ todo = NotUsed /\ torn = NotUsed /\ tree = NotUsed
       /\ txn = NotUsed /\ undo = NotUsed /\ unit = NotUsed /\ up = NotUsed
       /\ window = NotUsed /\ xray = NotUsed
    \/ /\ focus = "sender" /\ Sender!Init
       /\ adverse = NotUsed /\ adversity = NotUsed /\ after = NotUsed
       /\ again = NotUsed /\ alerts = NotUsed /\ archived = NotUsed
       /\ asked = NotUsed /\ attempted = NotUsed /\ awaiting = NotUsed
       /\ b = NotUsed /\ backups = NotUsed /\ bak = NotUsed /\ bcur = NotUsed
       /\ before = NotUsed /\ boot = NotUsed /\ booting = NotUsed /\ boots = NotUsed
       /\ bres = NotUsed /\ brot = NotUsed /\ bs = NotUsed /\ c = NotUsed
       /\ calm = NotUsed /\ changes = NotUsed /\ cloud = NotUsed /\ cmd = NotUsed
       /\ compensating = NotUsed /\ conf = NotUsed /\ content = NotUsed
       /\ cs = NotUsed /\ ctl = NotUsed /\ current = NotUsed /\ daemon = NotUsed
       /\ debris = NotUsed /\ desc = NotUsed /\ detached = NotUsed /\ disk = NotUsed
       /\ doom = NotUsed /\ edits = NotUsed /\ fence = NotUsed /\ file = NotUsed
       /\ files = NotUsed /\ gens = NotUsed /\ glate = NotUsed /\ guest = NotUsed
       /\ hook = NotUsed /\ ids = NotUsed /\ ingroup = NotUsed /\ intent = NotUsed
       /\ jn = NotUsed /\ job = NotUsed /\ kicks = NotUsed /\ kills = NotUsed
       /\ lane = NotUsed /\ last = NotUsed /\ late = NotUsed /\ live = NotUsed
       /\ lock = NotUsed /\ log = NotUsed /\ lost = NotUsed /\ ls = NotUsed
       /\ made = NotUsed /\ marker = NotUsed /\ nft = NotUsed /\ old = NotUsed
       /\ op = NotUsed /\ outcome = NotUsed /\ outer = NotUsed /\ pc = NotUsed
       /\ pend = NotUsed /\ play = NotUsed /\ prep = NotUsed /\ prevf = NotUsed
       /\ primary = NotUsed /\ ran = NotUsed /\ receipt = NotUsed
       /\ residue = NotUsed /\ revocation = NotUsed /\ roll = NotUsed
       /\ rollback = NotUsed /\ rotated = NotUsed /\ run = NotUsed
       /\ running = NotUsed /\ s = NotUsed /\ sb = NotUsed /\ sc = NotUsed
       /\ secrets = NotUsed /\ sets = NotUsed /\ sexit = NotUsed /\ snap = NotUsed
       /\ source = NotUsed /\ spent = NotUsed /\ sres = NotUsed /\ srv = NotUsed
       /\ sshd = NotUsed /\ staged = NotUsed /\ streak = NotUsed /\ suc = NotUsed
       /\ tf = NotUsed /\ tfstate = NotUsed /\ timer = NotUsed /\ tmp = NotUsed
       /\ torn = NotUsed /\ tree = NotUsed /\ tx = NotUsed /\ txn = NotUsed
       /\ undo = NotUsed /\ up = NotUsed /\ window = NotUsed /\ xray = NotUsed
    \/ /\ focus = "watchdog" /\ Watch!Init
       /\ accepted = NotUsed /\ adverse = NotUsed /\ adversity = NotUsed
       /\ after = NotUsed /\ again = NotUsed /\ archived = NotUsed
       /\ asked = NotUsed /\ attempted = NotUsed /\ awaiting = NotUsed
       /\ b = NotUsed /\ backup = NotUsed /\ backups = NotUsed /\ bak = NotUsed
       /\ bcur = NotUsed /\ before = NotUsed /\ boot = NotUsed /\ booting = NotUsed
       /\ boots = NotUsed /\ bres = NotUsed /\ brot = NotUsed /\ bs = NotUsed
       /\ c = NotUsed /\ calm = NotUsed /\ capture = NotUsed /\ changes = NotUsed
       /\ cloud = NotUsed /\ cmd = NotUsed /\ compensating = NotUsed
       /\ conf = NotUsed /\ content = NotUsed /\ cs = NotUsed /\ ctl = NotUsed
       /\ current = NotUsed /\ daemon = NotUsed /\ debris = NotUsed
       /\ desc = NotUsed /\ detached = NotUsed /\ doom = NotUsed /\ edits = NotUsed
       /\ fence = NotUsed /\ file = NotUsed /\ files = NotUsed /\ gens = NotUsed
       /\ glate = NotUsed /\ guest = NotUsed /\ hook = NotUsed /\ ids = NotUsed
       /\ ingroup = NotUsed /\ intent = NotUsed /\ jn = NotUsed /\ job = NotUsed
       /\ kills = NotUsed /\ lane = NotUsed /\ last = NotUsed /\ late = NotUsed
       /\ live = NotUsed /\ log = NotUsed /\ lost = NotUsed /\ ls = NotUsed
       /\ made = NotUsed /\ marker = NotUsed /\ nft = NotUsed /\ op = NotUsed
       /\ orig = NotUsed /\ outcome = NotUsed /\ outer = NotUsed /\ pc = NotUsed
       /\ pend = NotUsed /\ pending = NotUsed /\ play = NotUsed /\ prep = NotUsed
       /\ prevf = NotUsed /\ primary = NotUsed /\ queue = NotUsed /\ ran = NotUsed
       /\ receipt = NotUsed /\ residue = NotUsed /\ revocation = NotUsed
       /\ roll = NotUsed /\ rollback = NotUsed /\ rolled = NotUsed
       /\ rotated = NotUsed /\ running = NotUsed /\ s = NotUsed /\ saved = NotUsed
       /\ sb = NotUsed /\ sc = NotUsed /\ secrets = NotUsed /\ sel = NotUsed
       /\ sets = NotUsed /\ sexit = NotUsed /\ snap = NotUsed /\ source = NotUsed
       /\ spent = NotUsed /\ sres = NotUsed /\ srv = NotUsed /\ sshd = NotUsed
       /\ stage = NotUsed /\ staged = NotUsed /\ startup = NotUsed /\ suc = NotUsed
       /\ tf = NotUsed /\ tfstate = NotUsed /\ timer = NotUsed /\ tmp = NotUsed
       /\ todo = NotUsed /\ torn = NotUsed /\ tree = NotUsed /\ tx = NotUsed
       /\ txn = NotUsed /\ undo = NotUsed /\ unit = NotUsed /\ want = NotUsed
       /\ window = NotUsed /\ xray = NotUsed
    \/ /\ focus = "tailnet guest" /\ Guest!Init
       /\ accepted = NotUsed /\ adverse = NotUsed /\ adversity = NotUsed
       /\ after = NotUsed /\ again = NotUsed /\ alerts = NotUsed
       /\ archived = NotUsed /\ asked = NotUsed /\ attempted = NotUsed
       /\ awaiting = NotUsed /\ b = NotUsed /\ backup = NotUsed /\ backups = NotUsed
       /\ bak = NotUsed /\ bcur = NotUsed /\ before = NotUsed /\ boot = NotUsed
       /\ boots = NotUsed /\ bres = NotUsed /\ brot = NotUsed /\ bs = NotUsed
       /\ c = NotUsed /\ calm = NotUsed /\ capture = NotUsed /\ changes = NotUsed
       /\ cloud = NotUsed /\ cmd = NotUsed /\ compensating = NotUsed
       /\ conf = NotUsed /\ content = NotUsed /\ cs = NotUsed /\ ctl = NotUsed
       /\ current = NotUsed /\ daemon = NotUsed /\ desc = NotUsed
       /\ detached = NotUsed /\ disk = NotUsed /\ doom = NotUsed /\ edits = NotUsed
       /\ fence = NotUsed /\ files = NotUsed /\ gens = NotUsed /\ glate = NotUsed
       /\ guest = NotUsed /\ hook = NotUsed /\ ids = NotUsed /\ ingroup = NotUsed
       /\ intent = NotUsed /\ jn = NotUsed /\ job = NotUsed /\ kicks = NotUsed
       /\ kills = NotUsed /\ lane = NotUsed /\ last = NotUsed /\ live = NotUsed
       /\ lock = NotUsed /\ log = NotUsed /\ lost = NotUsed /\ ls = NotUsed
       /\ made = NotUsed /\ marker = NotUsed /\ old = NotUsed /\ orig = NotUsed
       /\ outcome = NotUsed /\ outer = NotUsed /\ pc = NotUsed /\ pend = NotUsed
       /\ pending = NotUsed /\ play = NotUsed /\ prep = NotUsed /\ prevf = NotUsed
       /\ primary = NotUsed /\ queue = NotUsed /\ ran = NotUsed /\ receipt = NotUsed
       /\ residue = NotUsed /\ revocation = NotUsed /\ roll = NotUsed
       /\ rollback = NotUsed /\ rolled = NotUsed /\ rotated = NotUsed
       /\ run = NotUsed /\ running = NotUsed /\ s = NotUsed /\ saved = NotUsed
       /\ sb = NotUsed /\ sc = NotUsed /\ secrets = NotUsed /\ sel = NotUsed
       /\ sets = NotUsed /\ sexit = NotUsed /\ snap = NotUsed /\ source = NotUsed
       /\ spent = NotUsed /\ sres = NotUsed /\ srv = NotUsed /\ sshd = NotUsed
       /\ stage = NotUsed /\ staged = NotUsed /\ startup = NotUsed
       /\ streak = NotUsed /\ suc = NotUsed /\ tf = NotUsed /\ tfstate = NotUsed
       /\ timer = NotUsed /\ tmp = NotUsed /\ todo = NotUsed /\ torn = NotUsed
       /\ tree = NotUsed /\ tx = NotUsed /\ undo = NotUsed /\ unit = NotUsed
       /\ up = NotUsed /\ want = NotUsed /\ window = NotUsed /\ xray = NotUsed
    \/ /\ focus = "tailnet promotion" /\ Promotion!Init
       /\ accepted = NotUsed /\ adverse = NotUsed /\ adversity = NotUsed
       /\ after = NotUsed /\ again = NotUsed /\ alerts = NotUsed
       /\ archived = NotUsed /\ asked = NotUsed /\ attempted = NotUsed
       /\ awaiting = NotUsed /\ b = NotUsed /\ backup = NotUsed /\ backups = NotUsed
       /\ bak = NotUsed /\ bcur = NotUsed /\ before = NotUsed /\ boot = NotUsed
       /\ booting = NotUsed /\ boots = NotUsed /\ bres = NotUsed /\ brot = NotUsed
       /\ bs = NotUsed /\ c = NotUsed /\ calm = NotUsed /\ capture = NotUsed
       /\ changes = NotUsed /\ cmd = NotUsed /\ compensating = NotUsed
       /\ conf = NotUsed /\ content = NotUsed /\ cs = NotUsed /\ current = NotUsed
       /\ debris = NotUsed /\ desc = NotUsed /\ detached = NotUsed /\ disk = NotUsed
       /\ doom = NotUsed /\ edits = NotUsed /\ faults = NotUsed /\ fence = NotUsed
       /\ file = NotUsed /\ files = NotUsed /\ hook = NotUsed /\ ids = NotUsed
       /\ ingroup = NotUsed /\ intent = NotUsed /\ jn = NotUsed /\ job = NotUsed
       /\ kicks = NotUsed /\ kills = NotUsed /\ lane = NotUsed /\ last = NotUsed
       /\ live = NotUsed /\ log = NotUsed /\ lost = NotUsed /\ ls = NotUsed
       /\ made = NotUsed /\ marker = NotUsed /\ nft = NotUsed /\ old = NotUsed
       /\ op = NotUsed /\ orig = NotUsed /\ outcome = NotUsed /\ outer = NotUsed
       /\ pc = NotUsed /\ pend = NotUsed /\ pending = NotUsed /\ play = NotUsed
       /\ prep = NotUsed /\ prevf = NotUsed /\ primary = NotUsed /\ ran = NotUsed
       /\ residue = NotUsed /\ revocation = NotUsed /\ roll = NotUsed
       /\ rollback = NotUsed /\ rolled = NotUsed /\ rotated = NotUsed
       /\ run = NotUsed /\ running = NotUsed /\ s = NotUsed /\ saved = NotUsed
       /\ sb = NotUsed /\ sc = NotUsed /\ secrets = NotUsed /\ sel = NotUsed
       /\ sets = NotUsed /\ sexit = NotUsed /\ snap = NotUsed /\ source = NotUsed
       /\ sres = NotUsed /\ srv = NotUsed /\ sshd = NotUsed /\ stage = NotUsed
       /\ staged = NotUsed /\ startup = NotUsed /\ streak = NotUsed /\ suc = NotUsed
       /\ timer = NotUsed /\ tmp = NotUsed /\ todo = NotUsed /\ torn = NotUsed
       /\ tree = NotUsed /\ tx = NotUsed /\ txn = NotUsed /\ undo = NotUsed
       /\ unit = NotUsed /\ up = NotUsed /\ want = NotUsed /\ window = NotUsed
       /\ xray = NotUsed
    \/ /\ focus = "first boot" /\ FirstBoot!GuestInit
       /\ accepted = NotUsed /\ adverse = NotUsed /\ adversity = NotUsed
       /\ after = NotUsed /\ again = NotUsed /\ alerts = NotUsed
       /\ archived = NotUsed /\ asked = NotUsed /\ awaiting = NotUsed /\ b = NotUsed
       /\ backup = NotUsed /\ backups = NotUsed /\ bak = NotUsed /\ bcur = NotUsed
       /\ before = NotUsed /\ boot = NotUsed /\ booting = NotUsed /\ bres = NotUsed
       /\ brot = NotUsed /\ bs = NotUsed /\ c = NotUsed /\ calm = NotUsed
       /\ capture = NotUsed /\ changes = NotUsed /\ cloud = NotUsed /\ cmd = NotUsed
       /\ compensating = NotUsed /\ conf = NotUsed /\ content = NotUsed
       /\ cs = NotUsed /\ ctl = NotUsed /\ current = NotUsed /\ daemon = NotUsed
       /\ debris = NotUsed /\ desc = NotUsed /\ detached = NotUsed /\ disk = NotUsed
       /\ doom = NotUsed /\ edits = NotUsed /\ fence = NotUsed /\ files = NotUsed
       /\ gens = NotUsed /\ glate = NotUsed /\ guest = NotUsed /\ hook = NotUsed
       /\ ids = NotUsed /\ ingroup = NotUsed /\ intent = NotUsed /\ jn = NotUsed
       /\ job = NotUsed /\ kicks = NotUsed /\ kills = NotUsed /\ lane = NotUsed
       /\ last = NotUsed /\ late = NotUsed /\ live = NotUsed /\ lock = NotUsed
       /\ log = NotUsed /\ lost = NotUsed /\ ls = NotUsed /\ made = NotUsed
       /\ nft = NotUsed /\ old = NotUsed /\ op = NotUsed /\ orig = NotUsed
       /\ outcome = NotUsed /\ outer = NotUsed /\ pend = NotUsed
       /\ pending = NotUsed /\ play = NotUsed /\ prep = NotUsed /\ prevf = NotUsed
       /\ primary = NotUsed /\ queue = NotUsed /\ receipt = NotUsed
       /\ revocation = NotUsed /\ roll = NotUsed /\ rollback = NotUsed
       /\ rolled = NotUsed /\ rotated = NotUsed /\ run = NotUsed
       /\ running = NotUsed /\ s = NotUsed /\ saved = NotUsed /\ sb = NotUsed
       /\ sc = NotUsed /\ secrets = NotUsed /\ sel = NotUsed /\ sets = NotUsed
       /\ sexit = NotUsed /\ source = NotUsed /\ spent = NotUsed /\ sres = NotUsed
       /\ srv = NotUsed /\ sshd = NotUsed /\ stage = NotUsed /\ staged = NotUsed
       /\ startup = NotUsed /\ streak = NotUsed /\ suc = NotUsed /\ tf = NotUsed
       /\ tfstate = NotUsed /\ timer = NotUsed /\ tmp = NotUsed /\ tree = NotUsed
       /\ tx = NotUsed /\ txn = NotUsed /\ undo = NotUsed /\ up = NotUsed
       /\ want = NotUsed /\ window = NotUsed /\ xray = NotUsed
    \/ /\ focus = "task" /\ Task!Init
       /\ accepted = NotUsed /\ adverse = NotUsed /\ adversity = NotUsed
       /\ after = NotUsed /\ again = NotUsed /\ alerts = NotUsed
       /\ archived = NotUsed /\ asked = NotUsed /\ attempted = NotUsed
       /\ awaiting = NotUsed /\ b = NotUsed /\ backup = NotUsed /\ backups = NotUsed
       /\ bak = NotUsed /\ bcur = NotUsed /\ before = NotUsed /\ boot = NotUsed
       /\ booting = NotUsed /\ boots = NotUsed /\ bres = NotUsed /\ brot = NotUsed
       /\ bs = NotUsed /\ c = NotUsed /\ calm = NotUsed /\ capture = NotUsed
       /\ changes = NotUsed /\ cloud = NotUsed /\ cmd = NotUsed
       /\ compensating = NotUsed /\ conf = NotUsed /\ content = NotUsed
       /\ cs = NotUsed /\ ctl = NotUsed /\ current = NotUsed /\ daemon = NotUsed
       /\ debris = NotUsed /\ desc = NotUsed /\ detached = NotUsed /\ disk = NotUsed
       /\ doom = NotUsed /\ edits = NotUsed /\ faults = NotUsed /\ fence = NotUsed
       /\ file = NotUsed /\ files = NotUsed /\ gens = NotUsed /\ glate = NotUsed
       /\ guest = NotUsed /\ hook = NotUsed /\ ids = NotUsed /\ ingroup = NotUsed
       /\ intent = NotUsed /\ jn = NotUsed /\ job = NotUsed /\ kicks = NotUsed
       /\ lane = NotUsed /\ late = NotUsed /\ live = NotUsed /\ lock = NotUsed
       /\ lost = NotUsed /\ ls = NotUsed /\ made = NotUsed /\ marker = NotUsed
       /\ nft = NotUsed /\ old = NotUsed /\ op = NotUsed /\ orig = NotUsed
       /\ outcome = NotUsed /\ outer = NotUsed /\ pc = NotUsed /\ pend = NotUsed
       /\ pending = NotUsed /\ play = NotUsed /\ prep = NotUsed /\ prevf = NotUsed
       /\ primary = NotUsed /\ queue = NotUsed /\ ran = NotUsed /\ receipt = NotUsed
       /\ residue = NotUsed /\ revocation = NotUsed /\ roll = NotUsed
       /\ rollback = NotUsed /\ rolled = NotUsed /\ rotated = NotUsed
       /\ run = NotUsed /\ running = NotUsed /\ s = NotUsed /\ saved = NotUsed
       /\ sb = NotUsed /\ sc = NotUsed /\ secrets = NotUsed /\ sel = NotUsed
       /\ sets = NotUsed /\ sexit = NotUsed /\ snap = NotUsed /\ source = NotUsed
       /\ spent = NotUsed /\ sres = NotUsed /\ srv = NotUsed /\ sshd = NotUsed
       /\ stage = NotUsed /\ staged = NotUsed /\ startup = NotUsed
       /\ streak = NotUsed /\ suc = NotUsed /\ tf = NotUsed /\ tfstate = NotUsed
       /\ timer = NotUsed /\ tmp = NotUsed /\ todo = NotUsed /\ torn = NotUsed
       /\ tx = NotUsed /\ txn = NotUsed /\ undo = NotUsed /\ unit = NotUsed
       /\ up = NotUsed /\ want = NotUsed /\ window = NotUsed /\ xray = NotUsed
    \/ /\ focus = "awg rotation" /\ Awg!Init
       /\ accepted = NotUsed /\ adverse = NotUsed /\ adversity = NotUsed
       /\ after = NotUsed /\ alerts = NotUsed /\ archived = NotUsed
       /\ asked = NotUsed /\ attempted = NotUsed /\ awaiting = NotUsed
       /\ b = NotUsed /\ backup = NotUsed /\ backups = NotUsed /\ bak = NotUsed
       /\ before = NotUsed /\ boot = NotUsed /\ booting = NotUsed /\ boots = NotUsed
       /\ bres = NotUsed /\ bs = NotUsed /\ c = NotUsed /\ capture = NotUsed
       /\ changes = NotUsed /\ cloud = NotUsed /\ cmd = NotUsed
       /\ compensating = NotUsed /\ content = NotUsed /\ cs = NotUsed
       /\ ctl = NotUsed /\ daemon = NotUsed /\ debris = NotUsed /\ desc = NotUsed
       /\ detached = NotUsed /\ disk = NotUsed /\ doom = NotUsed /\ edits = NotUsed
       /\ fence = NotUsed /\ file = NotUsed /\ files = NotUsed /\ gens = NotUsed
       /\ glate = NotUsed /\ guest = NotUsed /\ ids = NotUsed /\ ingroup = NotUsed
       /\ jn = NotUsed /\ job = NotUsed /\ kicks = NotUsed /\ kills = NotUsed
       /\ last = NotUsed /\ late = NotUsed /\ lock = NotUsed /\ log = NotUsed
       /\ lost = NotUsed /\ made = NotUsed /\ marker = NotUsed /\ nft = NotUsed
       /\ old = NotUsed /\ op = NotUsed /\ orig = NotUsed /\ outer = NotUsed
       /\ pc = NotUsed /\ pending = NotUsed /\ play = NotUsed /\ prep = NotUsed
       /\ primary = NotUsed /\ queue = NotUsed /\ ran = NotUsed /\ receipt = NotUsed
       /\ residue = NotUsed /\ revocation = NotUsed /\ roll = NotUsed
       /\ rollback = NotUsed /\ rolled = NotUsed /\ run = NotUsed
       /\ running = NotUsed /\ s = NotUsed /\ saved = NotUsed /\ sb = NotUsed
       /\ sc = NotUsed /\ secrets = NotUsed /\ sel = NotUsed /\ sets = NotUsed
       /\ sexit = NotUsed /\ snap = NotUsed /\ source = NotUsed /\ spent = NotUsed
       /\ sres = NotUsed /\ sshd = NotUsed /\ stage = NotUsed /\ staged = NotUsed
       /\ startup = NotUsed /\ streak = NotUsed /\ tf = NotUsed /\ tfstate = NotUsed
       /\ timer = NotUsed /\ tmp = NotUsed /\ todo = NotUsed /\ torn = NotUsed
       /\ tree = NotUsed /\ tx = NotUsed /\ undo = NotUsed /\ unit = NotUsed
       /\ up = NotUsed /\ want = NotUsed /\ window = NotUsed /\ xray = NotUsed

SshNext ==
    /\ focus = "ssh change" /\ Ssh!Next
    /\ UNCHANGED <<focus, accepted, adverse, after, again, alerts, asked, attempted, b, backup, backups, bak,
                     bcur, before, booting, boots, bres, brot, bs, c, calm, capture,
                     changes, cloud, cmd, compensating, conf, content, cs, ctl, current,
                     daemon, debris, desc, detached, doom, faults, fence, file, files,
                     gens, glate, guest, hook, ids, ingroup, intent, jn, kicks, kills,
                     lane, last, live, lock, log, lost, ls, made, nft, old, op, orig,
                     outcome, outer, pc, pend, pending, play, prep, prevf, primary,
                     queue, ran, receipt, residue, revocation, roll, rollback, rolled,
                     rotated, run, s, saved, sb, sc, secrets, sel, sets, sexit, snap,
                     source, spent, sres, srv, stage, staged, startup, streak, suc, tf,
                     tfstate, tmp, todo, torn, tree, tx, undo, unit, up, want, xray>>

RuntimeNext ==
    /\ focus = "runtime" /\ Runtime!Next
    /\ UNCHANGED <<focus, adversity, again, alerts, archived, asked, attempted, awaiting, b, backup, bak, bcur,
                     boot, booting, boots, bres, brot, bs, c, calm, capture, changes,
                     cloud, cmd, conf, cs, ctl, current, daemon, debris, desc, detached,
                     disk, doom, edits, faults, fence, file, files, gens, glate, guest,
                     hook, ids, ingroup, intent, jn, kicks, kills, lane, late, lock,
                     log, lost, ls, made, marker, nft, old, op, orig, outcome, pc, pend,
                     prevf, primary, queue, ran, receipt, residue, roll, rolled,
                     rotated, run, s, saved, sb, sc, secrets, sel, sets, sexit, snap,
                     source, spent, sres, srv, sshd, stage, startup, streak, suc, tf,
                     tfstate, timer, tmp, todo, torn, tree, tx, txn, up, want, window,
                     xray>>

BarrierNext ==
    /\ focus = "revocation barrier" /\ Barrier!Next
    /\ UNCHANGED <<focus, accepted, adversity, after, again, alerts, archived, asked, attempted, awaiting, b,
                     backup, backups, bak, bcur, before, boot, booting, boots, bres,
                     brot, bs, c, calm, capture, changes, cloud, cmd, compensating,
                     conf, content, cs, ctl, current, daemon, debris, desc, detached,
                     disk, doom, edits, faults, files, gens, glate, guest, hook, ids,
                     ingroup, intent, jn, kicks, kills, lane, last, late, live, lock,
                     log, lost, ls, made, marker, nft, old, op, orig, outcome, outer,
                     pc, pend, prep, prevf, primary, queue, ran, receipt, residue,
                     revocation, roll, rollback, rolled, rotated, run, running, s,
                     saved, sb, sc, sel, sets, sexit, snap, spent, sres, srv, sshd,
                     stage, staged, startup, streak, suc, tf, tfstate, timer, tmp, todo,
                     torn, tree, tx, txn, undo, up, want, window, xray>>

GeodataNext ==
    /\ focus = "geodata" /\ Geodata!TimedNext
    /\ UNCHANGED <<focus, accepted, adverse, adversity, after, again, alerts, archived, asked, attempted,
                     awaiting, b, backup, backups, bak, bcur, before, boot, booting,
                     boots, bres, brot, bs, c, calm, capture, changes, cloud, cmd,
                     compensating, conf, content, cs, ctl, current, daemon, debris,
                     desc, detached, disk, doom, edits, fence, file, gens, glate, guest,
                     hook, ids, ingroup, intent, jn, job, kicks, kills, lane, last,
                     late, live, lock, log, lost, ls, made, marker, nft, old, op, orig,
                     outcome, outer, pc, pending, play, prep, prevf, primary, queue,
                     ran, residue, revocation, roll, rollback, rolled, rotated, running,
                     s, saved, sb, sc, secrets, sel, sexit, snap, source, spent, sres,
                     srv, sshd, stage, staged, startup, streak, suc, tf, tfstate, timer,
                     tmp, todo, torn, tree, tx, txn, undo, unit, up, want, window>>

GuardianNext ==
    /\ focus = "build guardian" /\ Guardian!Next
    /\ UNCHANGED <<focus, accepted, adverse, adversity, after, again, alerts, archived, attempted, awaiting,
                     backup, backups, bak, bcur, before, boot, booting, boots, brot,
                     calm, capture, changes, cloud, compensating, conf, content, ctl,
                     current, daemon, debris, disk, edits, faults, fence, file, files,
                     gens, glate, guest, hook, ids, intent, jn, job, kicks, lane, last,
                     late, live, lock, log, lost, ls, made, marker, nft, old, op, orig,
                     outcome, outer, pc, pend, pending, play, prep, prevf, queue, ran,
                     receipt, residue, revocation, roll, rollback, rolled, rotated, run,
                     running, saved, secrets, sel, sets, snap, source, spent, srv, sshd,
                     stage, staged, startup, streak, suc, tf, tfstate, timer, tmp, todo,
                     torn, tree, tx, txn, undo, unit, up, want, window, xray>>

BuildNext ==
    /\ focus = "build receipt" /\ Build!Next
    /\ UNCHANGED <<focus, accepted, adverse, adversity, after, again, alerts, archived, asked, attempted,
                     awaiting, b, backup, backups, bcur, before, boot, booting, boots,
                     bres, brot, bs, c, calm, capture, cloud, cmd, compensating, conf,
                     content, cs, ctl, current, daemon, debris, desc, detached, disk,
                     doom, edits, fence, file, files, gens, glate, guest, hook, ingroup,
                     intent, job, kicks, kills, lane, last, late, lock, log, ls, marker,
                     nft, old, op, orig, outcome, outer, pc, pend, pending, play, prep,
                     prevf, primary, queue, ran, residue, revocation, rollback, rolled,
                     rotated, running, s, saved, sb, sc, secrets, sel, sets, sexit,
                     snap, source, spent, sres, srv, sshd, stage, staged, startup,
                     streak, suc, tf, tfstate, timer, todo, torn, tree, txn, undo, unit,
                     up, window, xray>>

SenderNext ==
    /\ focus = "sender" /\ Sender!Next
    /\ UNCHANGED <<focus, adverse, adversity, after, again, alerts, archived, asked, attempted, awaiting, b,
                     backups, bak, bcur, before, boot, booting, boots, bres, brot, bs,
                     c, calm, changes, cloud, cmd, compensating, conf, content, cs, ctl,
                     current, daemon, debris, desc, detached, disk, doom, edits, fence,
                     file, files, gens, glate, guest, hook, ids, ingroup, intent, jn,
                     job, kicks, kills, lane, last, late, live, lock, log, lost, ls,
                     made, marker, nft, old, op, outcome, outer, pc, pend, play, prep,
                     prevf, primary, ran, receipt, residue, revocation, roll, rollback,
                     rotated, run, running, s, sb, sc, secrets, sets, sexit, snap,
                     source, spent, sres, srv, sshd, staged, streak, suc, tf, tfstate,
                     timer, tmp, torn, tree, tx, txn, undo, up, window, xray>>

WatchNext ==
    /\ focus = "watchdog" /\ Watch!Next
    /\ UNCHANGED <<focus, accepted, adverse, adversity, after, again, archived, asked, attempted, awaiting, b,
                     backup, backups, bak, bcur, before, boot, booting, boots, bres,
                     brot, bs, c, calm, capture, changes, cloud, cmd, compensating,
                     conf, content, cs, ctl, current, daemon, debris, desc, detached,
                     doom, edits, fence, file, files, gens, glate, guest, hook, ids,
                     ingroup, intent, jn, job, kills, lane, last, late, live, log, lost,
                     ls, made, marker, nft, op, orig, outcome, outer, pc, pend, pending,
                     play, prep, prevf, primary, queue, ran, receipt, residue,
                     revocation, roll, rollback, rolled, rotated, running, s, saved, sb,
                     sc, secrets, sel, sets, sexit, snap, source, spent, sres, srv,
                     sshd, stage, staged, startup, suc, tf, tfstate, timer, tmp, todo,
                     torn, tree, tx, txn, undo, unit, want, window, xray>>

GuestNext ==
    /\ focus = "tailnet guest" /\ Guest!Next
    /\ UNCHANGED <<focus, accepted, adverse, adversity, after, again, alerts, archived, asked, attempted,
                     awaiting, b, backup, backups, bak, bcur, before, boot, boots, bres,
                     brot, bs, c, calm, capture, changes, cloud, cmd, compensating,
                     conf, content, cs, ctl, current, daemon, desc, detached, disk,
                     doom, edits, fence, files, gens, glate, guest, hook, ids, ingroup,
                     intent, jn, job, kicks, kills, lane, last, live, lock, log, lost,
                     ls, made, marker, old, orig, outcome, outer, pc, pend, pending,
                     play, prep, prevf, primary, queue, ran, receipt, residue,
                     revocation, roll, rollback, rolled, rotated, run, running, s,
                     saved, sb, sc, secrets, sel, sets, sexit, snap, source, spent,
                     sres, srv, sshd, stage, staged, startup, streak, suc, tf, tfstate,
                     timer, tmp, todo, torn, tree, tx, undo, unit, up, want, window,
                     xray>>

PromotionNext ==
    /\ focus = "tailnet promotion" /\ Promotion!Next
    /\ UNCHANGED <<focus, accepted, adverse, adversity, after, again, alerts, archived, asked, attempted,
                     awaiting, b, backup, backups, bak, bcur, before, boot, booting,
                     boots, bres, brot, bs, c, calm, capture, changes, cmd,
                     compensating, conf, content, cs, current, debris, desc, detached,
                     disk, doom, edits, faults, fence, file, files, hook, ids, ingroup,
                     intent, jn, job, kicks, kills, lane, last, live, log, lost, ls,
                     made, marker, nft, old, op, orig, outcome, outer, pc, pend,
                     pending, play, prep, prevf, primary, ran, residue, revocation,
                     roll, rollback, rolled, rotated, run, running, s, saved, sb, sc,
                     secrets, sel, sets, sexit, snap, source, sres, srv, sshd, stage,
                     staged, startup, streak, suc, timer, tmp, todo, torn, tree, tx,
                     txn, undo, unit, up, want, window, xray>>

FirstBootNext ==
    /\ focus = "first boot" /\ FirstBoot!GuestNext
    /\ UNCHANGED <<focus, accepted, adverse, adversity, after, again, alerts, archived, asked, awaiting, b,
                     backup, backups, bak, bcur, before, boot, booting, bres, brot, bs,
                     c, calm, capture, changes, cloud, cmd, compensating, conf, content,
                     cs, ctl, current, daemon, debris, desc, detached, disk, doom,
                     edits, fence, files, gens, glate, guest, hook, ids, ingroup,
                     intent, jn, job, kicks, kills, lane, last, late, live, lock, log,
                     lost, ls, made, nft, old, op, orig, outcome, outer, pend, pending,
                     play, prep, prevf, primary, queue, receipt, revocation, roll,
                     rollback, rolled, rotated, run, running, s, saved, sb, sc, secrets,
                     sel, sets, sexit, source, spent, sres, srv, sshd, stage, staged,
                     startup, streak, suc, tf, tfstate, timer, tmp, tree, tx, txn, undo,
                     up, want, window, xray>>

TaskNext ==
    /\ focus = "task" /\ Task!Next
    /\ UNCHANGED <<focus, accepted, adverse, adversity, after, again, alerts, archived, asked, attempted,
                     awaiting, b, backup, backups, bak, bcur, before, boot, booting,
                     boots, bres, brot, bs, c, calm, capture, changes, cloud, cmd,
                     compensating, conf, content, cs, ctl, current, daemon, debris,
                     desc, detached, disk, doom, edits, faults, fence, file, files,
                     gens, glate, guest, hook, ids, ingroup, intent, jn, job, kicks,
                     lane, late, live, lock, lost, ls, made, marker, nft, old, op, orig,
                     outcome, outer, pc, pend, pending, play, prep, prevf, primary,
                     queue, ran, receipt, residue, revocation, roll, rollback, rolled,
                     rotated, run, running, s, saved, sb, sc, secrets, sel, sets, sexit,
                     snap, source, spent, sres, srv, sshd, stage, staged, startup,
                     streak, suc, tf, tfstate, timer, tmp, todo, torn, tx, txn, undo,
                     unit, up, want, window, xray>>

AwgNext ==
    /\ focus = "awg rotation" /\ Awg!Next
    /\ UNCHANGED <<focus, accepted, adverse, adversity, after, alerts, archived, asked, attempted, awaiting, b,
                     backup, backups, bak, before, boot, booting, boots, bres, bs, c,
                     capture, changes, cloud, cmd, compensating, content, cs, ctl,
                     daemon, debris, desc, detached, disk, doom, edits, fence, file,
                     files, gens, glate, guest, ids, ingroup, jn, job, kicks, kills,
                     last, late, lock, log, lost, made, marker, nft, old, op, orig,
                     outer, pc, pending, play, prep, primary, queue, ran, receipt,
                     residue, revocation, roll, rollback, rolled, run, running, s,
                     saved, sb, sc, secrets, sel, sets, sexit, snap, source, spent,
                     sres, sshd, stage, staged, startup, streak, tf, tfstate, timer,
                     tmp, todo, torn, tree, tx, undo, unit, up, want, window, xray>>

Next == SshNext \/ RuntimeNext \/ BarrierNext \/ GeodataNext \/ GuardianNext \/
        BuildNext \/ SenderNext \/ WatchNext \/ GuestNext \/ PromotionNext \/
        FirstBootNext \/ TaskNext \/ AwgNext

Spec == Init /\ [][Next]_vars

(* The variables of the component a behaviour follows, and an action of    *)
(* that component.                                                         *)
followed ==
    CASE focus = "ssh change" -> Ssh!vars
      [] focus = "runtime" -> Runtime!vars
      [] focus = "revocation barrier" -> Barrier!vars
      [] focus = "geodata" -> Geodata!vars
      [] focus = "build guardian" -> Guardian!vars
      [] focus = "build receipt" -> Build!vars
      [] focus = "sender" -> Sender!vars
      [] focus = "watchdog" -> Watch!vars
      [] focus = "tailnet guest" -> Guest!vars
      [] focus = "tailnet promotion" -> Promotion!vars
      [] focus = "first boot" -> FirstBoot!guest
      [] focus = "task" -> Task!vars
      [] focus = "awg rotation" -> Awg!vars
Of(component, A) == focus = component /\ A /\ UNCHANGED focus

(* What is fair, for the component a behaviour follows (one conjunct       *)
(* serves all components: a step of another one is never enabled).         *)
(* ssh change: a running process is scheduled; the timer fires every 15    *)
(* seconds and time passes; systemd runs boot recovery and then the        *)
(* listener when a start of the unit is pending. No operator action is     *)
(* assumed.                                                                *)
(* runtime: every command an operation runs has a timeout, so the holder   *)
(* keeps moving; the controller's loop asks for admission once a second.   *)
(* revocation barrier: commands have timeouts, so processes and plays move *)
(* on; the controller calls the play of an unfinished revocation again, at *)
(* the same sources.                                                       *)
(* geodata: the deployed timer asks for its pin again and again, and a run *)
(* that started goes on.                                                   *)
(* build guardian: processes run and deadlines pass; a build does not have *)
(* to end unless it is killed.                                             *)
(* build receipt: a convergence goes on, and the deployment repeats it.    *)
(* sender: the publisher runs to the end of its run, systemd retries a     *)
(* start it owes, and the role comes back with recover, which is its first *)
(* command.                                                                *)
(* watchdog: the timer starts its run again and again, and what runs goes  *)
(* on.                                                                     *)
(* tailnet guest: timers fire, time passes, and a helper that runs goes    *)
(* on.                                                                     *)
(* tailnet promotion: the daemon serves its queue, and its tick is not     *)
(* kept from the state lock for ever by a controller that polls; commands  *)
(* have timeouts; deadlines pass.                                          *)
(* first boot: systemd boots the node and cloud-init works through its     *)
(* script.                                                                 *)
(* task: an operator carries on what has been closed: commits it, archives *)
(* a dropped change and purges the record.                                 *)
(* awg rotation: processes run, and the timer starts the lane again and    *)
(* again.                                                                  *)
Fairness ==
    /\ WF_followed(\/ Of("ssh change", Ssh!HolderStep)
                   \/ Of("runtime", Runtime!JobStep)
                   \/ Of("revocation barrier", Barrier!Barrier)
                   \/ Of("geodata", Geodata!Timer)
                   \/ Of("build guardian", Guardian!GuardianStep)
                   \/ Of("build receipt", Build!Work)
                   \/ Of("sender", Sender!Publisher)
                   \/ Of("watchdog", Watch!HourPasses)
                   \/ Of("tailnet guest", Guest!Steps)
                   \/ Of("tailnet promotion", Promotion!Serve)
                   \/ Of("first boot", FirstBoot!Boot)
                   \/ Of("task", Task!Commit)
                   \/ Of("awg rotation", Awg!Server))
    /\ WF_followed(\/ Of("ssh change", Ssh!TimerRecover)
                   \/ Of("runtime", Runtime!ControllerFence)
                   \/ Of("revocation barrier", Barrier!Playing)
                   \/ Of("geodata", Geodata!Continue)
                   \/ Of("build guardian", Guardian!SupervisorStep)
                   \/ Of("build receipt", Build!Converge)
                   \/ Of("sender", Sender!AutoStart)
                   \/ Of("watchdog", Watch!Start(x1))
                   \/ Of("tailnet guest", Guest!Expires)
                   \/ Of("tailnet promotion", Promotion!DaemonLock)
                   \/ Of("first boot", FirstBoot!GuestSteps)
                   \/ Of("task", tree["spec"].status = "dropped" /\ Task!command_openspec_archive("spec"))
                   \/ Of("awg rotation", Awg!HookStep))
    /\ WF_followed(\/ Of("ssh change", Ssh!BootRecover)
                   \/ Of("build guardian", Guardian!CallerStep)
                   \/ Of("sender", Sender!RunRecover)
                   \/ Of("watchdog", Watch!Go_on(x1))
                   \/ Of("tailnet guest", Guest!recover)
                   \/ Of("tailnet promotion", Promotion!Locally \/ Promotion!DaemonRollback)
                   \/ Of("task", Task!command_close_purge("spec"))
                   \/ Of("awg rotation", Awg!LaneStep))
    /\ WF_followed(\/ Of("ssh change", Ssh!DaemonStart)
                   \/ Of("build guardian", Guardian!Dies)
                   \/ Of("watchdog", Watch!Start(x2))
                   \/ Of("tailnet guest", Guest!boot_recover)
                   \/ Of("tailnet promotion", Promotion!DaemonRolled)
                   \/ Of("awg rotation", Awg!LaneStart))
    /\ WF_followed(\/ Of("ssh change", Ssh!Elapse)
                   \/ Of("watchdog", Watch!Go_on(x2))
                   \/ Of("tailnet guest", Guest!LoadRules)
                   \/ Of("tailnet promotion", Promotion!TfSend \/ Promotion!TfWrite))
    /\ WF_followed(Of("tailnet promotion", Promotion!Controls(c1)))
    /\ WF_followed(Of("tailnet promotion", Promotion!Lapse))
    /\ WF_followed(Of("tailnet promotion", Promotion!GuestLapse))
    /\ WF_followed(Of("tailnet promotion", Promotion!GuestRecover))
    /\ SF_followed(\/ Of("revocation barrier", pending # 0 /\ Barrier!StartPlay(pending))
                   \/ Of("tailnet promotion", Promotion!Tick))

FairSpec == Spec /\ Fairness

-----------------------------------------------------------------------------
(* Every SSH transaction is decided in the end without an operator: it     *)
(* commits, is rolled back, or the listener stays closed for a console     *)
(* recovery.                                                               *)
EventuallyDecided ==
    [](focus = "ssh change" /\ txn.status \in Ssh!Undecided =>
          <>(focus = "ssh change" /\ txn.status \in Ssh!Terminal) \/ <>[](focus = "ssh change" /\ ~Ssh!Up))

(* What a death left open is closed. Runtime: what a dead publisher left   *)
(* running beside its open journal is stopped, or the journal is           *)
(* reconciled, even if no play returns. Barrier: the fence closes, unless  *)
(* the sources no longer render its candidate. Geodata: the timer adopts   *)
(* the pinned pair and Xray runs it. Guardian: the process group of a      *)
(* build goes, whoever of caller, supervisor and guardian is lost. Build:  *)
(* repeated convergence installs the requested revision. Sender: no        *)
(* intent, startup record or snapshot stays. Guest: its firewall           *)
(* transaction is decided, unless somebody else has the fragment or        *)
(* nftables never came up. Promotion: a lease is committed or rolled back  *)
(* while its daemon lives. First boot: it finishes when the helper         *)
(* understands the fragments. Task: a closed one is purged once nobody     *)
(* refers to it, unless it once had a record that the tool refuses. AWG:   *)
(* again and again nothing is open and the keys match. Watchdog: a unit    *)
(* that stays down is restarted again and again.                           *)
Settles ==
    (\/ focus = "runtime" /\ Runtime!At("idle") /\ ~Runtime!NoJournal /\ running # Runtime!Stopped
     \/ focus = "revocation barrier" /\ Barrier!Unfinished
     \/ focus = "geodata"
     \/ focus = "build guardian" /\ Guardian!Work
     \/ focus = "build receipt"
     \/ focus = "sender" /\ Sender!Unfinished
     \/ focus = "tailnet guest" /\ txn.st \notin Guest!TERMINAL
     \/ focus = "tailnet promotion" /\ receipt.st \in Promotion!Leased
     \/ focus = "first boot" /\ FirstBoot!Readable(file) /\ FirstBoot!ValidExisting(file)
     \/ focus = "task" /\ tree["spec"].status \in Task!Terminal /\ Task!NeverRefused("spec")
     \/ focus = "awg rotation"
     \/ focus = "watchdog")
    ~> (\/ focus = "runtime" /\ (Runtime!NoJournal \/ running = Runtime!Stopped)
        \/ focus = "revocation barrier" /\ (~Barrier!Unfinished \/ (fence.authority = secrets /\ fence.plan # Barrier!Rendered))
        \/ focus = "geodata" /\ files = Geodata!Pair(2) /\ (Geodata!Settled /\ xray.up => xray.loaded = files)
        \/ focus = "build guardian" /\ ~Guardian!Work
        \/ focus = "build receipt" /\ receipt.src = want /\ ~Build!Entry /\ \A o \in Build!Out : Build!Digest(o)
        \/ focus = "sender" /\ ~Sender!Unfinished
        \/ focus = "tailnet guest" /\ (txn.st \in Guest!TERMINAL \/ file = OtherRules \/ nft = Unloaded)
        \/ focus = "tailnet promotion" /\ receipt.st \notin Promotion!Leased
        \/ focus = "first boot" /\ marker
        \/ focus = "task" /\ (~Task!Present(tree["spec"]) \/ ~Task!Unreferenced("spec"))
        \/ focus = "awg rotation" /\ Awg!Quiet /\ current = conf
        \/ focus = "watchdog" /\ (up[xr] \/ \E r \in {x1, x2} : run[r].unit = xr))

=============================================================================
