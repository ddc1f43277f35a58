---------- MODULE MCAccess ----------
(* How a node is reached: SSH changes undisturbed by others, the SSH       *)
(* policy plan, the recovery package, the first boot and its acceptance    *)
(* harness, the tailnet promotion with its guest, and the enrollment. The  *)
(* components share no state here (the promotion's guest is its own        *)
(* abstraction of the guest helper, see GuestPromise), so a behaviour      *)
(* follows one of them, with the bounds of its instance.                   *)
EXTENDS Integers, Sequences, FiniteSets, TLC

CONSTANTS NotUsed,   \* the value of a variable the followed component does not have
          NoValue, Base, NewRules, OtherRules, Unloaded, g1, g2, c1, c2, v1, v2

VARIABLES focus,   \* the component this behaviour follows
          adversity, arch, archived, at, attempt, attempted, auth, awaiting, barrier, boot,
          booting, boots, case, changes, cloud, ctl, current, cut, daemon, debris, dir,
          disk, done, early, edits, evidence, faults, file, fw, gens, glate, guest, h,
          handoffs, header, job, journal, jrn, kills, late, links, litter, live, lock,
          login, marker, next, nft, obs, op, owned, passed, pc, plan, proc, proof, pub,
          queue, ran, reboots, receipt, residue, running, runs, snap, sock, spent, ssh,
          sshd, staged, sys, tf, tfstate, timer, todo, torn, ts, tx, txLock, txn,
          unclean, undeleted, unit, used, vm, why, window, worker

vars == <<focus, adversity, arch, archived, at, attempt, attempted, auth, awaiting, barrier, boot,
          booting, boots, case, changes, cloud, ctl, current, cut, daemon, debris, dir,
          disk, done, early, edits, evidence, faults, file, fw, gens, glate, guest, h,
          handoffs, header, job, journal, jrn, kills, late, links, litter, live, lock,
          login, marker, next, nft, obs, op, owned, passed, pc, plan, proc, proof, pub,
          queue, ran, reboots, receipt, residue, running, runs, snap, sock, spent, ssh,
          sshd, staged, sys, tf, tfstate, timer, todo, torn, ts, tx, txLock, txn,
          unclean, undeleted, unit, used, vm, why, window, worker>>



Ssh == INSTANCE SshdTransaction WITH
    N <- 2, Content <- {v1, v2}, Callers <- {c1}, MaxGen <- 2, MaxEdits <- 0, MaxAdversity <- 1
Plan == INSTANCE SshdPlan WITH
    MaxEdits <- 1, MaxFaults <- 1
Bundle == INSTANCE SshdBundle WITH
    Gens <- {g1, g2}, Schema <- (g1 :> 1) @@ (g2 :> 2), MaxRuns <- 4, MaxChanges <- 2,
    MaxFaults <- 3,
    None <- NoValue
FirstBoot == INSTANCE BootstrapSshd WITH
    MaxBoots <- 5, MaxFaults <- 3
Harness == INSTANCE CloudFinalAcceptance WITH
    MaxBoots <- 3, MaxFaults <- 2, Cases <- <<"clean", "interrupted">>, Headers <- {TRUE, FALSE},
    MaxRuns <- 2, Cancels <- FALSE
Promotion == INSTANCE TailnetPromotion WITH
    Controllers <- {c1}, Backlog <- 2, MaxGen <- 2, MaxSlips <- 2, MaxKills <- 1,
    MaxDeaths <- 1, MaxCuts <- 0
Guest == INSTANCE TailnetGuest WITH
    Fragments <- {Base, NewRules}, MaxGen <- 3, MaxFaults <- 4,
    Foreign <- OtherRules
Enrollment == INSTANCE TailnetEnrollment WITH
    Controllers <- {c1, c2}, MaxTx <- 1, MaxFaults <- 2, MaxKills <- 1, MaxReboots <- 1,
    Torn <- TRUE

(* The constants are within the assumptions of the components.             *)
ASSUME ConstantsAssumption ==
    /\ Plan!PlanAssumption
    /\ Bundle!BundleAssumption
    /\ FirstBoot!BootstrapAssumption
    /\ Harness!BootstrapAssumption
    /\ Harness!AcceptanceAssumption
    /\ Promotion!TailnetAssumption
    /\ Guest!GuestAssumption
    /\ Enrollment!EnrollmentAssumption

(* The first state of a behaviour picks the component and is an initial    *)
(* state of it.                                                            *)
Init ==
    \/ /\ focus = "ssh change" /\ Ssh!Init
       /\ arch = NotUsed /\ at = NotUsed /\ attempt = NotUsed /\ attempted = NotUsed
       /\ auth = NotUsed /\ barrier = NotUsed /\ booting = NotUsed
       /\ boots = NotUsed /\ case = NotUsed /\ changes = NotUsed /\ cloud = NotUsed
       /\ ctl = NotUsed /\ current = NotUsed /\ cut = NotUsed /\ daemon = NotUsed
       /\ debris = NotUsed /\ dir = NotUsed /\ done = NotUsed /\ early = NotUsed
       /\ evidence = NotUsed /\ faults = NotUsed /\ file = NotUsed /\ fw = NotUsed
       /\ gens = NotUsed /\ glate = NotUsed /\ guest = NotUsed /\ h = NotUsed
       /\ handoffs = NotUsed /\ header = NotUsed /\ journal = NotUsed
       /\ jrn = NotUsed /\ kills = NotUsed /\ links = NotUsed /\ litter = NotUsed
       /\ live = NotUsed /\ lock = NotUsed /\ login = NotUsed /\ next = NotUsed
       /\ nft = NotUsed /\ obs = NotUsed /\ op = NotUsed /\ owned = NotUsed
       /\ passed = NotUsed /\ pc = NotUsed /\ plan = NotUsed /\ proc = NotUsed
       /\ proof = NotUsed /\ pub = NotUsed /\ queue = NotUsed /\ ran = NotUsed
       /\ reboots = NotUsed /\ receipt = NotUsed /\ residue = NotUsed
       /\ runs = NotUsed /\ snap = NotUsed /\ sock = NotUsed /\ spent = NotUsed
       /\ ssh = NotUsed /\ staged = NotUsed /\ sys = NotUsed /\ tf = NotUsed
       /\ tfstate = NotUsed /\ todo = NotUsed /\ torn = NotUsed /\ ts = NotUsed
       /\ tx = NotUsed /\ txLock = NotUsed /\ unclean = NotUsed
       /\ undeleted = NotUsed /\ unit = NotUsed /\ used = NotUsed /\ vm = NotUsed
       /\ why = NotUsed /\ worker = NotUsed
    \/ /\ focus = "sshd plan" /\ Plan!Init
       /\ adversity = NotUsed /\ arch = NotUsed /\ archived = NotUsed
       /\ attempt = NotUsed /\ attempted = NotUsed /\ auth = NotUsed
       /\ awaiting = NotUsed /\ barrier = NotUsed /\ boot = NotUsed
       /\ booting = NotUsed /\ boots = NotUsed /\ case = NotUsed
       /\ changes = NotUsed /\ cloud = NotUsed /\ ctl = NotUsed /\ current = NotUsed
       /\ cut = NotUsed /\ daemon = NotUsed /\ debris = NotUsed /\ dir = NotUsed
       /\ disk = NotUsed /\ early = NotUsed /\ evidence = NotUsed /\ file = NotUsed
       /\ fw = NotUsed /\ gens = NotUsed /\ glate = NotUsed /\ guest = NotUsed
       /\ h = NotUsed /\ handoffs = NotUsed /\ header = NotUsed /\ job = NotUsed
       /\ journal = NotUsed /\ jrn = NotUsed /\ kills = NotUsed /\ late = NotUsed
       /\ links = NotUsed /\ litter = NotUsed /\ lock = NotUsed /\ login = NotUsed
       /\ marker = NotUsed /\ next = NotUsed /\ nft = NotUsed /\ obs = NotUsed
       /\ op = NotUsed /\ owned = NotUsed /\ passed = NotUsed /\ proc = NotUsed
       /\ proof = NotUsed /\ pub = NotUsed /\ queue = NotUsed /\ ran = NotUsed
       /\ reboots = NotUsed /\ receipt = NotUsed /\ residue = NotUsed
       /\ running = NotUsed /\ runs = NotUsed /\ snap = NotUsed /\ sock = NotUsed
       /\ spent = NotUsed /\ ssh = NotUsed /\ sshd = NotUsed /\ staged = NotUsed
       /\ sys = NotUsed /\ tf = NotUsed /\ tfstate = NotUsed /\ timer = NotUsed
       /\ todo = NotUsed /\ torn = NotUsed /\ ts = NotUsed /\ tx = NotUsed
       /\ txLock = NotUsed /\ txn = NotUsed /\ unclean = NotUsed
       /\ undeleted = NotUsed /\ unit = NotUsed /\ used = NotUsed /\ vm = NotUsed
       /\ why = NotUsed /\ window = NotUsed /\ worker = NotUsed
    \/ /\ focus = "sshd bundle" /\ Bundle!Init
       /\ adversity = NotUsed /\ arch = NotUsed /\ archived = NotUsed
       /\ at = NotUsed /\ attempt = NotUsed /\ attempted = NotUsed /\ auth = NotUsed
       /\ awaiting = NotUsed /\ barrier = NotUsed /\ boot = NotUsed
       /\ booting = NotUsed /\ boots = NotUsed /\ case = NotUsed /\ cloud = NotUsed
       /\ ctl = NotUsed /\ cut = NotUsed /\ daemon = NotUsed /\ debris = NotUsed
       /\ dir = NotUsed /\ disk = NotUsed /\ done = NotUsed /\ early = NotUsed
       /\ edits = NotUsed /\ evidence = NotUsed /\ file = NotUsed /\ fw = NotUsed
       /\ glate = NotUsed /\ guest = NotUsed /\ h = NotUsed /\ handoffs = NotUsed
       /\ header = NotUsed /\ job = NotUsed /\ jrn = NotUsed /\ kills = NotUsed
       /\ late = NotUsed /\ litter = NotUsed /\ live = NotUsed /\ lock = NotUsed
       /\ login = NotUsed /\ marker = NotUsed /\ nft = NotUsed /\ obs = NotUsed
       /\ op = NotUsed /\ owned = NotUsed /\ passed = NotUsed /\ pc = NotUsed
       /\ plan = NotUsed /\ queue = NotUsed /\ ran = NotUsed /\ reboots = NotUsed
       /\ receipt = NotUsed /\ residue = NotUsed /\ running = NotUsed
       /\ runs = NotUsed /\ snap = NotUsed /\ sock = NotUsed /\ spent = NotUsed
       /\ sshd = NotUsed /\ tf = NotUsed /\ tfstate = NotUsed /\ timer = NotUsed
       /\ todo = NotUsed /\ torn = NotUsed /\ ts = NotUsed /\ txn = NotUsed
       /\ unclean = NotUsed /\ undeleted = NotUsed /\ unit = NotUsed
       /\ used = NotUsed /\ vm = NotUsed /\ why = NotUsed /\ window = NotUsed
    \/ /\ focus = "first boot" /\ FirstBoot!GuestInit
       /\ adversity = NotUsed /\ arch = NotUsed /\ archived = NotUsed
       /\ at = NotUsed /\ attempt = NotUsed /\ auth = NotUsed /\ awaiting = NotUsed
       /\ barrier = NotUsed /\ boot = NotUsed /\ booting = NotUsed /\ case = NotUsed
       /\ changes = NotUsed /\ cloud = NotUsed /\ ctl = NotUsed /\ current = NotUsed
       /\ cut = NotUsed /\ daemon = NotUsed /\ debris = NotUsed /\ dir = NotUsed
       /\ disk = NotUsed /\ done = NotUsed /\ early = NotUsed /\ edits = NotUsed
       /\ evidence = NotUsed /\ fw = NotUsed /\ gens = NotUsed /\ glate = NotUsed
       /\ guest = NotUsed /\ h = NotUsed /\ handoffs = NotUsed /\ header = NotUsed
       /\ job = NotUsed /\ journal = NotUsed /\ jrn = NotUsed /\ kills = NotUsed
       /\ late = NotUsed /\ links = NotUsed /\ litter = NotUsed /\ live = NotUsed
       /\ lock = NotUsed /\ login = NotUsed /\ next = NotUsed /\ nft = NotUsed
       /\ obs = NotUsed /\ op = NotUsed /\ owned = NotUsed /\ passed = NotUsed
       /\ plan = NotUsed /\ proc = NotUsed /\ proof = NotUsed /\ pub = NotUsed
       /\ queue = NotUsed /\ reboots = NotUsed /\ receipt = NotUsed
       /\ running = NotUsed /\ runs = NotUsed /\ sock = NotUsed /\ spent = NotUsed
       /\ ssh = NotUsed /\ sshd = NotUsed /\ staged = NotUsed /\ sys = NotUsed
       /\ tf = NotUsed /\ tfstate = NotUsed /\ timer = NotUsed /\ ts = NotUsed
       /\ tx = NotUsed /\ txLock = NotUsed /\ txn = NotUsed /\ unclean = NotUsed
       /\ undeleted = NotUsed /\ used = NotUsed /\ vm = NotUsed /\ why = NotUsed
       /\ window = NotUsed /\ worker = NotUsed
    \/ /\ focus = "cloud-final acceptance" /\ Harness!Init
       /\ adversity = NotUsed /\ arch = NotUsed /\ archived = NotUsed
       /\ at = NotUsed /\ auth = NotUsed /\ awaiting = NotUsed /\ boot = NotUsed
       /\ booting = NotUsed /\ changes = NotUsed /\ cloud = NotUsed /\ ctl = NotUsed
       /\ current = NotUsed /\ daemon = NotUsed /\ debris = NotUsed
       /\ disk = NotUsed /\ done = NotUsed /\ early = NotUsed /\ edits = NotUsed
       /\ fw = NotUsed /\ gens = NotUsed /\ glate = NotUsed /\ guest = NotUsed
       /\ handoffs = NotUsed /\ job = NotUsed /\ journal = NotUsed /\ jrn = NotUsed
       /\ kills = NotUsed /\ late = NotUsed /\ links = NotUsed /\ litter = NotUsed
       /\ live = NotUsed /\ lock = NotUsed /\ login = NotUsed /\ next = NotUsed
       /\ nft = NotUsed /\ op = NotUsed /\ plan = NotUsed /\ proc = NotUsed
       /\ proof = NotUsed /\ pub = NotUsed /\ queue = NotUsed /\ reboots = NotUsed
       /\ receipt = NotUsed /\ running = NotUsed /\ sock = NotUsed
       /\ spent = NotUsed /\ ssh = NotUsed /\ sshd = NotUsed /\ staged = NotUsed
       /\ sys = NotUsed /\ tf = NotUsed /\ tfstate = NotUsed /\ timer = NotUsed
       /\ ts = NotUsed /\ tx = NotUsed /\ txLock = NotUsed /\ txn = NotUsed
       /\ used = NotUsed /\ window = NotUsed /\ worker = NotUsed
    \/ /\ focus = "tailnet promotion" /\ Promotion!Init
       /\ adversity = NotUsed /\ arch = NotUsed /\ archived = NotUsed
       /\ at = NotUsed /\ attempt = NotUsed /\ attempted = NotUsed /\ auth = NotUsed
       /\ awaiting = NotUsed /\ barrier = NotUsed /\ boot = NotUsed
       /\ booting = NotUsed /\ boots = NotUsed /\ case = NotUsed
       /\ changes = NotUsed /\ current = NotUsed /\ cut = NotUsed
       /\ debris = NotUsed /\ dir = NotUsed /\ disk = NotUsed /\ done = NotUsed
       /\ early = NotUsed /\ edits = NotUsed /\ evidence = NotUsed
       /\ faults = NotUsed /\ file = NotUsed /\ fw = NotUsed /\ h = NotUsed
       /\ handoffs = NotUsed /\ header = NotUsed /\ job = NotUsed
       /\ journal = NotUsed /\ jrn = NotUsed /\ kills = NotUsed /\ links = NotUsed
       /\ litter = NotUsed /\ live = NotUsed /\ login = NotUsed /\ marker = NotUsed
       /\ next = NotUsed /\ nft = NotUsed /\ obs = NotUsed /\ op = NotUsed
       /\ owned = NotUsed /\ passed = NotUsed /\ pc = NotUsed /\ plan = NotUsed
       /\ proc = NotUsed /\ proof = NotUsed /\ pub = NotUsed /\ ran = NotUsed
       /\ reboots = NotUsed /\ residue = NotUsed /\ running = NotUsed
       /\ runs = NotUsed /\ snap = NotUsed /\ sock = NotUsed /\ ssh = NotUsed
       /\ sshd = NotUsed /\ staged = NotUsed /\ sys = NotUsed /\ timer = NotUsed
       /\ todo = NotUsed /\ torn = NotUsed /\ ts = NotUsed /\ tx = NotUsed
       /\ txLock = NotUsed /\ txn = NotUsed /\ unclean = NotUsed
       /\ undeleted = NotUsed /\ unit = NotUsed /\ used = NotUsed /\ vm = NotUsed
       /\ why = NotUsed /\ window = NotUsed /\ worker = NotUsed
    \/ /\ focus = "tailnet guest" /\ Guest!Init
       /\ adversity = NotUsed /\ arch = NotUsed /\ archived = NotUsed
       /\ at = NotUsed /\ attempt = NotUsed /\ attempted = NotUsed /\ auth = NotUsed
       /\ awaiting = NotUsed /\ barrier = NotUsed /\ boot = NotUsed
       /\ boots = NotUsed /\ case = NotUsed /\ changes = NotUsed /\ cloud = NotUsed
       /\ ctl = NotUsed /\ current = NotUsed /\ cut = NotUsed /\ daemon = NotUsed
       /\ dir = NotUsed /\ disk = NotUsed /\ done = NotUsed /\ early = NotUsed
       /\ edits = NotUsed /\ evidence = NotUsed /\ fw = NotUsed /\ gens = NotUsed
       /\ glate = NotUsed /\ guest = NotUsed /\ h = NotUsed /\ handoffs = NotUsed
       /\ header = NotUsed /\ job = NotUsed /\ journal = NotUsed /\ jrn = NotUsed
       /\ kills = NotUsed /\ links = NotUsed /\ litter = NotUsed /\ live = NotUsed
       /\ lock = NotUsed /\ login = NotUsed /\ marker = NotUsed /\ next = NotUsed
       /\ obs = NotUsed /\ owned = NotUsed /\ passed = NotUsed /\ pc = NotUsed
       /\ plan = NotUsed /\ proc = NotUsed /\ proof = NotUsed /\ pub = NotUsed
       /\ queue = NotUsed /\ ran = NotUsed /\ reboots = NotUsed /\ receipt = NotUsed
       /\ residue = NotUsed /\ running = NotUsed /\ runs = NotUsed /\ snap = NotUsed
       /\ sock = NotUsed /\ spent = NotUsed /\ ssh = NotUsed /\ sshd = NotUsed
       /\ staged = NotUsed /\ sys = NotUsed /\ tf = NotUsed /\ tfstate = NotUsed
       /\ timer = NotUsed /\ todo = NotUsed /\ torn = NotUsed /\ ts = NotUsed
       /\ tx = NotUsed /\ txLock = NotUsed /\ unclean = NotUsed
       /\ undeleted = NotUsed /\ unit = NotUsed /\ used = NotUsed /\ vm = NotUsed
       /\ why = NotUsed /\ window = NotUsed /\ worker = NotUsed
    \/ /\ focus = "tailnet enrollment" /\ Enrollment!Init
       /\ adversity = NotUsed /\ archived = NotUsed /\ at = NotUsed
       /\ attempt = NotUsed /\ attempted = NotUsed /\ awaiting = NotUsed
       /\ barrier = NotUsed /\ boot = NotUsed /\ booting = NotUsed
       /\ boots = NotUsed /\ case = NotUsed /\ changes = NotUsed /\ cloud = NotUsed
       /\ current = NotUsed /\ cut = NotUsed /\ daemon = NotUsed /\ debris = NotUsed
       /\ dir = NotUsed /\ disk = NotUsed /\ done = NotUsed /\ edits = NotUsed
       /\ evidence = NotUsed /\ file = NotUsed /\ gens = NotUsed /\ glate = NotUsed
       /\ guest = NotUsed /\ h = NotUsed /\ header = NotUsed /\ journal = NotUsed
       /\ links = NotUsed /\ live = NotUsed /\ lock = NotUsed /\ marker = NotUsed
       /\ next = NotUsed /\ nft = NotUsed /\ obs = NotUsed /\ op = NotUsed
       /\ owned = NotUsed /\ passed = NotUsed /\ pc = NotUsed /\ plan = NotUsed
       /\ proc = NotUsed /\ proof = NotUsed /\ pub = NotUsed /\ queue = NotUsed
       /\ ran = NotUsed /\ receipt = NotUsed /\ residue = NotUsed
       /\ running = NotUsed /\ runs = NotUsed /\ snap = NotUsed /\ spent = NotUsed
       /\ sshd = NotUsed /\ staged = NotUsed /\ sys = NotUsed /\ tf = NotUsed
       /\ tfstate = NotUsed /\ timer = NotUsed /\ todo = NotUsed /\ torn = NotUsed
       /\ tx = NotUsed /\ txLock = NotUsed /\ txn = NotUsed /\ unclean = NotUsed
       /\ undeleted = NotUsed /\ unit = NotUsed /\ vm = NotUsed /\ why = NotUsed
       /\ window = NotUsed /\ worker = NotUsed

SshNext ==
    /\ focus = "ssh change" /\ Ssh!Next
    /\ UNCHANGED <<focus, arch, at, attempt, attempted, auth, barrier, booting, boots, case, changes, cloud, ctl,
                     current, cut, daemon, debris, dir, done, early, evidence, faults,
                     file, fw, gens, glate, guest, h, handoffs, header, journal, jrn,
                     kills, links, litter, live, lock, login, next, nft, obs, op, owned,
                     passed, pc, plan, proc, proof, pub, queue, ran, reboots, receipt,
                     residue, runs, snap, sock, spent, ssh, staged, sys, tf, tfstate,
                     todo, torn, ts, tx, txLock, unclean, undeleted, unit, used, vm,
                     why, worker>>

PlanNext ==
    /\ focus = "sshd plan" /\ Plan!Next
    /\ UNCHANGED <<focus, adversity, arch, archived, attempt, attempted, auth, awaiting, barrier, boot, booting,
                     boots, case, changes, cloud, ctl, current, cut, daemon, debris,
                     dir, disk, early, evidence, file, fw, gens, glate, guest, h,
                     handoffs, header, job, journal, jrn, kills, late, links, litter,
                     lock, login, marker, next, nft, obs, op, owned, passed, proc,
                     proof, pub, queue, ran, reboots, receipt, residue, running, runs,
                     snap, sock, spent, ssh, sshd, staged, sys, tf, tfstate, timer,
                     todo, torn, ts, tx, txLock, txn, unclean, undeleted, unit, used,
                     vm, why, window, worker>>

BundleNext ==
    /\ focus = "sshd bundle" /\ Bundle!Next
    /\ UNCHANGED <<focus, adversity, arch, archived, at, attempt, attempted, auth, awaiting, barrier, boot,
                     booting, boots, case, cloud, ctl, cut, daemon, debris, dir, disk,
                     done, early, edits, evidence, file, fw, glate, guest, h, handoffs,
                     header, job, jrn, kills, late, litter, live, lock, login, marker,
                     nft, obs, op, owned, passed, pc, plan, queue, ran, reboots,
                     receipt, residue, running, runs, snap, sock, spent, sshd, tf,
                     tfstate, timer, todo, torn, ts, txn, unclean, undeleted, unit,
                     used, vm, why, window>>

FirstBootNext ==
    /\ focus = "first boot" /\ FirstBoot!GuestNext
    /\ UNCHANGED <<focus, adversity, arch, archived, at, attempt, auth, awaiting, barrier, boot, booting, case,
                     changes, cloud, ctl, current, cut, daemon, debris, dir, disk, done,
                     early, edits, evidence, fw, gens, glate, guest, h, handoffs,
                     header, job, journal, jrn, kills, late, links, litter, live, lock,
                     login, next, nft, obs, op, owned, passed, plan, proc, proof, pub,
                     queue, reboots, receipt, running, runs, sock, spent, ssh, sshd,
                     staged, sys, tf, tfstate, timer, ts, tx, txLock, txn, unclean,
                     undeleted, used, vm, why, window, worker>>

HarnessNext ==
    /\ focus = "cloud-final acceptance" /\ Harness!Next
    /\ UNCHANGED <<focus, adversity, arch, archived, at, auth, awaiting, boot, booting, changes, cloud, ctl,
                     current, daemon, debris, disk, done, early, edits, fw, gens, glate,
                     guest, handoffs, job, journal, jrn, kills, late, links, litter,
                     live, lock, login, next, nft, op, plan, proc, proof, pub, queue,
                     reboots, receipt, running, sock, spent, ssh, sshd, staged, sys, tf,
                     tfstate, timer, ts, tx, txLock, txn, used, window, worker>>

PromotionNext ==
    /\ focus = "tailnet promotion" /\ Promotion!Next
    /\ UNCHANGED <<focus, adversity, arch, archived, at, attempt, attempted, auth, awaiting, barrier, boot,
                     booting, boots, case, changes, current, cut, debris, dir, disk,
                     done, early, edits, evidence, faults, file, fw, h, handoffs,
                     header, job, journal, jrn, kills, links, litter, live, login,
                     marker, next, nft, obs, op, owned, passed, pc, plan, proc, proof,
                     pub, ran, reboots, residue, running, runs, snap, sock, ssh, sshd,
                     staged, sys, timer, todo, torn, ts, tx, txLock, txn, unclean,
                     undeleted, unit, used, vm, why, window, worker>>

GuestNext ==
    /\ focus = "tailnet guest" /\ Guest!Next
    /\ UNCHANGED <<focus, adversity, arch, archived, at, attempt, attempted, auth, awaiting, barrier, boot, boots,
                     case, changes, cloud, ctl, current, cut, daemon, dir, disk, done,
                     early, edits, evidence, fw, gens, glate, guest, h, handoffs,
                     header, job, journal, jrn, kills, links, litter, live, lock, login,
                     marker, next, obs, owned, passed, pc, plan, proc, proof, pub,
                     queue, ran, reboots, receipt, residue, running, runs, snap, sock,
                     spent, ssh, sshd, staged, sys, tf, tfstate, timer, todo, torn, ts,
                     tx, txLock, unclean, undeleted, unit, used, vm, why, window, worker>>

EnrollmentNext ==
    /\ focus = "tailnet enrollment" /\ Enrollment!Next
    /\ UNCHANGED <<focus, adversity, archived, at, attempt, attempted, awaiting, barrier, boot, booting, boots,
                     case, changes, cloud, current, cut, daemon, debris, dir, disk,
                     done, edits, evidence, file, gens, glate, guest, h, header,
                     journal, links, live, lock, marker, next, nft, obs, op, owned,
                     passed, pc, plan, proc, proof, pub, queue, ran, receipt, residue,
                     running, runs, snap, spent, sshd, staged, sys, tf, tfstate, timer,
                     todo, torn, tx, txLock, txn, unclean, undeleted, unit, vm, why,
                     window, worker>>

Next == SshNext \/ PlanNext \/ BundleNext \/ FirstBootNext \/ HarnessNext \/
        PromotionNext \/ GuestNext \/ EnrollmentNext

Spec == Init /\ [][Next]_vars

-----------------------------------------------------------------------------
(* The way in stays open to the operator and closed to others. Plan:       *)
(* wherever the work is cut off sshd starts and does what it did, and a    *)
(* committed plan can be planned again. Package: a change runs the         *)
(* selected generation, whatever is undecided can be undone by what the    *)
(* next boot starts, and the run at boot is not refused. First boot: the   *)
(* marker stands for a served policy, a refused chain leaves the fragments *)
(* as found, and no step allows password logins that were refused.         *)
(* Acceptance: evidence says what was observed, and the profile is         *)
(* released.                                                               *)
WayInKept ==
    /\ focus = "ssh change" => Ssh!TypeOK
    /\ focus = "sshd plan" =>
           Plan!TypeOK /\ Plan!PolicyStable /\ Plan!AlwaysStarts /\ Plan!OwnedOnce
           /\ Plan!BaselineAgain
    /\ focus = "sshd bundle" =>
           Bundle!TypeOK /\ Bundle!ChangeRunsSelected /\ Bundle!AlwaysRecoverable
           /\ Bundle!ListenerReturns
    /\ focus = "first boot" =>
           FirstBoot!TypeOK /\ FirstBoot!MarkerServes /\ FirstBoot!RefusedExactly
           /\ FirstBoot!NeverOpens
    /\ focus = "cloud-final acceptance" =>
           Harness!TypeOK /\ Harness!AcceptedIsProven /\ Harness!ProfileReleased

(* The tailnet is never open on its own. Promotion: a firewall that is on  *)
(* has a lease the daemon will roll back or a committed guest, a lease is  *)
(* given up for good only with a committed guest transaction, and a        *)
(* controller that failed before arming leaves no daemon. Guest: a         *)
(* decision holds in the kernel too. Enrollment: ssh answers with an       *)
(* identity only behind the management rules, without a journal nothing is *)
(* half enrolled, and a published handoff names a committed transaction.   *)
TailnetGuarded ==
    /\ focus = "tailnet promotion" =>
           Promotion!TypeOK /\ Promotion!GuardedWhileOpen /\ Promotion!CommitNeedsGuest
           /\ Promotion!UnarmedReaped
    /\ focus = "tailnet guest" => Guest!TypeOK /\ Guest!Settled
    /\ focus = "tailnet enrollment" =>
           Enrollment!TypeOK /\ Enrollment!GuardedIdentity /\ Enrollment!Accounted
           /\ Enrollment!HandoffTrue

(* What a step may never do. Promotion: the way back is taken in order,    *)
(* provider, guest, lease. Guest: a boot never loads a candidate nobody    *)
(* confirmed. Guest and first boot: what somebody else wrote is not        *)
(* overwritten. Enrollment: a confirmed publication is not taken back.     *)
OrderlySteps ==
    [][ /\ focus = "tailnet promotion" => Promotion!UnwindOrder
        /\ focus = "tailnet guest" => Guest!BootsConfirmedOnly /\ Guest!ForeignKept
        /\ focus = "first boot" => FirstBoot!ForeignKept
        /\ focus = "tailnet enrollment" => Enrollment!CommitStands ]_vars

(* Two refinements. The firewall helper with its steps, kills and reboots  *)
(* implements GuestPromise, what the promotion builds on. With /etc/ssh    *)
(* left alone by others, the journal, the file by file publication, the    *)
(* reloads, the recovery units and every crash between them implement      *)
(* SshdGuard: trials accepted or dropped as a whole.                       *)
KeepsPromise ==
    /\ focus = "tailnet guest" => Guest!PromiseStart
    /\ focus = "ssh change" => Ssh!PromiseStart
    /\ [][/\ focus = "tailnet guest" => Guest!PromiseStep
          /\ focus = "ssh change" => Ssh!PromiseStep]_vars

=============================================================================
