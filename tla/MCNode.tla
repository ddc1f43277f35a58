---------- MODULE MCNode ----------
(* What a node publishes, builds and retains: geodata, nginx sites and     *)
(* certificates, releases, the alert sender and its queue, build receipts  *)
(* and the build guardian. The components share no state, so a behaviour   *)
(* follows one of them, with the bounds of its instance.                   *)
EXTENDS Integers, Sequences, FiniteSets, TLC

CONSTANTS NotUsed,   \* the value of a variable the followed component does not have
          NoValue, NoSender, Empty, x1, x2, y1, y2

VARIABLES focus,   \* the component this behaviour follows
          accepted, adverse, asked, b, backup, bak, bres, bs, c, capture, changes, cmd, cs, desc,
          detached, doom, enabled, facts, faults, file, files, ids, ingroup, issuer, jn,
          job, kills, lease, left, links, live, lock, lost, made, nginx, orig, outer,
          pc, pend, pending, primary, queue, receipt, release, roll, rolled, run, s,
          saved, sb, sc, sel, sets, sexit, site, sres, stage, staging, startup, tmp,
          todo, tx, unit, want, xray

vars == <<focus, accepted, adverse, asked, b, backup, bak, bres, bs, c, capture, changes, cmd, cs, desc,
          detached, doom, enabled, facts, faults, file, files, ids, ingroup, issuer, jn,
          job, kills, lease, left, links, live, lock, lost, made, nginx, orig, outer,
          pc, pend, pending, primary, queue, receipt, release, roll, rolled, run, s,
          saved, sb, sc, sel, sets, sexit, site, sres, stage, staging, startup, tmp,
          todo, tx, unit, want, xray>>

Symmetry == Permutations({x1, x2}) \cup Permutations({y1, y2})

Geodata == INSTANCE GeodataPublication WITH
    Gens <- {1, 2}, Pin <- 2, MaxFaults <- 2, Cuts <- TRUE
Site == INSTANCE NginxTransaction WITH
    Owners <- {"xhttp", "tls"}, SiteOwners <- {"xhttp", "tls"},
    PathsOf <- [xhttp |-> {"conf", "link"}, tls |-> {"cert"}], Tls <- "tls", Versions <- {1},
    Revocations <- {"none"}, Ops <- {"publish", "begin", "restore", "commit", "recover_commit"},
    TimerEnabled <- TRUE, MaxFaults <- 1
Issuer == INSTANCE NginxTransaction WITH
    Owners <- {"tls", "cdn"}, SiteOwners <- {"tls"},
    PathsOf <- [tls |-> {"cert"}, cdn |-> {"front"}], Tls <- "tls", Versions <- {1},
    Revocations <- {"none"},
    Ops <- {"publish", "begin", "restore", "commit", "recover_commit", "issue", "renew", "retire"},
    TimerEnabled <- TRUE, MaxFaults <- 1
Release == INSTANCE ReleaseActivation WITH
    Controllers <- {x1, x2}, Versions <- {1, 2}, Pins <- {10, 11}, MaxAdverse <- 2,
    None <- NoValue
Sender == INSTANCE SenderQueue WITH
    Versions <- {x1, x2}, Entries <- {y1, y2}, Contents <- {y1, y2},
    Faults <- {"kill", "reboot", "refuse", "unready", "crash", "stop"}, MaxFault <- 2,
    Gone <- NoSender, None <- NoValue
Build == INSTANCE BuildReceipt WITH
    Outs <- 2, Srcs <- {1, 2}, MaxTx <- 3, MaxFaults <- 2, MaxChanges <- 2,
    Reproducible <- TRUE, KillEarly <- TRUE, Drifts <- TRUE
Unique == INSTANCE BuildReceipt WITH
    Outs <- 2, Srcs <- {1, 2}, MaxTx <- 3, MaxFaults <- 2, MaxChanges <- 2,
    Reproducible <- FALSE, KillEarly <- TRUE, Drifts <- TRUE
Guardian == INSTANCE BuildGuardian WITH
    Killable <- {"C", "S", "B"}, MaxKills <- 3, SlowStart <- TRUE

(* The constants are within the assumptions of the components.             *)
ASSUME ConstantsAssumption ==
    /\ Site!OwnersAssumption
    /\ Issuer!OwnersAssumption
    /\ Release!ReleaseAssumption
    /\ Sender!SenderAssumption

(* The first state of a behaviour picks the component and is an initial    *)
(* state of it.                                                            *)
Init ==
    \/ /\ focus = "geodata" /\ Geodata!Init
       /\ accepted = NotUsed /\ adverse = NotUsed /\ asked = NotUsed /\ b = NotUsed
       /\ backup = NotUsed /\ bak = NotUsed /\ bres = NotUsed /\ bs = NotUsed
       /\ c = NotUsed /\ capture = NotUsed /\ changes = NotUsed /\ cmd = NotUsed
       /\ cs = NotUsed /\ desc = NotUsed /\ detached = NotUsed /\ doom = NotUsed
       /\ enabled = NotUsed /\ facts = NotUsed /\ file = NotUsed /\ ids = NotUsed
       /\ ingroup = NotUsed /\ issuer = NotUsed /\ jn = NotUsed /\ job = NotUsed
       /\ kills = NotUsed /\ lease = NotUsed /\ left = NotUsed /\ links = NotUsed
       /\ live = NotUsed /\ lock = NotUsed /\ lost = NotUsed /\ made = NotUsed
       /\ nginx = NotUsed /\ orig = NotUsed /\ outer = NotUsed /\ pc = NotUsed
       /\ pending = NotUsed /\ primary = NotUsed /\ queue = NotUsed
       /\ release = NotUsed /\ roll = NotUsed /\ rolled = NotUsed /\ s = NotUsed
       /\ saved = NotUsed /\ sb = NotUsed /\ sc = NotUsed /\ sel = NotUsed
       /\ sexit = NotUsed /\ site = NotUsed /\ sres = NotUsed /\ stage = NotUsed
       /\ staging = NotUsed /\ startup = NotUsed /\ tmp = NotUsed /\ todo = NotUsed
       /\ tx = NotUsed /\ unit = NotUsed /\ want = NotUsed
    \/ /\ focus = "nginx site" /\ Site!Init
       /\ accepted = NotUsed /\ adverse = NotUsed /\ asked = NotUsed /\ b = NotUsed
       /\ backup = NotUsed /\ bak = NotUsed /\ bres = NotUsed /\ bs = NotUsed
       /\ c = NotUsed /\ capture = NotUsed /\ changes = NotUsed /\ cmd = NotUsed
       /\ cs = NotUsed /\ desc = NotUsed /\ detached = NotUsed /\ doom = NotUsed
       /\ files = NotUsed /\ ids = NotUsed /\ ingroup = NotUsed /\ jn = NotUsed
       /\ kills = NotUsed /\ links = NotUsed /\ live = NotUsed /\ lock = NotUsed
       /\ lost = NotUsed /\ made = NotUsed /\ orig = NotUsed /\ pend = NotUsed
       /\ primary = NotUsed /\ queue = NotUsed /\ release = NotUsed
       /\ roll = NotUsed /\ rolled = NotUsed /\ run = NotUsed /\ s = NotUsed
       /\ saved = NotUsed /\ sb = NotUsed /\ sc = NotUsed /\ sel = NotUsed
       /\ sets = NotUsed /\ sexit = NotUsed /\ sres = NotUsed /\ stage = NotUsed
       /\ staging = NotUsed /\ startup = NotUsed /\ tmp = NotUsed /\ todo = NotUsed
       /\ tx = NotUsed /\ unit = NotUsed /\ want = NotUsed /\ xray = NotUsed
    \/ /\ focus = "certificate issuer" /\ Issuer!Init
       /\ accepted = NotUsed /\ adverse = NotUsed /\ asked = NotUsed /\ b = NotUsed
       /\ backup = NotUsed /\ bak = NotUsed /\ bres = NotUsed /\ bs = NotUsed
       /\ c = NotUsed /\ capture = NotUsed /\ changes = NotUsed /\ cmd = NotUsed
       /\ cs = NotUsed /\ desc = NotUsed /\ detached = NotUsed /\ doom = NotUsed
       /\ files = NotUsed /\ ids = NotUsed /\ ingroup = NotUsed /\ jn = NotUsed
       /\ kills = NotUsed /\ links = NotUsed /\ live = NotUsed /\ lock = NotUsed
       /\ lost = NotUsed /\ made = NotUsed /\ orig = NotUsed /\ pend = NotUsed
       /\ primary = NotUsed /\ queue = NotUsed /\ release = NotUsed
       /\ roll = NotUsed /\ rolled = NotUsed /\ run = NotUsed /\ s = NotUsed
       /\ saved = NotUsed /\ sb = NotUsed /\ sc = NotUsed /\ sel = NotUsed
       /\ sets = NotUsed /\ sexit = NotUsed /\ sres = NotUsed /\ stage = NotUsed
       /\ staging = NotUsed /\ startup = NotUsed /\ tmp = NotUsed /\ todo = NotUsed
       /\ tx = NotUsed /\ unit = NotUsed /\ want = NotUsed /\ xray = NotUsed
    \/ /\ focus = "release" /\ Release!Init
       /\ accepted = NotUsed /\ asked = NotUsed /\ b = NotUsed /\ backup = NotUsed
       /\ bak = NotUsed /\ bres = NotUsed /\ bs = NotUsed /\ c = NotUsed
       /\ capture = NotUsed /\ changes = NotUsed /\ cmd = NotUsed /\ cs = NotUsed
       /\ desc = NotUsed /\ detached = NotUsed /\ doom = NotUsed
       /\ enabled = NotUsed /\ facts = NotUsed /\ faults = NotUsed /\ file = NotUsed
       /\ files = NotUsed /\ ids = NotUsed /\ ingroup = NotUsed /\ issuer = NotUsed
       /\ jn = NotUsed /\ kills = NotUsed /\ lease = NotUsed /\ left = NotUsed
       /\ live = NotUsed /\ lost = NotUsed /\ made = NotUsed /\ nginx = NotUsed
       /\ orig = NotUsed /\ outer = NotUsed /\ pc = NotUsed /\ pend = NotUsed
       /\ pending = NotUsed /\ primary = NotUsed /\ queue = NotUsed
       /\ receipt = NotUsed /\ roll = NotUsed /\ rolled = NotUsed /\ run = NotUsed
       /\ s = NotUsed /\ saved = NotUsed /\ sb = NotUsed /\ sc = NotUsed
       /\ sel = NotUsed /\ sets = NotUsed /\ sexit = NotUsed /\ site = NotUsed
       /\ sres = NotUsed /\ stage = NotUsed /\ startup = NotUsed /\ tmp = NotUsed
       /\ todo = NotUsed /\ tx = NotUsed /\ unit = NotUsed /\ want = NotUsed
       /\ xray = NotUsed
    \/ /\ focus = "sender" /\ Sender!Init
       /\ adverse = NotUsed /\ asked = NotUsed /\ b = NotUsed /\ bak = NotUsed
       /\ bres = NotUsed /\ bs = NotUsed /\ c = NotUsed /\ changes = NotUsed
       /\ cmd = NotUsed /\ cs = NotUsed /\ desc = NotUsed /\ detached = NotUsed
       /\ doom = NotUsed /\ enabled = NotUsed /\ facts = NotUsed /\ file = NotUsed
       /\ files = NotUsed /\ ids = NotUsed /\ ingroup = NotUsed /\ issuer = NotUsed
       /\ jn = NotUsed /\ job = NotUsed /\ kills = NotUsed /\ lease = NotUsed
       /\ left = NotUsed /\ links = NotUsed /\ live = NotUsed /\ lock = NotUsed
       /\ lost = NotUsed /\ made = NotUsed /\ nginx = NotUsed /\ outer = NotUsed
       /\ pc = NotUsed /\ pend = NotUsed /\ primary = NotUsed /\ receipt = NotUsed
       /\ release = NotUsed /\ roll = NotUsed /\ run = NotUsed /\ s = NotUsed
       /\ sb = NotUsed /\ sc = NotUsed /\ sets = NotUsed /\ sexit = NotUsed
       /\ site = NotUsed /\ sres = NotUsed /\ staging = NotUsed /\ tmp = NotUsed
       /\ tx = NotUsed /\ xray = NotUsed
    \/ /\ focus = "build receipt" /\ Build!Init
       /\ accepted = NotUsed /\ adverse = NotUsed /\ asked = NotUsed /\ b = NotUsed
       /\ backup = NotUsed /\ bres = NotUsed /\ bs = NotUsed /\ c = NotUsed
       /\ capture = NotUsed /\ cmd = NotUsed /\ cs = NotUsed /\ desc = NotUsed
       /\ detached = NotUsed /\ doom = NotUsed /\ enabled = NotUsed
       /\ facts = NotUsed /\ file = NotUsed /\ files = NotUsed /\ ingroup = NotUsed
       /\ issuer = NotUsed /\ job = NotUsed /\ kills = NotUsed /\ lease = NotUsed
       /\ left = NotUsed /\ links = NotUsed /\ lock = NotUsed /\ nginx = NotUsed
       /\ orig = NotUsed /\ outer = NotUsed /\ pc = NotUsed /\ pend = NotUsed
       /\ pending = NotUsed /\ primary = NotUsed /\ queue = NotUsed
       /\ release = NotUsed /\ rolled = NotUsed /\ s = NotUsed /\ saved = NotUsed
       /\ sb = NotUsed /\ sc = NotUsed /\ sel = NotUsed /\ sets = NotUsed
       /\ sexit = NotUsed /\ site = NotUsed /\ sres = NotUsed /\ stage = NotUsed
       /\ staging = NotUsed /\ startup = NotUsed /\ todo = NotUsed /\ unit = NotUsed
       /\ xray = NotUsed
    \/ /\ focus = "unique builds" /\ Unique!Init
       /\ accepted = NotUsed /\ adverse = NotUsed /\ asked = NotUsed /\ b = NotUsed
       /\ backup = NotUsed /\ bres = NotUsed /\ bs = NotUsed /\ c = NotUsed
       /\ capture = NotUsed /\ cmd = NotUsed /\ cs = NotUsed /\ desc = NotUsed
       /\ detached = NotUsed /\ doom = NotUsed /\ enabled = NotUsed
       /\ facts = NotUsed /\ file = NotUsed /\ files = NotUsed /\ ingroup = NotUsed
       /\ issuer = NotUsed /\ job = NotUsed /\ kills = NotUsed /\ lease = NotUsed
       /\ left = NotUsed /\ links = NotUsed /\ lock = NotUsed /\ nginx = NotUsed
       /\ orig = NotUsed /\ outer = NotUsed /\ pc = NotUsed /\ pend = NotUsed
       /\ pending = NotUsed /\ primary = NotUsed /\ queue = NotUsed
       /\ release = NotUsed /\ rolled = NotUsed /\ s = NotUsed /\ saved = NotUsed
       /\ sb = NotUsed /\ sc = NotUsed /\ sel = NotUsed /\ sets = NotUsed
       /\ sexit = NotUsed /\ site = NotUsed /\ sres = NotUsed /\ stage = NotUsed
       /\ staging = NotUsed /\ startup = NotUsed /\ todo = NotUsed /\ unit = NotUsed
       /\ xray = NotUsed
    \/ /\ focus = "build guardian" /\ Guardian!Init
       /\ accepted = NotUsed /\ adverse = NotUsed /\ backup = NotUsed
       /\ bak = NotUsed /\ capture = NotUsed /\ changes = NotUsed
       /\ enabled = NotUsed /\ facts = NotUsed /\ faults = NotUsed /\ file = NotUsed
       /\ files = NotUsed /\ ids = NotUsed /\ issuer = NotUsed /\ jn = NotUsed
       /\ job = NotUsed /\ lease = NotUsed /\ left = NotUsed /\ links = NotUsed
       /\ live = NotUsed /\ lock = NotUsed /\ lost = NotUsed /\ made = NotUsed
       /\ nginx = NotUsed /\ orig = NotUsed /\ outer = NotUsed /\ pc = NotUsed
       /\ pend = NotUsed /\ pending = NotUsed /\ queue = NotUsed
       /\ receipt = NotUsed /\ release = NotUsed /\ roll = NotUsed
       /\ rolled = NotUsed /\ run = NotUsed /\ saved = NotUsed /\ sel = NotUsed
       /\ sets = NotUsed /\ site = NotUsed /\ stage = NotUsed /\ staging = NotUsed
       /\ startup = NotUsed /\ tmp = NotUsed /\ todo = NotUsed /\ tx = NotUsed
       /\ unit = NotUsed /\ want = NotUsed /\ xray = NotUsed

GeodataNext ==
    /\ focus = "geodata" /\ Geodata!Next
    /\ UNCHANGED <<focus, accepted, adverse, asked, b, backup, bak, bres, bs, c, capture, changes, cmd, cs, desc,
                     detached, doom, enabled, facts, file, ids, ingroup, issuer, jn,
                     job, kills, lease, left, links, live, lock, lost, made, nginx,
                     orig, outer, pc, pending, primary, queue, release, roll, rolled, s,
                     saved, sb, sc, sel, sexit, site, sres, stage, staging, startup,
                     tmp, todo, tx, unit, want>>

SiteNext ==
    /\ focus = "nginx site" /\ Site!Next
    /\ UNCHANGED <<focus, accepted, adverse, asked, b, backup, bak, bres, bs, c, capture, changes, cmd, cs, desc,
                     detached, doom, files, ids, ingroup, jn, kills, links, live, lock,
                     lost, made, orig, pend, primary, queue, release, roll, rolled, run,
                     s, saved, sb, sc, sel, sets, sexit, sres, stage, staging, startup,
                     tmp, todo, tx, unit, want, xray>>

IssuerNext ==
    /\ focus = "certificate issuer" /\ Issuer!Next
    /\ UNCHANGED <<focus, accepted, adverse, asked, b, backup, bak, bres, bs, c, capture, changes, cmd, cs, desc,
                     detached, doom, files, ids, ingroup, jn, kills, links, live, lock,
                     lost, made, orig, pend, primary, queue, release, roll, rolled, run,
                     s, saved, sb, sc, sel, sets, sexit, sres, stage, staging, startup,
                     tmp, todo, tx, unit, want, xray>>

ReleaseNext ==
    /\ focus = "release" /\ Release!Next
    /\ UNCHANGED <<focus, accepted, asked, b, backup, bak, bres, bs, c, capture, changes, cmd, cs, desc, detached,
                     doom, enabled, facts, faults, file, files, ids, ingroup, issuer,
                     jn, kills, lease, left, live, lost, made, nginx, orig, outer, pc,
                     pend, pending, primary, queue, receipt, roll, rolled, run, s,
                     saved, sb, sc, sel, sets, sexit, site, sres, stage, startup, tmp,
                     todo, tx, unit, want, xray>>

SenderNext ==
    /\ focus = "sender" /\ Sender!Next
    /\ UNCHANGED <<focus, adverse, asked, b, bak, bres, bs, c, changes, cmd, cs, desc, detached, doom, enabled,
                     facts, file, files, ids, ingroup, issuer, jn, job, kills, lease,
                     left, links, live, lock, lost, made, nginx, outer, pc, pend,
                     primary, receipt, release, roll, run, s, sb, sc, sets, sexit, site,
                     sres, staging, tmp, tx, xray>>

BuildNext ==
    /\ focus = "build receipt" /\ Build!Next
    /\ UNCHANGED <<focus, accepted, adverse, asked, b, backup, bres, bs, c, capture, cmd, cs, desc, detached,
                     doom, enabled, facts, file, files, ingroup, issuer, job, kills,
                     lease, left, links, lock, nginx, orig, outer, pc, pend, pending,
                     primary, queue, release, rolled, s, saved, sb, sc, sel, sets,
                     sexit, site, sres, stage, staging, startup, todo, unit, xray>>

UniqueNext ==
    /\ focus = "unique builds" /\ Unique!Next
    /\ UNCHANGED <<focus, accepted, adverse, asked, b, backup, bres, bs, c, capture, cmd, cs, desc, detached,
                     doom, enabled, facts, file, files, ingroup, issuer, job, kills,
                     lease, left, links, lock, nginx, orig, outer, pc, pend, pending,
                     primary, queue, release, rolled, s, saved, sb, sc, sel, sets,
                     sexit, site, sres, stage, staging, startup, todo, unit, xray>>

GuardianNext ==
    /\ focus = "build guardian" /\ Guardian!Next
    /\ UNCHANGED <<focus, accepted, adverse, backup, bak, capture, changes, enabled, facts, faults, file, files,
                     ids, issuer, jn, job, lease, left, links, live, lock, lost, made,
                     nginx, orig, outer, pc, pend, pending, queue, receipt, release,
                     roll, rolled, run, saved, sel, sets, site, stage, staging, startup,
                     tmp, todo, tx, unit, want, xray>>

Next == GeodataNext \/ SiteNext \/ IssuerNext \/ ReleaseNext \/ SenderNext \/
        BuildNext \/ UniqueNext \/ GuardianNext

Spec == Init /\ [][Next]_vars

-----------------------------------------------------------------------------
(* What is published is whole, whoever died meanwhile. Geodata: once       *)
(* settled the two files are one generation and a running Xray has opened  *)
(* exactly them, and a complete pair can be had at every moment. Sites and *)
(* certificates: outside a publication the files are those the receipt     *)
(* names and nginx serves them, and no state a dead run leaves is refused  *)
(* as foreign later. Releases: the selected ones are complete, and a       *)
(* failed activation puts back exactly the links it found.                 *)
PublishedWhole ==
    /\ focus = "geodata" =>
           Geodata!TypeOK /\ Geodata!SettledWhole /\ Geodata!PairKept
    /\ focus = "nginx site" =>
           Site!TypeOK /\ Site!ReceiptIsServed /\ Site!NeverForeign
    /\ focus = "certificate issuer" => Issuer!TypeOK /\ Issuer!NeverForeign
    /\ focus = "release" =>
           Release!TypeOK /\ Release!SelectedComplete /\ Release!CompensationExact

(* What is built and retained survives its publisher. Sender: until it is  *)
(* given back, the old queue is live and untouched or held complete by a   *)
(* snapshot; backup, stage and live queue never form three copies; only    *)
(* what was not committed is rewound. Builds: outputs are installed all or *)
(* none, a closed journal leaves those of the receipt, and a reported      *)
(* success has installed what was asked for. Guardian: a step accepted, or *)
(* reported as failed, has left no process.                                *)
BuildsAndQueueKept ==
    /\ focus = "sender" =>
           Sender!TypeOK /\ Sender!Recoverable /\ Sender!AtMostTwoCopies
           /\ Sender!RewindsOnlyUncommitted
    /\ focus = "build receipt" =>
           Build!TypeOK /\ Build!AllOrNothing /\ Build!ReportsTruth
    /\ focus = "unique builds" =>
           Unique!TypeOK /\ Unique!AllOrNothing /\ Unique!Settled
           /\ Unique!ReportsTruth
    /\ focus = "build guardian" =>
           Guardian!TypeOK /\ Guardian!AcceptedIsQuiet /\ Guardian!FailedIsQuiet

(* What a step may never do. Sites: a publication and a deployment end as  *)
(* a whole, and while a certificate request may still run no other writer  *)
(* moves anything. Releases: who commits finds its own pin selected.       *)
(* Sender: a snapshot is called restored only when the live queue is the   *)
(* captured one.                                                           *)
WholeSteps ==
    [][ /\ focus = "nginx site" => Site!PublicationIsWhole /\ Site!DeploymentIsWhole
        /\ focus = "certificate issuer" =>
               Issuer!PublicationIsWhole /\ Issuer!DeploymentIsWhole
               /\ Issuer!IssuerUndisturbed
        /\ focus = "release" => Release!CommitsOwnPin
        /\ focus = "sender" => Sender!RestoredExactly ]_vars

=============================================================================
