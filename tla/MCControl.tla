---------- MODULE MCControl ----------
(* What an operator's machine drives: fleet maintenance, device            *)
(* operations, deployments, the task portfolio, disposable clients and the *)
(* sentinel. The components share no state, so a behaviour follows one of  *)
(* them, with the bounds of its instance.                                  *)
EXTENDS Integers, Sequences, FiniteSets, TLC

CONSTANTS NotUsed,   \* the value of a variable the followed component does not have
          NoValue, p1, p2, n1, n2, h1, h2

VARIABLES focus,   \* the component this behaviour follows
          adverse, approved, apv, ctl, cut, deo, deployed, doc, done, drawn, edits, eng, expired,
          faults, file, foreign, host, issuer, job, journal, kills, last, links, log,
          made, main, manifest, masters, out, output, pending, prep, queued, record,
          reg, report, ret, rev, room, route, run, runs, runtime, sinks, sops, stops,
          target, touched, tree, valid, vm, vmgen, worker

vars == <<focus, adverse, approved, apv, ctl, cut, deo, deployed, doc, done, drawn, edits, eng, expired,
          faults, file, foreign, host, issuer, job, journal, kills, last, links, log,
          made, main, manifest, masters, out, output, pending, prep, queued, record,
          reg, report, ret, rev, room, route, run, runs, runtime, sinks, sops, stops,
          target, touched, tree, valid, vm, vmgen, worker>>



Plan == INSTANCE FleetMaintenance WITH
    Plans <- {p1}, Node <- {n1, n2}, NodesOf <- (p1 :> <<n1, n2>>), Dirs <- {1, 2, 3},
    MaxAdverse <- 1,
    None <- NoValue
Plans == INSTANCE FleetMaintenance WITH
    Plans <- {p1, p2}, Node <- {n2}, NodesOf <- (p1 :> <<n2>>) @@ (p2 :> <<n2>>), Dirs <- {1},
    MaxAdverse <- 0,
    None <- NoValue
Device == INSTANCE DeviceLifecycle WITH
    Hosts <- {h1, h2}, Publishers <- {h1}, Ops <- {"issue", "refresh", "file", "revoke"},
    ActionOf <- [issue |-> "issue", refresh |-> "refresh", file |-> "refresh", revoke |-> "revoke"],
    JournalAt <- [issue |-> h1, refresh |-> h2, file |-> h2, revoke |-> h2],
    Delivery <- {h1}, Native <- {"file"}, MaxForeign <- 1, MaxStops <- 1,
    None <- NoValue
Deploy == INSTANCE DeployController WITH
    Hosts <- <<"a", "b">>, MaxEdits <- 1, MaxRuns <- 2, MaxFaults <- 1, MaxTries <- 2
Change == INSTANCE TaskLifecycle WITH
    Tasks <- {"spec"}, Required <- {"spec"}, Initial <- {"spec"}, Worked <- {"spec"},
    Blockers <- [t \in {"spec"} |-> {}], Related <- [t \in {"spec"} |-> {}],
    MaxSteps <- 1, MaxCommits <- 5, MaxKills <- 1
Pair == INSTANCE TaskLifecycle WITH
    Tasks <- {"plain", "owner"}, Required <- {}, Initial <- {"plain", "owner"}, Worked <- {"plain"},
    Blockers <- [plain |-> {}, owner |-> {}], Related <- [plain |-> {}, owner |-> {"plain"}],
    MaxSteps <- 1, MaxCommits <- 6, MaxKills <- 0
Fresh == INSTANCE TaskLifecycle WITH
    Tasks <- {"spec"}, Required <- {"spec"}, Initial <- {}, Worked <- {"spec"},
    Blockers <- [t \in {"spec"} |-> {}], Related <- [t \in {"spec"} |-> {}],
    MaxSteps <- 1, MaxCommits <- 6, MaxKills <- 0
Client == INSTANCE DisposableClient WITH
    MaxGens <- 2, MaxEdits <- 2, MaxFaults <- 4, Kills <- TRUE
Sentinels == INSTANCE SentinelInstall WITH
    Controllers <- {"a", "b"}, MaxGens <- 2, MaxRev <- 1, MaxFaults <- 1
Sentinel == INSTANCE SentinelInstall WITH
    Controllers <- {"a"}, MaxGens <- 3, MaxRev <- 2, MaxFaults <- 2

(* The constants are within the assumptions of the components.             *)
ASSUME ConstantsAssumption ==
    /\ Plan!PlansAssumption
    /\ Plan!AdverseAssumption
    /\ Plans!PlansAssumption
    /\ Plans!AdverseAssumption
    /\ Device!FleetAssumption
    /\ Device!LimitsAssumption
    /\ Deploy!DeployAssumption
    /\ Change!TaskAssumption
    /\ Pair!TaskAssumption
    /\ Fresh!TaskAssumption

(* The first state of a behaviour picks the component and is an initial    *)
(* state of it.                                                            *)
Init ==
    \/ /\ focus = "maintenance" /\ Plan!Init
       /\ apv = NotUsed /\ ctl = NotUsed /\ cut = NotUsed /\ deo = NotUsed
       /\ doc = NotUsed /\ done = NotUsed /\ drawn = NotUsed /\ edits = NotUsed
       /\ eng = NotUsed /\ expired = NotUsed /\ faults = NotUsed /\ file = NotUsed
       /\ foreign = NotUsed /\ host = NotUsed /\ issuer = NotUsed /\ job = NotUsed
       /\ kills = NotUsed /\ last = NotUsed /\ links = NotUsed /\ log = NotUsed
       /\ main = NotUsed /\ manifest = NotUsed /\ masters = NotUsed /\ out = NotUsed
       /\ output = NotUsed /\ pending = NotUsed /\ prep = NotUsed
       /\ queued = NotUsed /\ record = NotUsed /\ reg = NotUsed /\ report = NotUsed
       /\ ret = NotUsed /\ rev = NotUsed /\ route = NotUsed /\ run = NotUsed
       /\ runs = NotUsed /\ runtime = NotUsed /\ sinks = NotUsed /\ sops = NotUsed
       /\ stops = NotUsed /\ target = NotUsed /\ touched = NotUsed /\ tree = NotUsed
       /\ vm = NotUsed /\ vmgen = NotUsed
    \/ /\ focus = "two plans" /\ Plans!Init
       /\ apv = NotUsed /\ ctl = NotUsed /\ cut = NotUsed /\ deo = NotUsed
       /\ doc = NotUsed /\ done = NotUsed /\ drawn = NotUsed /\ edits = NotUsed
       /\ eng = NotUsed /\ expired = NotUsed /\ faults = NotUsed /\ file = NotUsed
       /\ foreign = NotUsed /\ host = NotUsed /\ issuer = NotUsed /\ job = NotUsed
       /\ kills = NotUsed /\ last = NotUsed /\ links = NotUsed /\ log = NotUsed
       /\ main = NotUsed /\ manifest = NotUsed /\ masters = NotUsed /\ out = NotUsed
       /\ output = NotUsed /\ pending = NotUsed /\ prep = NotUsed
       /\ queued = NotUsed /\ record = NotUsed /\ reg = NotUsed /\ report = NotUsed
       /\ ret = NotUsed /\ rev = NotUsed /\ route = NotUsed /\ run = NotUsed
       /\ runs = NotUsed /\ runtime = NotUsed /\ sinks = NotUsed /\ sops = NotUsed
       /\ stops = NotUsed /\ target = NotUsed /\ touched = NotUsed /\ tree = NotUsed
       /\ vm = NotUsed /\ vmgen = NotUsed
    \/ /\ focus = "devices" /\ Device!Init
       /\ adverse = NotUsed /\ approved = NotUsed /\ apv = NotUsed /\ ctl = NotUsed
       /\ cut = NotUsed /\ deo = NotUsed /\ deployed = NotUsed /\ done = NotUsed
       /\ drawn = NotUsed /\ edits = NotUsed /\ eng = NotUsed /\ faults = NotUsed
       /\ file = NotUsed /\ host = NotUsed /\ kills = NotUsed /\ last = NotUsed
       /\ log = NotUsed /\ made = NotUsed /\ main = NotUsed /\ manifest = NotUsed
       /\ masters = NotUsed /\ out = NotUsed /\ pending = NotUsed /\ prep = NotUsed
       /\ queued = NotUsed /\ record = NotUsed /\ reg = NotUsed /\ report = NotUsed
       /\ ret = NotUsed /\ rev = NotUsed /\ room = NotUsed /\ run = NotUsed
       /\ runs = NotUsed /\ sinks = NotUsed /\ sops = NotUsed /\ target = NotUsed
       /\ touched = NotUsed /\ tree = NotUsed /\ valid = NotUsed /\ vm = NotUsed
       /\ vmgen = NotUsed /\ worker = NotUsed
    \/ /\ focus = "deployment" /\ Deploy!Init
       /\ adverse = NotUsed /\ approved = NotUsed /\ ctl = NotUsed /\ deo = NotUsed
       /\ deployed = NotUsed /\ doc = NotUsed /\ drawn = NotUsed /\ eng = NotUsed
       /\ expired = NotUsed /\ foreign = NotUsed /\ issuer = NotUsed
       /\ job = NotUsed /\ journal = NotUsed /\ kills = NotUsed /\ last = NotUsed
       /\ links = NotUsed /\ log = NotUsed /\ made = NotUsed /\ main = NotUsed
       /\ manifest = NotUsed /\ out = NotUsed /\ output = NotUsed
       /\ pending = NotUsed /\ prep = NotUsed /\ queued = NotUsed
       /\ record = NotUsed /\ reg = NotUsed /\ report = NotUsed /\ ret = NotUsed
       /\ rev = NotUsed /\ room = NotUsed /\ route = NotUsed /\ runtime = NotUsed
       /\ sops = NotUsed /\ stops = NotUsed /\ target = NotUsed /\ valid = NotUsed
       /\ vm = NotUsed /\ vmgen = NotUsed /\ worker = NotUsed
    \/ /\ focus = "task of a change" /\ Change!Init
       /\ adverse = NotUsed /\ approved = NotUsed /\ apv = NotUsed /\ ctl = NotUsed
       /\ cut = NotUsed /\ deo = NotUsed /\ deployed = NotUsed /\ doc = NotUsed
       /\ done = NotUsed /\ drawn = NotUsed /\ edits = NotUsed /\ eng = NotUsed
       /\ expired = NotUsed /\ faults = NotUsed /\ file = NotUsed
       /\ foreign = NotUsed /\ host = NotUsed /\ issuer = NotUsed /\ job = NotUsed
       /\ journal = NotUsed /\ links = NotUsed /\ made = NotUsed /\ main = NotUsed
       /\ manifest = NotUsed /\ masters = NotUsed /\ out = NotUsed
       /\ output = NotUsed /\ pending = NotUsed /\ prep = NotUsed
       /\ queued = NotUsed /\ record = NotUsed /\ reg = NotUsed /\ report = NotUsed
       /\ ret = NotUsed /\ rev = NotUsed /\ room = NotUsed /\ route = NotUsed
       /\ run = NotUsed /\ runs = NotUsed /\ runtime = NotUsed /\ sinks = NotUsed
       /\ sops = NotUsed /\ stops = NotUsed /\ target = NotUsed /\ touched = NotUsed
       /\ valid = NotUsed /\ vm = NotUsed /\ vmgen = NotUsed /\ worker = NotUsed
    \/ /\ focus = "related tasks" /\ Pair!Init
       /\ adverse = NotUsed /\ approved = NotUsed /\ apv = NotUsed /\ ctl = NotUsed
       /\ cut = NotUsed /\ deo = NotUsed /\ deployed = NotUsed /\ doc = NotUsed
       /\ done = NotUsed /\ drawn = NotUsed /\ edits = NotUsed /\ eng = NotUsed
       /\ expired = NotUsed /\ faults = NotUsed /\ file = NotUsed
       /\ foreign = NotUsed /\ host = NotUsed /\ issuer = NotUsed /\ job = NotUsed
       /\ journal = NotUsed /\ links = NotUsed /\ made = NotUsed /\ main = NotUsed
       /\ manifest = NotUsed /\ masters = NotUsed /\ out = NotUsed
       /\ output = NotUsed /\ pending = NotUsed /\ prep = NotUsed
       /\ queued = NotUsed /\ record = NotUsed /\ reg = NotUsed /\ report = NotUsed
       /\ ret = NotUsed /\ rev = NotUsed /\ room = NotUsed /\ route = NotUsed
       /\ run = NotUsed /\ runs = NotUsed /\ runtime = NotUsed /\ sinks = NotUsed
       /\ sops = NotUsed /\ stops = NotUsed /\ target = NotUsed /\ touched = NotUsed
       /\ valid = NotUsed /\ vm = NotUsed /\ vmgen = NotUsed /\ worker = NotUsed
    \/ /\ focus = "new task" /\ Fresh!Init
       /\ adverse = NotUsed /\ approved = NotUsed /\ apv = NotUsed /\ ctl = NotUsed
       /\ cut = NotUsed /\ deo = NotUsed /\ deployed = NotUsed /\ doc = NotUsed
       /\ done = NotUsed /\ drawn = NotUsed /\ edits = NotUsed /\ eng = NotUsed
       /\ expired = NotUsed /\ faults = NotUsed /\ file = NotUsed
       /\ foreign = NotUsed /\ host = NotUsed /\ issuer = NotUsed /\ job = NotUsed
       /\ journal = NotUsed /\ links = NotUsed /\ made = NotUsed /\ main = NotUsed
       /\ manifest = NotUsed /\ masters = NotUsed /\ out = NotUsed
       /\ output = NotUsed /\ pending = NotUsed /\ prep = NotUsed
       /\ queued = NotUsed /\ record = NotUsed /\ reg = NotUsed /\ report = NotUsed
       /\ ret = NotUsed /\ rev = NotUsed /\ room = NotUsed /\ route = NotUsed
       /\ run = NotUsed /\ runs = NotUsed /\ runtime = NotUsed /\ sinks = NotUsed
       /\ sops = NotUsed /\ stops = NotUsed /\ target = NotUsed /\ touched = NotUsed
       /\ valid = NotUsed /\ vm = NotUsed /\ vmgen = NotUsed /\ worker = NotUsed
    \/ /\ focus = "disposable client" /\ Client!Init
       /\ adverse = NotUsed /\ approved = NotUsed /\ apv = NotUsed /\ ctl = NotUsed
       /\ cut = NotUsed /\ deployed = NotUsed /\ doc = NotUsed /\ done = NotUsed
       /\ eng = NotUsed /\ file = NotUsed /\ foreign = NotUsed /\ host = NotUsed
       /\ issuer = NotUsed /\ job = NotUsed /\ journal = NotUsed /\ kills = NotUsed
       /\ last = NotUsed /\ links = NotUsed /\ log = NotUsed /\ made = NotUsed
       /\ masters = NotUsed /\ output = NotUsed /\ pending = NotUsed
       /\ queued = NotUsed /\ reg = NotUsed /\ report = NotUsed /\ rev = NotUsed
       /\ room = NotUsed /\ route = NotUsed /\ run = NotUsed /\ runs = NotUsed
       /\ runtime = NotUsed /\ sinks = NotUsed /\ stops = NotUsed
       /\ touched = NotUsed /\ tree = NotUsed /\ valid = NotUsed /\ worker = NotUsed
    \/ /\ focus = "two registries" /\ Sentinels!Init
       /\ adverse = NotUsed /\ approved = NotUsed /\ apv = NotUsed /\ cut = NotUsed
       /\ deo = NotUsed /\ deployed = NotUsed /\ doc = NotUsed /\ done = NotUsed
       /\ edits = NotUsed /\ expired = NotUsed /\ file = NotUsed
       /\ foreign = NotUsed /\ issuer = NotUsed /\ job = NotUsed
       /\ journal = NotUsed /\ kills = NotUsed /\ last = NotUsed /\ links = NotUsed
       /\ log = NotUsed /\ made = NotUsed /\ main = NotUsed /\ manifest = NotUsed
       /\ masters = NotUsed /\ out = NotUsed /\ output = NotUsed /\ prep = NotUsed
       /\ record = NotUsed /\ ret = NotUsed /\ room = NotUsed /\ route = NotUsed
       /\ run = NotUsed /\ runs = NotUsed /\ runtime = NotUsed /\ sinks = NotUsed
       /\ sops = NotUsed /\ stops = NotUsed /\ target = NotUsed /\ touched = NotUsed
       /\ tree = NotUsed /\ valid = NotUsed /\ vm = NotUsed /\ vmgen = NotUsed
       /\ worker = NotUsed
    \/ /\ focus = "sentinel" /\ Sentinel!Init
       /\ adverse = NotUsed /\ approved = NotUsed /\ apv = NotUsed /\ cut = NotUsed
       /\ deo = NotUsed /\ deployed = NotUsed /\ doc = NotUsed /\ done = NotUsed
       /\ edits = NotUsed /\ expired = NotUsed /\ file = NotUsed
       /\ foreign = NotUsed /\ issuer = NotUsed /\ job = NotUsed
       /\ journal = NotUsed /\ kills = NotUsed /\ last = NotUsed /\ links = NotUsed
       /\ log = NotUsed /\ made = NotUsed /\ main = NotUsed /\ manifest = NotUsed
       /\ masters = NotUsed /\ out = NotUsed /\ output = NotUsed /\ prep = NotUsed
       /\ record = NotUsed /\ ret = NotUsed /\ room = NotUsed /\ route = NotUsed
       /\ run = NotUsed /\ runs = NotUsed /\ runtime = NotUsed /\ sinks = NotUsed
       /\ sops = NotUsed /\ stops = NotUsed /\ target = NotUsed /\ touched = NotUsed
       /\ tree = NotUsed /\ valid = NotUsed /\ vm = NotUsed /\ vmgen = NotUsed
       /\ worker = NotUsed

PlanNext ==
    /\ focus = "maintenance" /\ Plan!Next
    /\ UNCHANGED <<focus, apv, ctl, cut, deo, doc, done, drawn, edits, eng, expired, faults, file, foreign, host,
                     issuer, job, kills, last, links, log, main, manifest, masters, out,
                     output, pending, prep, queued, record, reg, report, ret, rev,
                     route, run, runs, runtime, sinks, sops, stops, target, touched,
                     tree, vm, vmgen>>

PlansNext ==
    /\ focus = "two plans" /\ Plans!Next
    /\ UNCHANGED <<focus, apv, ctl, cut, deo, doc, done, drawn, edits, eng, expired, faults, file, foreign, host,
                     issuer, job, kills, last, links, log, main, manifest, masters, out,
                     output, pending, prep, queued, record, reg, report, ret, rev,
                     route, run, runs, runtime, sinks, sops, stops, target, touched,
                     tree, vm, vmgen>>

DeviceNext ==
    /\ focus = "devices" /\ Device!Next
    /\ UNCHANGED <<focus, adverse, approved, apv, ctl, cut, deo, deployed, done, drawn, edits, eng, faults, file,
                     host, kills, last, log, made, main, manifest, masters, out,
                     pending, prep, queued, record, reg, report, ret, rev, room, run,
                     runs, sinks, sops, target, touched, tree, valid, vm, vmgen, worker>>

DeployNext ==
    /\ focus = "deployment" /\ Deploy!Next
    /\ UNCHANGED <<focus, adverse, approved, ctl, deo, deployed, doc, drawn, eng, expired, foreign, issuer, job,
                     journal, kills, last, links, log, made, main, manifest, out,
                     output, pending, prep, queued, record, reg, report, ret, rev, room,
                     route, runtime, sops, stops, target, valid, vm, vmgen, worker>>

ChangeNext ==
    /\ focus = "task of a change" /\ Change!Next
    /\ UNCHANGED <<focus, adverse, approved, apv, ctl, cut, deo, deployed, doc, done, drawn, edits, eng, expired,
                     faults, file, foreign, host, issuer, job, journal, links, made,
                     main, manifest, masters, out, output, pending, prep, queued,
                     record, reg, report, ret, rev, room, route, run, runs, runtime,
                     sinks, sops, stops, target, touched, valid, vm, vmgen, worker>>

PairNext ==
    /\ focus = "related tasks" /\ Pair!Next
    /\ UNCHANGED <<focus, adverse, approved, apv, ctl, cut, deo, deployed, doc, done, drawn, edits, eng, expired,
                     faults, file, foreign, host, issuer, job, journal, links, made,
                     main, manifest, masters, out, output, pending, prep, queued,
                     record, reg, report, ret, rev, room, route, run, runs, runtime,
                     sinks, sops, stops, target, touched, valid, vm, vmgen, worker>>

FreshNext ==
    /\ focus = "new task" /\ Fresh!Next
    /\ UNCHANGED <<focus, adverse, approved, apv, ctl, cut, deo, deployed, doc, done, drawn, edits, eng, expired,
                     faults, file, foreign, host, issuer, job, journal, links, made,
                     main, manifest, masters, out, output, pending, prep, queued,
                     record, reg, report, ret, rev, room, route, run, runs, runtime,
                     sinks, sops, stops, target, touched, valid, vm, vmgen, worker>>

ClientNext ==
    /\ focus = "disposable client" /\ Client!Next
    /\ UNCHANGED <<focus, adverse, approved, apv, ctl, cut, deployed, doc, done, eng, file, foreign, host, issuer,
                     job, journal, kills, last, links, log, made, masters, output,
                     pending, queued, reg, report, rev, room, route, run, runs, runtime,
                     sinks, stops, touched, tree, valid, worker>>

SentinelsNext ==
    /\ focus = "two registries" /\ Sentinels!Next
    /\ UNCHANGED <<focus, adverse, approved, apv, cut, deo, deployed, doc, done, edits, expired, file, foreign,
                     issuer, job, journal, kills, last, links, log, made, main,
                     manifest, masters, out, output, prep, record, ret, room, route,
                     run, runs, runtime, sinks, sops, stops, target, touched, tree,
                     valid, vm, vmgen, worker>>

SentinelNext ==
    /\ focus = "sentinel" /\ Sentinel!Next
    /\ UNCHANGED <<focus, adverse, approved, apv, cut, deo, deployed, doc, done, edits, expired, file, foreign,
                     issuer, job, journal, kills, last, links, log, made, main,
                     manifest, masters, out, output, prep, record, ret, room, route,
                     run, runs, runtime, sinks, sops, stops, target, touched, tree,
                     valid, vm, vmgen, worker>>

Next == PlanNext \/ PlansNext \/ DeviceNext \/ DeployNext \/ ChangeNext \/ PairNext
        \/ FreshNext \/ ClientNext \/ SentinelsNext \/ SentinelNext

Spec == Init /\ [][Next]_vars

-----------------------------------------------------------------------------
(* What was started is accounted for, and what is claimed is true.         *)
(* Maintenance: credentials of a dead worker are where the journal says,   *)
(* and a clean verdict is true. Devices: what is recorded as revoked is    *)
(* accepted nowhere. Deployment: all hosts get the bound inputs, a failure *)
(* stops the fleet, manifests name what runs, no shared session is left.   *)
(* Tasks: a purge is preceded by a committed end, done by a review, and    *)
(* completed commands leave records the tool accepts. Client: its VM goes  *)
(* last, one generation per binding, a proof is committed, other writers'  *)
(* edits stay. Sentinel: settled hosts are one generation, what was        *)
(* published stands, only committed generations report, and none is in use *)
(* that no record names.                                                   *)
ClaimsTrue ==
    /\ focus = "maintenance" =>
           Plan!TypeOK /\ Plan!PlaintextClaimed /\ Plan!VerdictClean
    /\ focus = "two plans" =>
           Plans!TypeOK /\ Plans!PlaintextClaimed /\ Plans!VerdictClean
    /\ focus = "devices" => Device!TypeOK /\ Device!RevokedForGood
    /\ focus = "deployment" =>
           Deploy!TypeOK /\ Deploy!InputsBound /\ Deploy!StopsAtFailure
           /\ Deploy!ManifestTrue /\ Deploy!MastersClosed
    /\ focus = "task of a change" =>
           Change!TypeOK /\ Change!AcceptedPortfolio /\ Change!DeletionProven
           /\ Change!DoneFollowsReview
    /\ focus = "related tasks" => Pair!TypeOK /\ Pair!AcceptedPortfolio
    /\ focus = "new task" =>
           Fresh!TypeOK /\ Fresh!AcceptedPortfolio /\ Fresh!DeletionProven
           /\ Fresh!DoneFollowsReview
    /\ focus = "disposable client" =>
           Client!TypeOK /\ Client!BoundOutlivesClient /\ Client!OneGeneration
           /\ Client!ProofIsCommitted /\ Client!EditsKept
    /\ focus = "sentinel" =>
           Sentinel!TypeOK /\ Sentinel!SettledWhole /\ Sentinel!PublishedStands
           /\ Sentinel!ReportsCommitted /\ Sentinel!NeverUnaccounted
    /\ focus = "two registries" =>
           Sentinels!TypeOK /\ Sentinels!SettledWhole /\ Sentinels!PublishedStands
           /\ Sentinels!ReportsCommitted

(* What a step may never do. Maintenance: a node changes only after the    *)
(* earlier ones were accepted and under the approved review, and is        *)
(* accepted only while it runs the plan's source. Devices: an operation is *)
(* complete only when it is served, and another writer's change is not     *)
(* overwritten.                                                            *)
ApprovedSteps ==
    [][ /\ focus = "maintenance" => Plan!SerialAndApproved
        /\ focus = "two plans" => Plans!SerialAndApproved /\ Plans!AcceptsWhatRuns
        /\ focus = "devices" => Device!CompleteIsServed /\ Device!ForeignEditsKept ]_vars

=============================================================================
