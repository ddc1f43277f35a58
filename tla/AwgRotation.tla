----------------------------- MODULE AwgRotation -----------------------------
(***************************************************************************)
(* Peer rotation of the AWG evidence lane: the lane of                     *)
(* real-vps-awg-nat.py, the rotation hook on the sentinel and the forced   *)
(* command on the server.  A key stands for a client configuration, its    *)
(* peer block on the server and their digests; 0 is no file.  Every SSH    *)
(* command is a process on the server that goes on when the sentinel has   *)
(* given it up.                                                            *)
(***************************************************************************)
EXTENDS Naturals, Sequences, FiniteSets

CONSTANTS MaxKeys,    \* bound: keys; a key that nobody refers to is fresh again
          MaxFaults,  \* bound: faults
          Faults,     \* which: "lost", "server", "hook", "lane", "probe", "load"
          Overlap     \* whether a command may start while one that was given up still runs

VARIABLES conf, live,                   \* configuration file, and what the service has loaded
          prevf, pend, txn, intent, outcome,   \* rotation files of the server
          current, rotated, ls, bcur, brot, suc, \* files of the sentinel
          srv,      \* server processes: of the open call, and one that was given up
          hook, lane,
          again,    \* a transaction repeats one that was rolled back
          calm,     \* no fault since the lane began to roll back
          faults
sfiles == <<conf, live, prevf, pend, txn, intent, outcome>>
cfiles == <<current, rotated, ls, bcur, brot, suc>>
vars == <<conf, live, prevf, pend, txn, intent, outcome, current, rotated, ls, bcur, brot, suc,
          srv, hook, lane, again, calm, faults>>

Key == 1..MaxKeys
None == [p |-> 0, n |-> 0]
\* rotation_receipt(), validate_rotation_receipt(): generation and peer before and after.
Receipt == [p : 0..MaxKeys, n : 0..MaxKeys]
Has(r) == r # None
NoProc == [cmd |-> "none", arg |-> 0, ops |-> <<>>, r |-> None, rep |-> "none", stage |-> "none"]
NoHook == [op |-> "none", pc |-> "none", todo |-> <<>>]
NoLane == [pc |-> "idle", base |-> 0, next |-> 0, res |-> "none", rec |-> None]
NoState == [ph |-> "none", exp |-> 0, suc |-> 0]
Replies == {"none", "fail", "receipt", "commit", "rollback", "committed", "rolled", "prepared",
            "idle", "done"}

TypeOK ==
    /\ conf \in Key /\ live \in Key /\ current \in Key /\ rotated \in Key
    /\ prevf \in 0..MaxKeys /\ pend \in 0..MaxKeys
    /\ txn \in Receipt /\ intent \in Receipt
    /\ outcome \in [s : {"none", "committed", "rolled"}, r : Receipt]
    /\ ls \in [ph : {"none", "prepared", "committing"}, exp : 0..MaxKeys, suc : 0..MaxKeys]
    /\ bcur \in 0..MaxKeys /\ brot \in 0..MaxKeys /\ suc \in 0..MaxKeys
    /\ \A w \in {"cur", "old"} :
         /\ srv[w].stage \in {"none", "req", "run", "done"} /\ srv[w].r \in Receipt
         /\ srv[w].rep \in Replies /\ Len(srv[w].ops) <= 8
    /\ hook.op \in {"none", "prepare", "commit", "rollback"} /\ Len(hook.todo) <= 6
    /\ lane.pc \in {"idle", "prepare", "staged", "apply", "applied", "commit", "failed",
                    "rollback", "unapply", "restored", "pass", "rolledback", "rollbackfailed"}
    /\ lane.res \in {"none", "ok", "fail"} /\ lane.rec \in Receipt
    /\ again \in BOOLEAN /\ calm \in BOOLEAN /\ faults \in 0..MaxFaults
    /\ ls.ph = "committing" => suc = ls.suc /\ brot = ls.exp

Init ==
    /\ conf = 1 /\ live = 1 /\ current = 1 /\ rotated = 2
    /\ prevf = 0 /\ pend = 0 /\ txn = None /\ intent = None
    /\ outcome = [s |-> "none", r |-> None]
    /\ ls = NoState /\ bcur = 0 /\ brot = 0 /\ suc = 0
    /\ srv = [w \in {"cur", "old"} |-> NoProc]
    /\ hook = NoHook /\ lane = NoLane /\ again = FALSE /\ calm = FALSE /\ faults = 0

Fault(kind) == kind \in Faults /\ faults < MaxFaults /\ faults' = faults + 1

(***************************************************************************)
(* The server, real-vps-awg-nat-server.py                                  *)
(***************************************************************************)
RemoveAll == <<"rmpend", "rmprev", "rmintent", "rmtxn">>

\* recover_orphaned_prepare()
Orphaned == ~Has(txn) /\ ~Has(intent) /\ (pend # 0 \/ prevf # 0)
Clean == IF Orphaned THEN <<"rmpend", "rmprev">> ELSE <<>>

Plan(ops, rep, r) == [ops |-> ops, rep |-> rep, r |-> r]
Refuse == Plan(Clean, "fail", None)

PlanPrepare(key) ==
    IF (pend # 0 /\ ~Orphaned) \/ Has(txn) \/ Has(intent) THEN Refuse
    ELSE Plan(Clean \o <<"prev", "pend", "txn">>, "receipt", [p |-> conf, n |-> key])

PlanReconcile ==
    IF outcome.s # "none" /\ (~Has(txn) \/ outcome.r = txn)
      THEN Plan(IF Has(txn) THEN RemoveAll ELSE Clean, outcome.s, outcome.r)
    ELSE IF Has(txn) /\ Has(intent)
      THEN IF intent # txn THEN Refuse ELSE Plan(<<"finish">>, "rolled", txn)
    ELSE IF Has(txn) THEN Plan(<<>>, "prepared", txn)
    ELSE IF Has(intent) THEN Refuse
    ELSE Plan(Clean, "idle", None)

PlanRollback ==
    IF Has(txn)
      THEN IF outcome = [s |-> "rolled", r |-> txn] THEN Plan(RemoveAll, "rollback", txn)
           ELSE Plan(<<"intent", "finish">>, "rollback", txn)
    ELSE IF outcome.s # "none"
      THEN Plan(<<"rmpend", "rmprev", "rmintent">>,
                IF outcome.s = "committed" THEN "commit" ELSE "rollback", outcome.r)
    ELSE IF Has(intent) THEN Refuse
    ELSE Plan(Clean, "rollback", [p |-> conf, n |-> 0])

PlanCommit ==
    IF Has(txn) /\ conf = txn.n THEN Plan(<<>>, "commit", txn) ELSE Refuse
PlanAcknowledge ==
    IF Has(txn) /\ conf = txn.n
      THEN Plan(<<"outc", "rmpend", "rmprev", "rmtxn">>, "commit", txn)
      ELSE Refuse

\* dispatch("reload"): the pending configuration is applied.
PlanReload ==
    IF pend = 0 THEN Plan(<<>>, "fail", None)
    ELSE Plan(<<"apply", "load">>, "done", [p |-> 0, n |-> pend])

Decision(proc) ==
    CASE proc.cmd = "prepare" -> PlanPrepare(proc.arg)
      [] proc.cmd = "reconcile" -> PlanReconcile
      [] proc.cmd = "rollback" -> PlanRollback
      [] proc.cmd = "commit" -> PlanCommit
      [] proc.cmd = "acknowledge" -> PlanAcknowledge
      [] proc.cmd = "reload" -> PlanReload

\* finish_server_rollback()
Finish(r) ==
    IF prevf = r.p /\ conf \in {r.p, r.n} THEN <<"conf", "load", "outr">> \o RemoveAll
    ELSE <<"refused">>

\* A process that was given up reports to nobody.
Set(w, proc) ==
    srv' = [srv EXCEPT ![w] =
        IF proc.ops # <<>> THEN [proc EXCEPT !.stage = "run"]
        ELSE IF w = "cur" THEN [proc EXCEPT !.stage = "done"] ELSE NoProc]

Decide(w) ==
    /\ srv[w].stage = "req"
    /\ LET d == Decision(srv[w]) IN
         Set(w, [srv[w] EXCEPT !.ops = d.ops, !.rep = d.rep, !.r = d.r])
    /\ UNCHANGED <<sfiles, cfiles, hook, lane, again, calm, faults>>

Op(w) == Head(srv[w].ops)
Execute(w) ==
    /\ srv[w].stage = "run"
    /\ LET o == Op(w)  r == srv[w].r  rest == Tail(srv[w].ops) IN
         /\ Set(w, [srv[w] EXCEPT !.ops = IF o = "finish" THEN Finish(r) ELSE rest,
                                  !.rep = IF o = "refused" THEN "fail" ELSE @])
         /\ conf' = CASE o = "conf" -> r.p [] o = "apply" -> r.n [] OTHER -> conf
         /\ live' = IF o = "load" THEN conf ELSE live
         /\ prevf' = CASE o = "prev" -> r.p [] o = "rmprev" -> 0 [] OTHER -> prevf
         /\ pend' = CASE o = "pend" -> r.n [] o = "rmpend" -> 0 [] OTHER -> pend
         /\ txn' = CASE o = "txn" -> r [] o = "rmtxn" -> None [] OTHER -> txn
         /\ intent' = CASE o = "intent" -> r [] o = "rmintent" -> None [] OTHER -> intent
         /\ outcome' = CASE o = "outc" -> [s |-> "committed", r |-> r]
                         [] o = "outr" -> [s |-> "rolled", r |-> r] [] OTHER -> outcome
         /\ again' = (again \/ (o = "txn" /\ outcome = [s |-> "rolled", r |-> r]))
    /\ UNCHANGED <<cfiles, hook, lane, calm, faults>>

\* systemctl reload fails.
LoadFails(w) ==
    /\ srv[w].stage = "run" /\ Op(w) = "load" /\ Fault("load")
    /\ Set(w, [srv[w] EXCEPT !.ops = <<>>, !.rep = "fail"])
    /\ calm' = FALSE
    /\ UNCHANGED <<sfiles, cfiles, hook, lane, again>>

\* The process is killed, or the request never arrives.
ServerDies(w) ==
    /\ srv[w].stage \in {"req", "run"} /\ Fault("server")
    /\ Set(w, [srv[w] EXCEPT !.ops = <<>>, !.rep = "fail"])
    /\ calm' = FALSE
    /\ UNCHANGED <<sfiles, cfiles, hook, lane, again>>

\* The answer is lost or too late: the process is given up.
Given(proc) == IF proc.stage \in {"req", "run"} THEN proc ELSE NoProc
AnswerLost ==
    /\ srv["cur"].stage \in {"req", "run", "done"} /\ Fault("lost")
    /\ srv["old"].stage = "none"
    /\ srv' = [cur |-> [NoProc EXCEPT !.stage = "done", !.rep = "fail", !.cmd = srv["cur"].cmd],
               old |-> Given(srv["cur"])]
    /\ calm' = FALSE
    /\ UNCHANGED <<sfiles, cfiles, hook, lane, again>>

(***************************************************************************)
(* run_ssh()                                                               *)
(***************************************************************************)
Free == srv["cur"].stage = "none" /\ (Overlap \/ srv["old"].stage = "none")
Send(cmd, arg) ==
    /\ Free
    /\ srv' = [srv EXCEPT !["cur"] = [NoProc EXCEPT !.cmd = cmd, !.arg = arg, !.stage = "req"]]
Answered == srv["cur"].stage = "done"
Rep == srv["cur"].rep
Rec == srv["cur"].r
Take == srv' = [srv EXCEPT !["cur"] = NoProc]

(***************************************************************************)
(* The rotation hook, real-vps-awg-nat-rotation.py.  todo are the local    *)
(* writes before its next step.                                            *)
(***************************************************************************)
Referred ==
    {conf, live, prevf, pend, txn.p, txn.n, intent.p, intent.n, outcome.r.p, outcome.r.n,
     current, rotated, bcur, brot, suc, ls.exp, ls.suc, lane.base, lane.next,
     lane.rec.p, lane.rec.n}
    \cup UNION {{srv[w].arg, srv[w].r.p, srv[w].r.n} : w \in {"cur", "old"}}
\* generate_successor()
Fresh == CHOOSE k \in Key \ Referred : \A j \in Key \ Referred : k <= j

Clear == <<"-state", "-bcur", "-brot", "-suc">>
RestoreLocal == <<"cur=bcur", "rot=brot">>
PromoteLocal == <<"cur=brot", "rot=suc">>
SaveState == <<"+bcur", "+brot", "+prepared">>

HookGoes(pc, todo) == hook' = [hook EXCEPT !.pc = pc, !.todo = todo]
\* The hook's exit code, and the receipt it prints.
HookEnds(res, rec) ==
    /\ hook' = NoHook
    /\ lane' = [lane EXCEPT !.res = res, !.rec = rec]

LocalWrite ==
    /\ hook.todo # <<>>
    /\ LET o == Head(hook.todo) IN
         /\ current' = CASE o = "cur=bcur" -> bcur [] o = "cur=brot" -> brot [] OTHER -> current
         /\ rotated' = CASE o = "rot=brot" -> brot [] o = "rot=suc" -> suc [] OTHER -> rotated
         /\ bcur' = CASE o = "+bcur" -> current [] o = "-bcur" -> 0 [] OTHER -> bcur
         /\ brot' = CASE o = "+brot" -> rotated [] o = "-brot" -> 0 [] OTHER -> brot
         /\ suc' = CASE o = "+suc" -> Fresh [] o = "-suc" -> 0 [] OTHER -> suc
         /\ ls' = CASE o = "+prepared" -> [NoState EXCEPT !.ph = "prepared"]
                    [] o = "+committing" -> [ph |-> "committing", exp |-> rotated, suc |-> suc]
                    [] o = "-state" -> NoState
                    [] OTHER -> ls
    /\ hook' = [hook EXCEPT !.todo = Tail(@)]
    /\ UNCHANGED <<sfiles, srv, lane, again, calm, faults>>

HookAt(op, pc) == hook.op = op /\ hook.pc = pc /\ hook.todo = <<>>

\* recover_interrupted(): a transaction that an earlier invocation left.
RecoverBegin ==
    /\ HookAt("prepare", "begin")
    /\ IF ls.ph = "none" THEN HookGoes("save", SaveState) /\ UNCHANGED <<srv, lane>>
       ELSE IF bcur = 0 \/ brot = 0 THEN HookEnds("fail", None) /\ UNCHANGED srv
       ELSE Send("reconcile", 0) /\ HookGoes("recover", <<>>) /\ UNCHANGED lane
    /\ UNCHANGED <<sfiles, cfiles, again, calm, faults>>

\* What the server says decides.
RecoverDecides ==
    /\ HookAt("prepare", "recover") /\ Answered
    /\ Take
    /\ LET mine == ls.ph = "committing" /\ Rec.n = ls.exp IN
         CASE Rep = "fail" -> HookEnds("fail", None)
           [] Rep = "rolled" -> HookGoes("recovered", RestoreLocal \o Clear) /\ UNCHANGED lane
           [] Rep = "committed" /\ mine ->
                HookGoes("recovered", PromoteLocal \o Clear) /\ UNCHANGED lane
           [] Rep = "committed" /\ ~mine /\ ls.ph = "committing" -> HookEnds("fail", None)
           [] Rep = "prepared" /\ mine -> HookGoes("recommit", <<>>) /\ UNCHANGED lane
           [] OTHER -> HookGoes("unprepare", <<>>) /\ UNCHANGED lane
    /\ UNCHANGED <<sfiles, cfiles, again, calm, faults>>

Recovered ==
    /\ HookAt("prepare", "recovered")
    /\ HookGoes("save", SaveState)
    /\ UNCHANGED <<sfiles, cfiles, srv, lane, again, calm, faults>>

RecoverRollback ==
    /\ \/ /\ HookAt("prepare", "unprepare") /\ Send("rollback", 0)
          /\ HookGoes("unprepared", <<>>) /\ UNCHANGED lane
       \/ /\ HookAt("prepare", "unprepared") /\ Answered /\ Take
          /\ IF Rep = "fail" THEN HookEnds("fail", None)
             ELSE HookGoes("recovered", RestoreLocal \o Clear) /\ UNCHANGED lane
    /\ UNCHANGED <<sfiles, cfiles, again, calm, faults>>

\* prepare()
Prepare ==
    /\ \/ /\ HookAt("prepare", "save") /\ Send("prepare", rotated)
          /\ HookGoes("sent", <<>>) /\ UNCHANGED lane
       \/ /\ HookAt("prepare", "sent") /\ Answered /\ Take
          /\ IF Rep = "receipt" THEN HookEnds("ok", Rec)
             ELSE HookGoes("undo", <<>>) /\ UNCHANGED lane
       \/ /\ HookAt("prepare", "undo") /\ Send("rollback", 0)
          /\ HookGoes("undone", <<>>) /\ UNCHANGED lane
       \/ /\ HookAt("prepare", "undone") /\ Answered /\ Take
          /\ IF Rep = "fail" THEN HookEnds("fail", None)
             ELSE HookGoes("failed", Clear) /\ UNCHANGED lane
       \/ /\ HookAt("prepare", "failed")
          /\ HookEnds("fail", None) /\ UNCHANGED srv
    /\ UNCHANGED <<sfiles, cfiles, again, calm, faults>>

\* finalize("commit"): successor and state first.
CommitBegin ==
    /\ HookAt("commit", "begin")
    /\ IF ls.ph = "none" \/ bcur = 0 \/ brot = 0 THEN HookEnds("fail", None)
       ELSE HookGoes("recommit", <<"+suc", "+committing">>) /\ UNCHANGED lane
    /\ UNCHANGED <<sfiles, cfiles, srv, again, calm, faults>>

\* commit, promotion, acknowledgement; both finalize() and recover_interrupted().
Mine == Rec.n = ls.exp
Commit ==
    /\ hook.todo = <<>>
    /\ \/ /\ hook.pc = "recommit" /\ Send("commit", 0)
          /\ HookGoes("commitsent", <<>>) /\ UNCHANGED lane
       \/ /\ hook.pc = "commitsent" /\ Answered /\ Take
          /\ IF Rep = "commit" /\ Mine
               THEN HookGoes("acknowledge", PromoteLocal) /\ UNCHANGED lane
             ELSE IF hook.op = "commit" THEN HookGoes("giveup", <<>>) /\ UNCHANGED lane
             ELSE HookEnds("fail", None)
    /\ UNCHANGED <<sfiles, cfiles, again, calm, faults>>

Acknowledge ==
    /\ hook.todo = <<>>
    /\ \/ /\ hook.pc = "acknowledge" /\ Send("acknowledge", 0)
          /\ HookGoes("acksent", <<>>) /\ UNCHANGED lane
       \/ /\ hook.pc = "acksent" /\ Answered /\ Take
          /\ HookGoes(IF Rep = "commit" /\ Mine THEN "acknowledged" ELSE "ask",
                      IF Rep = "commit" /\ Mine THEN Clear ELSE <<>>)
          /\ UNCHANGED lane
       \/ /\ hook.pc = "ask" /\ Send("reconcile", 0)
          /\ HookGoes("asked", <<>>) /\ UNCHANGED lane
       \/ /\ hook.pc = "asked" /\ Answered /\ Take
          /\ IF Rep = "committed" /\ Mine THEN HookGoes("acknowledged", Clear) /\ UNCHANGED lane
             ELSE IF hook.op = "commit" THEN HookGoes("giveup", <<>>) /\ UNCHANGED lane
             ELSE HookEnds("fail", None)
    /\ UNCHANGED <<sfiles, cfiles, again, calm, faults>>
Acknowledged ==
    /\ hook.todo = <<>> /\ hook.pc = "acknowledged"
    /\ IF hook.op = "commit" THEN HookEnds("ok", [p |-> 0, n |-> current])
       ELSE HookGoes("save", SaveState) /\ UNCHANGED lane
    /\ UNCHANGED <<sfiles, cfiles, srv, again, calm, faults>>

\* finalize("commit") failed: the server rolls back, or says that it has committed.  Before the
\* promotion there is no receipt to return, so that answer clears the state and still fails.
CommitFailed ==
    /\ \/ /\ HookAt("commit", "giveup") /\ Send("rollback", 0)
          /\ HookGoes("givenup", <<>>) /\ UNCHANGED lane
       \/ /\ HookAt("commit", "givenup") /\ Answered /\ Take
          /\ IF Rep = "fail" \/ (Rep = "commit" /\ ~Mine) THEN HookEnds("fail", None)
             ELSE IF Rep = "commit"
               THEN /\ HookGoes(IF current = ls.exp THEN "acknowledged" ELSE "undone", Clear)
                    /\ UNCHANGED lane
             ELSE HookGoes("undone", RestoreLocal \o Clear) /\ UNCHANGED lane
       \/ /\ HookAt("commit", "undone")
          /\ HookEnds("fail", None) /\ UNCHANGED srv
    /\ UNCHANGED <<sfiles, cfiles, again, calm, faults>>

\* finalize("rollback")
Rollback ==
    /\ \/ /\ HookAt("rollback", "begin") /\ Send("rollback", 0)
          /\ HookGoes("sent", <<>>) /\ UNCHANGED lane
       \/ /\ HookAt("rollback", "sent") /\ Answered /\ Take
          /\ IF Rep # "rollback" THEN HookEnds("fail", None)
             ELSE /\ HookGoes("done", (IF bcur # 0 /\ brot # 0 THEN RestoreLocal ELSE <<>>) \o Clear)
                  /\ lane' = [lane EXCEPT !.rec = Rec]
       \/ /\ HookAt("rollback", "done")
          /\ HookEnds("ok", lane.rec) /\ UNCHANGED srv
    /\ UNCHANGED <<sfiles, cfiles, again, calm, faults>>

(***************************************************************************)
(* run_lane()                                                              *)
(***************************************************************************)
LaneAt(pc) == lane.pc = pc
Unchanged == UNCHANGED <<sfiles, cfiles, again, faults>>
Hook(op) == hook' = [op |-> op, pc |-> "begin", todo |-> <<>>]

\* Up to the stop of the first client: the peer is the client's, traffic flows, a restart.
\* _phase(), _server_phase_failure(): the peer answers with the client's key.
Flows == conf = current /\ live = current
Ended == lane.pc \in {"idle", "pass", "rolledback", "rollbackfailed"}
LaneStart ==
    /\ Ended /\ hook = NoHook /\ srv["cur"].stage = "none"
    /\ Flows
    /\ lane' = [NoLane EXCEPT !.pc = "prepare", !.base = current]
    /\ Hook("prepare")
    /\ calm' = FALSE /\ UNCHANGED srv /\ Unchanged

\* The receipt of the preparation and the rotated client.
LaneStaged ==
    /\ LaneAt("prepare") /\ lane.res # "none"
    /\ lane' = IF lane.res = "ok" /\ lane.rec = [p |-> lane.base, n |-> rotated]
                  /\ rotated # lane.base
                 THEN [lane EXCEPT !.pc = "staged", !.next = rotated, !.res = "none"]
                 ELSE [lane EXCEPT !.pc = "failed", !.res = "none"]
    /\ UNCHANGED <<hook, srv, calm>> /\ Unchanged

LaneApplies ==
    /\ LaneAt("staged") /\ Send("reload", 0)
    /\ lane' = [lane EXCEPT !.pc = "apply"]
    /\ UNCHANGED <<hook, calm>> /\ Unchanged

\* Reload observed, old key rejected, new key accepted.
LaneApplied ==
    /\ LaneAt("apply") /\ Answered /\ Take
    /\ lane' = [lane EXCEPT !.pc =
                  IF Rep = "done" /\ conf = lane.next /\ live = lane.next THEN "applied"
                  ELSE "failed"]
    /\ UNCHANGED <<hook, calm>> /\ Unchanged

LaneCommits ==
    /\ LaneAt("applied")
    /\ lane' = [lane EXCEPT !.pc = "commit"] /\ Hook("commit")
    /\ UNCHANGED <<srv, calm>> /\ Unchanged
LaneCommitted ==
    /\ LaneAt("commit") /\ lane.res # "none"
    /\ lane' = IF lane.res = "ok" /\ lane.rec.n = lane.next /\ current = lane.next
                 THEN [lane EXCEPT !.pc = "pass"]
                 ELSE [lane EXCEPT !.pc = "failed", !.res = "none"]
    /\ UNCHANGED <<hook, srv, calm>> /\ Unchanged

\* The finalizer: hook, reload, status, probe with the old client.
LaneRollsBack ==
    /\ LaneAt("failed")
    /\ lane' = [lane EXCEPT !.pc = "rollback"] /\ Hook("rollback")
    /\ calm' = TRUE /\ UNCHANGED srv /\ Unchanged
LaneUnapplies ==
    /\ LaneAt("rollback") /\ lane.res # "none"
    /\ IF lane.res = "ok" /\ lane.rec.p = lane.base /\ current = lane.base
         THEN Send("reload", 0) /\ lane' = [lane EXCEPT !.pc = "unapply"]
         ELSE lane' = [lane EXCEPT !.pc = "rollbackfailed"] /\ UNCHANGED srv
    /\ UNCHANGED <<hook, calm>> /\ Unchanged
LaneRestored ==
    /\ LaneAt("unapply") /\ Answered /\ Take
    /\ lane' = [lane EXCEPT !.pc = IF Rep = "done" /\ conf = lane.base /\ live = lane.base
                                     THEN "rolledback" ELSE "rollbackfailed"]
    /\ UNCHANGED <<hook, calm>> /\ Unchanged

(***************************************************************************)
(* Faults of the sentinel                                                  *)
(***************************************************************************)
\* A probe, a client start or a stop fails.
ProbeFails ==
    /\ lane.pc \in {"staged", "applied"} /\ Fault("probe")
    /\ lane' = [lane EXCEPT !.pc = "failed"]
    /\ UNCHANGED <<sfiles, cfiles, srv, hook, again, calm>>

GivesUp ==
    /\ srv["cur"].stage = "none" \/ srv["old"].stage = "none"
    /\ srv' = IF srv["cur"].stage = "none" THEN srv
              ELSE [cur |-> NoProc, old |-> Given(srv["cur"])]
    /\ calm' = FALSE
    /\ UNCHANGED <<sfiles, cfiles, again>>

\* The hook runs into the deadline of the lane.
HookKilled ==
    /\ hook # NoHook /\ Fault("hook")
    /\ HookEnds("fail", None) /\ GivesUp

\* The lane is killed with its hook: the deadline of the unit, or a reboot.
LaneKilled ==
    /\ ~Ended /\ Fault("lane")
    /\ hook' = NoHook /\ lane' = NoLane /\ GivesUp

Server == \E w \in {"cur", "old"} : Decide(w) \/ Execute(w)
HookStep ==
    \/ LocalWrite \/ RecoverBegin \/ RecoverDecides \/ Recovered \/ RecoverRollback \/ Prepare
    \/ CommitBegin \/ Commit \/ Acknowledge \/ Acknowledged \/ CommitFailed \/ Rollback
LaneStep ==
    \/ LaneStaged \/ LaneApplies \/ LaneApplied \/ LaneCommits \/ LaneCommitted
    \/ LaneRollsBack \/ LaneUnapplies \/ LaneRestored
FaultStep ==
    \/ \E w \in {"cur", "old"} : LoadFails(w) \/ ServerDies(w)
    \/ AnswerLost \/ ProbeFails \/ HookKilled \/ LaneKilled
Next == Server \/ HookStep \/ LaneStart \/ LaneStep \/ FaultStep

Spec == Init /\ [][Next]_vars

(***************************************************************************)
(* Properties                                                              *)
(***************************************************************************)
Quiet ==
    /\ Ended /\ hook = NoHook /\ srv["cur"] = NoProc /\ srv["old"] = NoProc
    /\ ls = NoState /\ ~Has(txn)

\* Whatever is lost or killed, a rotation that both sides have closed leaves client, server
\* file and service with one key, unless its transaction repeats one rolled back before.
Paired == (Quiet /\ ~again) => current = conf /\ conf = live

\* A PASS has a key that server and client share and that the old client does not have.
PassIsRotated ==
    lane.pc = "pass" => current = conf /\ conf = live /\ current # lane.base

=============================================================================
