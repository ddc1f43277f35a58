-------------------------- MODULE RevocationBarrier --------------------------
(***************************************************************************)
(* The fence around the credentials of Snell and Naive                     *)
(* (device_revocation_barrier.py).  A play of the role calls the barrier   *)
(* three times: guard before it touches anything, begin to arm the durable *)
(* fence and stop the unit, activate to start the unit on the published    *)
(* files and to record a receipt.  The unit asks admit before every start: *)
(* under a fence without a receipt it may start only while some barrier    *)
(* process holds the state directory.  One play works on a host at a time, *)
(* but a barrier process outlives the play that called it.                 *)
(***************************************************************************)
EXTENDS Integers

CONSTANTS MaxRevoke,  \* number of successive revocations
          Disabled,   \* revocations that come with the role switched off
          MaxAdverse  \* bound on deaths, crashes, reboots and source changes

RevokeAssumption == MaxRevoke \in Nat /\ Disabled \subseteq 1 .. MaxRevoke
AdverseAssumption == MaxAdverse \in Nat
ASSUME BarrierConstants == RevokeAssumption /\ AdverseAssumption

Creds == 0 .. MaxRevoke
\* What the role renders: credentials, by a revision of the sources
Content == [cred : Creds, rev : 0 .. 1]
Nothing == [cred |-> -1, rev |-> 0]
Published == Content \cup {Nothing}

\* revocation.json; authority 0 stands for no record
Fences == [authority : Creds, plan : Published, receipt : {"none", "recorded"}]
NoFence == [authority |-> 0, plan |-> Nothing, receipt |-> "none"]
Steps == {"none", "guard", "install", "begin", "write", "activate", "abort"}
Play == [at : Steps, authority : Creds, want : Published, waits : BOOLEAN]
NoPlay == [at |-> "none", authority |-> 0, want |-> Nothing, waits |-> FALSE]
Job == [at : {"none", "open", "arm", "reload", "stop", "verify", "restart", "confirm", "record", "fail"},
        action : Steps, authority : Creds, want : Published, mine : BOOLEAN]
NoJob == [at |-> "none", action |-> "none", authority |-> 0, want |-> Nothing, mine |-> FALSE]

VARIABLES
    secrets,  \* credentials of the controller's document
    pending,  \* the revocation the controller still has to finish, or 0
    source,   \* revision of the controller's sources
    play,     \* the running play
    job,      \* the barrier process; it holds the state directory
    fence,    \* revocation.json
    file,     \* the configuration on the host
    unit,     \* unit file, what systemd has loaded of it, and the service
    adverse

vars == <<secrets, pending, source, play, job, fence, file, unit, adverse>>
Controller == <<secrets, pending, source>>

Init ==
    /\ secrets = 0 /\ pending = 0 /\ source = 0
    /\ play = NoPlay /\ job = NoJob /\ fence = NoFence
    /\ file = [cred |-> 0, rev |-> 0]
    /\ \E d \in {"legacy", "gated"} :
          unit = [file |-> d, loaded |-> d, state |-> "active", runs |-> [cred |-> 0, rev |-> 0]]
    /\ adverse = 0

Adverse == adverse < MaxAdverse /\ adverse' = adverse + 1

-----------------------------------------------------------------------------
(* The service                                                             *)

Unfinished == fence.authority # 0 /\ fence.receipt = "none"

\* Mutation: the fence holds against its own publisher, too.
AdmissionAlone == ~Unfinished

Admission == ~Unfinished \/ job.at # "none"

\* A unit of an older deployment has no admission.
Starts(u) == u.loaded # "absent" /\ file # Nothing /\ (u.loaded = "gated" => Admission)
Started(u) == [u EXCEPT !.state = "active", !.runs = file]
Stopped(u) == [u EXCEPT !.state = "stopped", !.runs = Nothing]
\* Mutation: a removed unit is remembered by its load state.
ReloadedNotFound(u) == [u EXCEPT !.loaded = IF u.file = "absent" THEN "not-found" ELSE u.file]

Reloaded(u) == [u EXCEPT !.loaded = u.file]

UnitCrash ==
    /\ unit.state = "active" /\ Adverse
    /\ unit' = [unit EXCEPT !.state = "failed", !.runs = Nothing]
    /\ UNCHANGED <<Controller, play, job, fence, file>>

\* Restart=on-failure: a refused start is tried again.
UnitRestart ==
    /\ unit.state = "failed" /\ Starts(unit)
    /\ unit' = Started(unit)
    /\ UNCHANGED <<Controller, play, job, fence, file, adverse>>

Reboot ==
    /\ Adverse
    /\ unit' = [Reloaded(unit) EXCEPT !.state = IF unit.file = "absent" THEN "stopped" ELSE "failed",
                                      !.runs = Nothing]
    /\ job' = NoJob /\ play' = NoPlay
    /\ UNCHANGED <<Controller, fence, file>>

-----------------------------------------------------------------------------
(* The controller and the play                                             *)

Revoke ==
    /\ pending = 0 /\ secrets < MaxRevoke
    /\ secrets' = secrets + 1 /\ pending' = secrets + 1
    /\ UNCHANGED <<source, play, job, fence, file, unit, adverse>>

Upgrade ==
    /\ Adverse
    /\ source' = 1 - source
    /\ UNCHANGED <<secrets, pending, play, job, fence, file, unit>>

Rendered == IF secrets \in Disabled THEN Nothing ELSE [cred |-> secrets, rev |-> source]

\* Any play carries the current secrets; only the one of a revocation names it.
StartPlay(a) ==
    /\ play.at = "none" /\ a \in {0, pending}
    /\ play' = [at |-> "guard", authority |-> a, want |-> Rendered, waits |-> FALSE]
    /\ UNCHANGED <<Controller, job, fence, file, unit, adverse>>

PlayDies ==
    /\ play.at # "none" /\ Adverse
    /\ play' = NoPlay
    /\ job' = [job EXCEPT !.mine = FALSE]
    /\ UNCHANGED <<Controller, fence, file, unit>>

\* Only the guard is called without a revocation.
Calling == play.at = "guard" \/ (play.at \in {"begin", "activate", "abort"} /\ play.authority # 0)

\* The lock is not waited for: a call finds it free or fails.
Call ==
    /\ Calling /\ ~play.waits /\ job.at = "none"
    /\ job' = [at |-> "open", action |-> play.at, authority |-> play.authority, want |-> play.want,
               mine |-> TRUE]
    /\ play' = [play EXCEPT !.waits = TRUE]
    /\ UNCHANGED <<Controller, fence, file, unit, adverse>>

\* the play after a call that succeeded, or failed
Advanced(p) ==
    [p EXCEPT !.waits = FALSE,
              !.at = CASE p.at = "guard" -> "install" [] p.at = "begin" -> "write" [] OTHER -> "none"]
Rescued(p) ==
    [p EXCEPT !.waits = FALSE,
              !.at = IF p.at \in {"begin", "activate"} /\ p.authority # 0 THEN "abort" ELSE "none"]

CallBusy ==
    /\ Calling /\ ~play.waits /\ job.at # "none"
    /\ play' = Rescued(play)
    /\ UNCHANGED <<Controller, job, fence, file, unit, adverse>>

\* The gated unit file comes first; without a revocation the role goes on.
Install ==
    /\ play.at = "install"
    /\ unit' = [unit EXCEPT !.file = IF play.want # Nothing
                                        \/ (play.authority # 0 /\ unit.file # "absent")
                                     THEN "gated" ELSE @]
    /\ play' = [play EXCEPT !.at = IF play.authority # 0 THEN "begin" ELSE "write"]
    /\ UNCHANGED <<Controller, job, fence, file, adverse>>

\* Configuration or retirement; an ordinary play then restarts the unit itself.
Write ==
    /\ play.at = "write"
    /\ file' = play.want
    /\ unit' = [unit EXCEPT !.file = IF play.want = Nothing THEN "absent" ELSE @]
    /\ play' = [play EXCEPT !.at = "activate"]
    /\ UNCHANGED <<Controller, job, fence, adverse>>

OrdinaryStart ==
    /\ play.at = "activate" /\ play.authority = 0
    /\ LET u == Stopped(Reloaded(unit)) IN unit' = IF Starts(u) THEN Started(u) ELSE u
    /\ play' = NoPlay
    /\ UNCHANGED <<Controller, job, fence, file, adverse>>

-----------------------------------------------------------------------------
(* The barrier process                                                     *)

\* A finished process tells its play, if that is still there to hear it.
Done(ok) ==
    /\ job' = NoJob
    /\ play' = IF ~job.mine THEN play ELSE IF ok THEN Advanced(play) ELSE Rescued(play)
    /\ pending' = IF job.mine /\ ok /\ job.action = "activate" THEN 0 ELSE pending
    /\ UNCHANGED <<secrets, source>>

Step(s) == job' = [job EXCEPT !.at = s] /\ UNCHANGED <<Controller, play>>

Foreign == Unfinished /\ fence.authority # job.authority

Open ==
    /\ job.at = "open"
    /\ IF Foreign THEN Done(FALSE)
       ELSE IF job.action = "guard" \/ job.authority = 0 THEN Done(TRUE)
       ELSE IF job.action = "abort" THEN IF fence.authority = 0 THEN Done(TRUE) ELSE Step("stop")
       ELSE Step("arm")
    /\ UNCHANGED <<fence, file, unit, adverse>>

\* Mutation: the accepted receipt of the previous revocation is kept.
ArmedFenceKept ==
    IF fence.authority = job.authority THEN fence
    ELSE [authority |-> job.authority, plan |-> job.want, receipt |-> fence.receipt]

\* arm_revocation: a new authority replaces an accepted one; the candidate of
\* an authority never changes.
ArmedFence ==
    IF fence.authority = job.authority THEN fence
    ELSE [authority |-> job.authority, plan |-> job.want, receipt |-> "none"]

\* Mutation: a fence found armed is taken to have stopped the unit.
ArmOnce ==
    /\ job.at = "arm"
    /\ IF ArmedFence.plan # job.want THEN Done(FALSE) /\ UNCHANGED fence
       ELSE /\ fence' = ArmedFence
            /\ CASE job.action = "activate" -> Step("verify")
                 [] job.action = "begin" /\ fence.authority # job.authority -> Step("reload")
                 [] OTHER -> Done(TRUE)
    /\ UNCHANGED <<file, unit, adverse>>

Arm ==
    /\ job.at = "arm"
    /\ IF ArmedFence.plan # job.want THEN Done(FALSE) /\ UNCHANGED fence
       ELSE /\ fence' = ArmedFence
            /\ CASE job.action = "activate" -> Step("verify")
                 [] job.action = "begin" /\ ArmedFence.receipt = "none" -> Step("reload")
                 [] OTHER -> Done(TRUE)
    /\ UNCHANGED <<file, unit, adverse>>

Reload ==
    /\ job.at = "reload"
    /\ unit' = Reloaded(unit)
    /\ Step("stop")
    /\ UNCHANGED <<fence, file, adverse>>

Stop ==
    /\ job.at = "stop"
    /\ unit' = Stopped(unit)
    /\ Done(TRUE)
    /\ UNCHANGED <<fence, file, adverse>>

\* Whether the service is what the receipt was written for
Current == IF job.want = Nothing THEN unit.state # "active"
           ELSE unit.state = "active" /\ unit.runs = job.want

\* Mutation: a service that is as wanted needs no receipt any more.
VerifyAdopts ==
    /\ job.at = "verify"
    /\ IF file # job.want THEN Step("fail")
       ELSE IF Current THEN Done(TRUE)
       ELSE Step("restart")
    /\ UNCHANGED <<fence, file, unit, adverse>>

\* A process that replaced the one of the receipt is restarted, too.
Verify ==
    /\ job.at = "verify"
    /\ IF file # job.want THEN Step("fail")
       ELSE \/ fence.receipt = "recorded" /\ Current /\ Done(TRUE)
            \/ Step("restart")
    /\ UNCHANGED <<fence, file, unit, adverse>>

Restart ==
    /\ job.at = "restart"
    /\ LET u == Stopped(Reloaded(unit)) IN unit' = IF Starts(u) THEN Started(u) ELSE u
    /\ Step("confirm")
    /\ UNCHANGED <<fence, file, adverse>>

Confirm ==
    /\ job.at = "confirm"
    /\ IF Current /\ file = job.want THEN Step("record") ELSE Step("fail")
    /\ UNCHANGED <<fence, file, unit, adverse>>

Record ==
    /\ job.at = "record"
    /\ fence' = [fence EXCEPT !.receipt = "recorded"]
    /\ Done(TRUE)
    /\ UNCHANGED <<file, unit, adverse>>

Fail ==
    /\ job.at = "fail"
    /\ unit' = Stopped(unit)
    /\ Done(FALSE)
    /\ UNCHANGED <<fence, file, adverse>>

\* Killed: no handler runs, the lock is free.
JobDies ==
    /\ job.at # "none" /\ Adverse
    /\ job' = NoJob
    /\ play' = IF job.mine THEN Rescued(play) ELSE play
    /\ UNCHANGED <<Controller, fence, file, unit>>

Barrier == Open \/ Arm \/ Reload \/ Stop \/ Verify \/ Restart \/ Confirm \/ Record \/ Fail
Playing == Call \/ CallBusy \/ Install \/ Write \/ OrdinaryStart

Next ==
    \/ UnitCrash \/ UnitRestart \/ Reboot
    \/ Revoke \/ Upgrade \/ (\E a \in Creds : StartPlay(a)) \/ PlayDies \/ Playing
    \/ Barrier \/ JobDies

Spec == Init /\ [][Next]_vars

-----------------------------------------------------------------------------
(* Properties                                                              *)

\* The record, the processes and the unit have the shape the code writes.
TypeOK ==
    /\ secrets \in Creds /\ pending \in Creds /\ source \in 0 .. 1
    /\ play \in Play /\ job \in Job /\ fence \in Fences /\ file \in Published
    /\ unit \in [file : {"absent", "legacy", "gated"}, loaded : {"absent", "legacy", "gated"},
                 state : {"active", "stopped", "failed"}, runs : Published]
    /\ adverse \in 0 .. MaxAdverse

\* While the role replaces the files after begin, nothing serves: no crash of
\* the service, restart or older unit definition brings the old credentials up.
DownWhileWriting ==
    play.at = "write" /\ play.authority # 0 /\ fence.receipt = "none" => unit.state # "active"

\* A recorded receipt is final: no service runs credentials older than it, nor
\* does one of the plays that follow bring them back.
ReceiptFinal ==
    fence.authority # 0 /\ fence.receipt = "recorded" =>
        /\ unit.state = "active" => unit.runs.cred >= fence.authority
        /\ file.cred >= fence.authority \/ file = Nothing

\* What the controller is told is done is recorded on the host, for exactly
\* that revocation: no busy lock, lost answer or rescue is taken for success.
DoneIsRecorded ==
    pending = 0 /\ secrets > 0 => fence.authority = secrets /\ fence.receipt = "recorded"

=============================================================================
