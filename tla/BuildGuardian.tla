---------------------------- MODULE BuildGuardian ----------------------------
(***************************************************************************)
(* One build step under its guardian, runtime_build_receipt.py: the caller *)
(* starts a supervisor in a session of its own, the supervisor forks the   *)
(* guardian, and the guardian leads the process group of the build command *)
(* until it detaches.  They talk in one-byte records over four pipes, and  *)
(* the end of a process is the end of file on its pipes.  The deadlines    *)
(* are choices: any process may be slower than any wait.                   *)
(***************************************************************************)
EXTENDS Naturals, Sequences

CONSTANTS Killable,   \* processes that may be killed from outside
          MaxKills,   \* bound: such kills
          SlowStart   \* whether the guardian may take six seconds to lead its group

VARIABLES c, s, b,    \* program counters of caller, supervisor, guardian
          cs, sb,     \* control pipes, towards the guardian
          sc, bs,     \* status pipes, towards the caller
          primary,    \* the caller's first error: none, cancelled, step
          asked,      \* the supervisor has forwarded a cancellation
          sres,       \* what the supervisor knows: the result it read, or a known failure
          bres,       \* the guardian's result
          sexit,      \* the supervisor's exit code
          ingroup, detached,  \* the guardian's own membership
          cmd, desc,  \* the command, and a descendant it left in the group
          doom,       \* SIGKILL was sent to the group
          kills
vars == <<c, s, b, cs, sb, sc, bs, primary, asked, sres, bres, sexit, ingroup, detached,
          cmd, desc, doom, kills>>

TypeOK ==
    /\ c \in {"wait", "answer", "release", "reap", "close", "ok", "stepfailed", "unproven", "dead"}
    /\ s \in {"none", "start", "watch", "hold", "drain", "reap", "exited", "dead"}
    /\ b \in {"none", "fork", "running", "detach", "settle", "drain", "report", "hold", "exit0",
              "exit1", "dead"}
    /\ cs \in Seq({"C", "R"}) /\ sb \in Seq({"C", "R"})
    /\ sc \in Seq({"O", "F", "E", "U"}) /\ bs \in Seq({"O", "F", "E", "U"})
    /\ Len(cs) <= 2 /\ Len(sb) <= 2 /\ Len(sc) <= 2 /\ Len(bs) <= 1
    /\ primary \in {"none", "cancelled", "step"} /\ asked \in BOOLEAN
    /\ sres \in {"none", "O", "F", "known"} /\ bres \in {"O", "F", "E", "U"} /\ sexit \in 0..1
    /\ ingroup \in BOOLEAN /\ detached \in BOOLEAN
    /\ cmd \in {"none", "run", "ok", "bad"} /\ desc \in BOOLEAN /\ doom \in BOOLEAN
    /\ kills \in 0..MaxKills
    /\ ingroup => ~detached

Init ==
    /\ c = "wait" /\ s = "start" /\ b = "none"
    /\ cs = <<>> /\ sb = <<>> /\ sc = <<>> /\ bs = <<>>
    /\ primary = "none" /\ asked = FALSE /\ sres = "none" /\ bres = "F" /\ sexit = 1
    /\ ingroup = FALSE /\ detached = FALSE
    /\ cmd = "none" /\ desc = FALSE /\ doom = FALSE /\ kills = 0

Caller == <<c, primary>>
Supervisor == <<s, asked, sres, sexit>>
Guardian == <<b, bres, ingroup, detached>>
Group == <<cmd, desc, doom>>
Pipes == <<cs, sb, sc, bs>>

\* A process is gone when its ends of the pipes are closed.
COpen == c \in {"wait", "answer", "release", "reap"}
SOpen == s \in {"start", "watch", "hold", "drain"}
SGone == s \in {"exited", "dead"}
BGone == b \in {"exit0", "exit1", "dead"}
\* _group_state(): somebody of the build is in the group.
Work == cmd = "run" \/ desc

(***************************************************************************)
(* The group                                                               *)
(***************************************************************************)
CommandForks ==
    /\ cmd = "run" /\ ~desc /\ ~doom
    /\ desc' = TRUE
    /\ UNCHANGED <<Caller, Supervisor, Guardian, Pipes, cmd, doom, kills>>
CommandEnds ==
    /\ cmd = "run"
    /\ cmd' \in IF doom THEN {"bad"} ELSE {"ok", "bad"}
    /\ UNCHANGED <<Caller, Supervisor, Guardian, Pipes, desc, doom, kills>>
DescendantEnds ==
    /\ desc
    /\ desc' = FALSE
    /\ UNCHANGED <<Caller, Supervisor, Guardian, Pipes, cmd, doom, kills>>

\* What SIGKILL does to a member.
Dies == doom /\ (CommandEnds \/ DescendantEnds)

(***************************************************************************)
(* _guard_build_command()                                                  *)
(***************************************************************************)
\* _guardian_read(): a record, or the end of file when the supervisor is gone.
Asked == sb # <<>> \/ ~SOpen

BStart ==
    /\ b = "fork"
    /\ ingroup' = TRUE
    /\ IF Asked THEN b' = "detach" /\ UNCHANGED cmd
       ELSE b' = "running" /\ cmd' = "run"
    /\ UNCHANGED <<Caller, Supervisor, bres, detached, Pipes, desc, doom, kills>>

\* The command ended.
BEnded ==
    /\ b = "running" /\ cmd \in {"ok", "bad"}
    /\ bres' = IF cmd = "ok" THEN "O" ELSE "F"
    /\ b' = "detach"
    /\ UNCHANGED <<Caller, Supervisor, ingroup, detached, Pipes, Group, kills>>

\* Cancelled, or the deadline of the step.
BStops ==
    /\ b = "running"
    /\ b' = "detach"
    /\ UNCHANGED <<Caller, Supervisor, bres, ingroup, detached, Pipes, Group, kills>>

\* The guardian leaves its group; without the supervisor's group it kills its own, itself
\* included.
BDetach ==
    /\ b = "detach"
    /\ \/ /\ b' = "settle" /\ ingroup' = FALSE /\ detached' = TRUE
          /\ UNCHANGED doom
       \/ /\ SGone
          /\ b' = "dead" /\ ingroup' = FALSE /\ doom' = TRUE /\ UNCHANGED detached
    /\ UNCHANGED <<Caller, Supervisor, bres, Pipes, cmd, desc, kills>>

\* _settle_build_group(): a group that is still there proves a descendant.
BSettle ==
    /\ b = "settle"
    /\ IF Work THEN b' = "drain" /\ bres' = "F" /\ doom' = TRUE
       ELSE b' = "report" /\ UNCHANGED <<bres, doom>>
    /\ UNCHANGED <<Caller, Supervisor, ingroup, detached, Pipes, cmd, desc, kills>>

\* _drain_build_group(): the group is gone in time, or it is not.
BDrain ==
    /\ b = "drain"
    /\ \/ ~Work /\ UNCHANGED bres
       \/ Work /\ bres' \in {"E", "U"}
    /\ b' = "report"
    /\ UNCHANGED <<Caller, Supervisor, ingroup, detached, Pipes, Group, kills>>

BReport ==
    /\ b = "report"
    /\ bs' = IF SOpen THEN Append(bs, bres) ELSE bs
    /\ b' = "hold"
    /\ UNCHANGED <<Caller, Supervisor, bres, ingroup, detached, cs, sb, sc, Group, kills>>

\* _guardian_release(): a cancellation that was queued is skipped.
BSkip ==
    /\ b = "hold" /\ sb # <<>> /\ Head(sb) = "C"
    /\ sb' = Tail(sb)
    /\ UNCHANGED <<Caller, Supervisor, Guardian, cs, sc, bs, Group, kills>>
BReleased ==
    /\ b = "hold" /\ sb # <<>> /\ Head(sb) = "R"
    /\ b' = "exit0"
    /\ UNCHANGED <<Caller, Supervisor, bres, ingroup, detached, Pipes, Group, kills>>
\* End of file or six seconds: the guardian owns the cleanup.
BAlone ==
    /\ b = "hold" /\ sb = <<>>
    /\ b' = "exit1" /\ doom' = TRUE
    /\ UNCHANGED <<Caller, Supervisor, bres, ingroup, detached, Pipes, cmd, desc, kills>>

(***************************************************************************)
(* _supervise_build()                                                      *)
(***************************************************************************)
SFork ==
    /\ s = "start"
    /\ s' = "watch" /\ b' = "fork"
    /\ UNCHANGED <<Caller, asked, sres, sexit, bres, ingroup, detached, Pipes, Group, kills>>

\* A caller that cancelled or is gone, or the deadline of the step.
SCancel ==
    /\ s = "watch" /\ ~asked
    /\ asked' = TRUE
    /\ sb' = IF BGone THEN sb ELSE Append(sb, "C")
    /\ UNCHANGED <<Caller, s, sres, sexit, Guardian, cs, sc, bs, Group, kills>>

SRead ==
    /\ s = "watch" /\ bs # <<>>
    /\ LET r == Head(bs) IN
         IF r \in {"O", "F"}
           THEN /\ sres' = r /\ s' = "hold" /\ sc' = IF COpen THEN Append(sc, r) ELSE sc
           ELSE /\ sres' = IF r = "E" THEN "known" ELSE sres
                /\ s' = "drain" /\ UNCHANGED sc
    /\ bs' = Tail(bs)
    /\ UNCHANGED <<Caller, asked, sexit, Guardian, cs, sb, Group, kills>>

\* The guardian is gone, or did not answer within six seconds.
SLosesB ==
    /\ s = "watch" /\ bs = <<>>
    /\ BGone \/ (asked /\ (b # "fork" \/ SlowStart))
    /\ s' = "drain"
    /\ UNCHANGED <<Caller, asked, sres, sexit, Guardian, Pipes, Group, kills>>

SSkip ==
    /\ s = "hold" /\ cs # <<>> /\ Head(cs) = "C"
    /\ cs' = Tail(cs)
    /\ UNCHANGED <<Caller, Supervisor, Guardian, sb, sc, bs, Group, kills>>

\* Released: the guardian is released in turn, if it is still there.
SReleased ==
    /\ s = "hold" /\ cs # <<>> /\ Head(cs) = "R"
    /\ IF BGone THEN s' = "drain" /\ UNCHANGED <<sb, sexit>>
       ELSE s' = "reap" /\ sexit' = 0 /\ sb' = Append(sb, "R")
    /\ UNCHANGED <<Caller, asked, sres, Guardian, cs, sc, bs, Group, kills>>

SNotReleased ==
    /\ s = "hold" /\ cs = <<>>
    /\ s' = "drain"
    /\ UNCHANGED <<Caller, asked, sres, sexit, Guardian, Pipes, Group, kills>>

\* The handler: the group of the unreaped guardian is killed, then the guardian, and the
\* caller is told that nothing is proved.  A guardian that does not lead its group yet is
\* not found by the first.
SDrain ==
    /\ s = "drain"
    /\ doom' = (doom \/ b # "fork")
    /\ s' = "reap" /\ sexit' = 1
    /\ sc' = IF COpen THEN Append(sc, IF sres \in {"F", "known"} THEN "E" ELSE "U") ELSE sc
    /\ b' = IF b = "none" \/ BGone THEN b ELSE "dead"
    /\ ingroup' = FALSE
    /\ UNCHANGED <<Caller, asked, sres, bres, detached, cs, sb, bs, cmd, desc, kills>>

\* waitpid(): the exit of the guardian decides too.
SReap ==
    /\ s = "reap" /\ (BGone \/ b = "none")
    /\ s' = "exited" /\ sexit' = IF b = "exit0" THEN sexit ELSE 1
    /\ UNCHANGED <<Caller, asked, sres, Guardian, Pipes, Group, kills>>

(***************************************************************************)
(* _run_guarded_build()                                                    *)
(***************************************************************************)
\* A signal or the deadline of the step.
CCancel ==
    /\ c = "wait"
    /\ primary' = "cancelled" /\ c' = "answer"
    /\ cs' = IF SOpen THEN Append(cs, "C") ELSE cs
    /\ UNCHANGED <<Supervisor, Guardian, sb, sc, bs, Group, kills>>

CRead ==
    /\ c \in {"wait", "answer"} /\ sc # <<>>
    /\ IF Head(sc) \in {"O", "F"}
         THEN /\ c' = "release"
              /\ primary' = IF primary = "none" /\ Head(sc) = "F" THEN "step" ELSE primary
         ELSE c' = "close" /\ UNCHANGED primary
    /\ sc' = Tail(sc)
    /\ UNCHANGED <<Supervisor, Guardian, cs, sb, bs, Group, kills>>

\* End of file, or six seconds without an answer to the cancellation.
CLosesS ==
    /\ c \in {"wait", "answer"} /\ sc = <<>>
    /\ ~SOpen \/ c = "answer"
    /\ c' = "close"
    /\ UNCHANGED <<primary, Supervisor, Guardian, Pipes, Group, kills>>

CRelease ==
    /\ c = "release"
    /\ IF SOpen THEN c' = "reap" /\ cs' = Append(cs, "R") ELSE c' = "close" /\ UNCHANGED cs
    /\ UNCHANGED <<primary, Supervisor, Guardian, sb, sc, bs, Group, kills>>

\* The exit status of the supervisor is the last word.
CReap ==
    /\ c = "reap"
    /\ \/ /\ SGone
          /\ c' = IF s = "dead" \/ sexit # 0 THEN "unproven"
                  ELSE IF primary = "none" THEN "ok" ELSE "stepfailed"
       \/ ~SGone /\ c' = "close"
    /\ UNCHANGED <<primary, Supervisor, Guardian, Pipes, Group, kills>>

\* The pipes are closed; after eight seconds the supervisor itself is killed.
CClose ==
    /\ c = "close" /\ ~SGone
    /\ c' = "unproven" /\ s' = "dead"
    /\ UNCHANGED <<primary, asked, sres, sexit, Guardian, Pipes, Group, kills>>
CWaits ==
    /\ c = "close" /\ SGone
    /\ c' = "unproven"
    /\ UNCHANGED <<primary, Supervisor, Guardian, Pipes, Group, kills>>

(***************************************************************************)
(* Kills from outside                                                      *)
(***************************************************************************)
Kill ==
    /\ kills < MaxKills /\ kills' = kills + 1
    /\ \/ /\ "C" \in Killable /\ c \notin {"ok", "stepfailed", "unproven", "dead"}
          /\ c' = "dead" /\ UNCHANGED <<s, b, ingroup>>
       \/ /\ "S" \in Killable /\ ~SGone
          /\ s' = "dead" /\ UNCHANGED <<c, b, ingroup>>
       \/ /\ "B" \in Killable /\ b # "none" /\ ~BGone
          /\ b' = "dead" /\ ingroup' = FALSE /\ UNCHANGED <<c, s>>
    /\ UNCHANGED <<primary, asked, sres, sexit, bres, detached, Pipes, Group>>

GuardianStep == BStart \/ BEnded \/ BStops \/ BDetach \/ BSettle \/ BDrain \/ BReport
                \/ BSkip \/ BReleased \/ BAlone
SupervisorStep == SFork \/ SCancel \/ SRead \/ SLosesB \/ SSkip \/ SReleased \/ SNotReleased
                  \/ SDrain \/ SReap
CallerStep == CCancel \/ CRead \/ CLosesS \/ CRelease \/ CReap \/ CClose \/ CWaits
Next == CommandForks \/ CommandEnds \/ DescendantEnds
        \/ GuardianStep \/ SupervisorStep \/ CallerStep \/ Kill

Spec == Init /\ [][Next]_vars

(***************************************************************************)
(* Properties                                                              *)
(***************************************************************************)

\* A build step that is accepted has succeeded and left nobody in its group: "Unknown never
\* permits publication".
AcceptedIsQuiet == c = "ok" => cmd = "ok" /\ ~desc

\* A step that is reported as failed or cancelled, and not as unproven, has left nobody
\* either: the lock may be released and the stage reused.
FailedIsQuiet == c = "stepfailed" => ~Work

=============================================================================
