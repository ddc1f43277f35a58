----------------------- MODULE RevocationBarrierProofs -----------------------
(***************************************************************************)
(* Safety of the revocation barrier for any number of revocations, deaths  *)
(* and crashes: Spec => []IInv, and the properties that follow from it.    *)
(***************************************************************************)
EXTENDS RevocationBarrier, TLAPS

HasPlay == play.at # "none"
Working == job.at # "none"
Proving == {"verify", "restart", "confirm", "record", "fail"}

\* The controller, the running play, the barrier process and an unfinished
\* fence all speak of one revocation, the latest.
AuthorityInv ==
    /\ pending \in {0, secrets} /\ fence.authority <= secrets
    /\ HasPlay /\ play.authority # 0 => play.authority = pending
    /\ Working /\ job.authority # 0 => job.authority = pending
    /\ Unfinished => fence.authority = pending

\* Which calls a step of the process belongs to, and whom it will answer.
CallInv ==
    /\ ~Working => ~job.mine
    /\ Working => /\ job.action \in {"guard", "begin", "activate", "abort"}
                  /\ job.action # "guard" => job.authority # 0
    /\ job.at = "arm" => job.action \in {"begin", "activate"}
    /\ job.at = "reload" => job.action = "begin"
    /\ job.at = "stop" => job.action \in {"begin", "abort"}
    /\ job.at \in Proving => job.action = "activate" /\ fence.authority = job.authority
    /\ job.mine => /\ play.at = job.action /\ play.authority = job.authority
                   /\ play.waits

\* What is going to be written is as new as the fence, and as new as the
\* revocation once a process works for that.
WantInv ==
    /\ HasPlay /\ play.want # Nothing => play.want.cred >= fence.authority
    /\ HasPlay /\ play.want # Nothing /\ play.authority # 0 => play.want.cred = secrets
    /\ Working /\ job.authority # 0 =>
          /\ job.want # Nothing => job.want.cred = secrets
          /\ HasPlay /\ play.want # Nothing => play.want.cred = secrets

\* No service and no file is older than revocation a.
Fresh(a) == /\ unit.state = "active" => unit.runs.cred >= a
            /\ file.cred >= a \/ file = Nothing

FreshInv ==
    /\ job.at = "record" => Fresh(job.authority)
    /\ fence.authority # 0 /\ fence.receipt = "recorded" => Fresh(fence.authority)

\* A play that writes has no process any more that could start the unit it
\* stopped.
DownInv ==
    play.at = "write" /\ play.authority # 0 =>
        ~Working /\ (fence.receipt = "none" => unit.state = "stopped")

IInv == /\ TypeOK /\ AuthorityInv /\ CallInv /\ WantInv /\ FreshInv /\ DownInv
        /\ DoneIsRecorded

-----------------------------------------------------------------------------
(* The shapes                                                              *)

\* What names nothing is a record of its kind, and so is what is rendered.
LEMMA Shapes ==
    /\ Nothing \in Published /\ NoPlay \in Play /\ NoJob \in Job
    /\ TypeOK => Rendered \in Published
<1> USE BarrierConstants DEF RevokeAssumption, Creds, Steps
<1>1. Nothing \in Published
  BY DEF Published
<1>2. NoPlay \in Play /\ NoJob \in Job
  BY <1>1 DEF NoPlay, NoJob, Play, Job
<1>3. ASSUME TypeOK PROVE Rendered \in Published
  BY <1>1, <1>3 DEF TypeOK, Rendered, Published, Content
<1>4. QED
  BY <1>1, <1>2, <1>3

\* A play that goes on after a call, or is rescued, is a play.
LEMMA PlayGoesOn ==
    ASSUME NEW p \in Play PROVE Advanced(p) \in Play /\ Rescued(p) \in Play
BY DEF Play, Steps, Advanced, Rescued

\* How a process ends, or goes on, within the types.
LEMMA DoneTyped ==
    ASSUME TypeOK, NEW ok \in BOOLEAN, Done(ok)
    PROVE  job' \in Job /\ play' \in Play /\ secrets' \in Creds /\ pending' \in Creds /\ source'
       \in 0 .. 1
<1>1. 0 \in Creds
  BY BarrierConstants DEF RevokeAssumption, Creds
<1>2. play \in Play /\ job \in Job /\ secrets \in Creds /\ pending \in Creds /\ source \in 0 .. 1
  BY DEF TypeOK
<1>3. QED
  BY <1>1, <1>2, Shapes, PlayGoesOn DEF Done

\* A process that takes its next step keeps the types.
LEMMA StepTyped ==
    ASSUME TypeOK, NEW s \in {"stop", "arm", "reload", "verify", "fail", "restart", "confirm",
       "record"},
           Step(s)
    PROVE  job' \in Job /\ play' \in Play /\ secrets' \in Creds /\ pending' \in Creds /\ source'
       \in 0 .. 1
BY DEF TypeOK, Step, Controller, Job

\* Every operation of the service, the play and the barrier keeps the shapes.
LEMMA TypeStep == IInv /\ [Next]_vars => TypeOK'
<1> SUFFICES ASSUME IInv, [Next]_vars PROVE TypeOK'
  OBVIOUS
<1> DEFINE UnitType == [file : {"absent", "legacy", "gated"}, loaded : {"absent", "legacy",
   "gated"},
                        state : {"active", "stopped", "failed"}, runs : Published]
<1>1. /\ TypeOK /\ MaxRevoke \in Nat /\ MaxAdverse \in Nat
      /\ 0 \in Creds /\ adverse \in 0 .. MaxAdverse
  BY BarrierConstants DEF RevokeAssumption, AdverseAssumption, Creds, IInv, TypeOK
<1>2. /\ secrets \in Creds /\ pending \in Creds /\ source \in 0 .. 1
      /\ play \in Play /\ job \in Job /\ fence \in Fences /\ file \in Published /\ unit \in UnitType
  BY <1>1 DEF TypeOK
<1>3. Adverse => adverse' \in 0 .. MaxAdverse
  BY <1>1 DEF Adverse
<1>4. /\ Stopped(unit) \in UnitType /\ Reloaded(unit) \in UnitType
      /\ Started(unit) \in UnitType /\ Stopped(Reloaded(unit)) \in UnitType
      /\ Started(Stopped(Reloaded(unit))) \in UnitType
  BY <1>2, Shapes DEF Stopped, Reloaded, Started
<1>5. CASE UnitCrash
  BY <1>1, <1>2, <1>3, <1>5, Shapes DEF UnitCrash, Controller, TypeOK
<1>6. CASE UnitRestart
  BY <1>1, <1>2, <1>4, <1>6 DEF UnitRestart, Controller, TypeOK
<1>7. CASE Reboot
  <2>1. unit' \in UnitType
    BY <1>2, <1>4, <1>7, Shapes DEF Reboot
  <2>2. QED
    BY <1>1, <1>2, <1>3, <1>7, <2>1, Shapes DEF Reboot, Controller, TypeOK
<1>8. CASE Revoke
  BY <1>1, <1>2, <1>8 DEF Revoke, TypeOK, Creds
<1>9. CASE Upgrade
  BY <1>1, <1>2, <1>3, <1>9 DEF Upgrade, TypeOK
<1>10. CASE \E a \in Creds : StartPlay(a)
  <2>1. PICK a \in Creds : StartPlay(a)
    BY <1>10
  <2>2. play' \in Play
    BY <1>1, <2>1, Shapes DEF StartPlay, Play, Steps
  <2>3. QED
    BY <1>1, <1>2, <2>1, <2>2 DEF StartPlay, Controller, TypeOK
<1>11. CASE PlayDies
  <2>1. job' \in Job
    BY <1>2, <1>11 DEF PlayDies, Job
  <2>2. QED
    BY <1>1, <1>2, <1>3, <1>11, <2>1, Shapes DEF PlayDies, Controller, TypeOK
<1>12. CASE Call
  <2>1. job' \in Job /\ play' \in Play
    BY <1>2, <1>12 DEF Call, Job, Play
  <2>2. QED
    BY <1>1, <1>2, <1>12, <2>1 DEF Call, Controller, TypeOK
<1>13. CASE CallBusy
  BY <1>1, <1>2, <1>13, PlayGoesOn DEF CallBusy, Controller, TypeOK
<1>14. CASE Install
  <2>1. play' \in Play
    BY <1>2, <1>14 DEF Install, Play, Steps
  <2>2. unit' \in UnitType
    BY <1>2, <1>14 DEF Install
  <2>3. QED
    BY <1>1, <1>2, <1>14, <2>1, <2>2 DEF Install, Controller, TypeOK
<1>15. CASE Write
  <2>1. play' \in Play /\ play.want \in Published
    BY <1>2, <1>15 DEF Write, Play, Steps
  <2>2. unit' \in UnitType
    BY <1>2, <1>15 DEF Write
  <2>3. QED
    BY <1>1, <1>2, <1>15, <2>1, <2>2 DEF Write, Controller, TypeOK
<1>16. CASE OrdinaryStart
  BY <1>1, <1>2, <1>4, <1>16, Shapes DEF OrdinaryStart, Controller, TypeOK
<1>17. CASE Open
  <2>1. \/ \E ok \in BOOLEAN : Done(ok)
        \/ \E s \in {"stop", "arm"} : Step(s)
    BY <1>17 DEF Open
  <2>2. QED
    BY <1>1, <1>2, <1>17, <2>1, DoneTyped, StepTyped DEF Open, TypeOK
<1>18. CASE Arm
  <2>1. \/ \E ok \in BOOLEAN : Done(ok)
        \/ \E s \in {"verify", "reload"} : Step(s)
    BY <1>18 DEF Arm
  <2>2. ArmedFence \in Fences
    BY <1>2 DEF ArmedFence, Fences, Job
  <2>3. fence' \in Fences
    BY <1>2, <1>18, <2>2 DEF Arm
  <2>4. QED
    BY <1>1, <1>2, <1>18, <2>1, <2>3, DoneTyped, StepTyped DEF Arm, TypeOK
<1>19. CASE Reload
  BY <1>1, <1>2, <1>4, <1>19, StepTyped DEF Reload, TypeOK
<1>20. CASE Stop
  BY <1>1, <1>2, <1>4, <1>20, DoneTyped DEF Stop, TypeOK
<1>21. CASE Verify
  <2>1. Done(TRUE) \/ \E s \in {"fail", "restart"} : Step(s)
    BY <1>21 DEF Verify
  <2>2. QED
    BY <1>1, <1>2, <1>21, <2>1, DoneTyped, StepTyped DEF Verify, TypeOK
<1>22. CASE Restart
  BY <1>1, <1>2, <1>4, <1>22, StepTyped DEF Restart, TypeOK
<1>23. CASE Confirm
  BY <1>1, <1>2, <1>23, StepTyped DEF Confirm, TypeOK
<1>24. CASE Record
  <2>1. fence' \in Fences
    BY <1>2, <1>24 DEF Record, Fences
  <2>2. QED
    BY <1>1, <1>2, <1>24, <2>1, DoneTyped DEF Record, TypeOK
<1>25. CASE Fail
  BY <1>1, <1>2, <1>4, <1>25, DoneTyped DEF Fail, TypeOK
<1>26. CASE JobDies
  BY <1>1, <1>2, <1>3, <1>26, PlayGoesOn, Shapes DEF JobDies, Controller, TypeOK
<1>27. CASE UNCHANGED vars
  BY <1>1, <1>27 DEF vars, TypeOK
<1>28. QED
  BY <1>5, <1>6, <1>7, <1>8, <1>9, <1>10, <1>11, <1>12, <1>13, <1>14, <1>15, <1>16, <1>17, <1>18,
     <1>19, <1>20, <1>21, <1>22, <1>23, <1>24, <1>25, <1>26, <1>27 DEF Next, Playing, Barrier

-----------------------------------------------------------------------------
(* The other parts of the invariant                                        *)

\* The controller starts a revocation only when none is pending, and only its
\* play, its processes and its fence name it.
LEMMA AuthorityStep == IInv /\ [Next]_vars => AuthorityInv'
<1> SUFFICES ASSUME IInv, [Next]_vars PROVE AuthorityInv'
  OBVIOUS
<1> USE BarrierConstants DEF IInv, TypeOK, RevokeAssumption, AdverseAssumption, Creds, Content,
          Nothing, Published, Fences, Steps, Play, Job, AuthorityInv, CallInv, DoneIsRecorded,
          Proving, HasPlay, Working, Unfinished
<1>1. CASE UnitCrash
  BY <1>1 DEF UnitCrash, Adverse, Controller
<1>2. CASE UnitRestart
  BY <1>2 DEF UnitRestart, Starts, Started, Controller
<1>3. CASE Reboot
  BY <1>3 DEF Reboot, Adverse, Reloaded, Controller, NoJob, NoPlay
<1>4. CASE Revoke
  BY <1>4 DEF Revoke
<1>5. CASE Upgrade
  BY <1>5 DEF Upgrade, Adverse
<1>6. CASE \E a \in Creds : StartPlay(a)
  BY <1>6 DEF StartPlay, Rendered, Controller
<1>7. CASE PlayDies
  BY <1>7 DEF PlayDies, Adverse, Controller, NoPlay
<1>8. CASE Call
  BY <1>8 DEF Call, Calling, Controller
<1>9. CASE CallBusy
  BY <1>9 DEF CallBusy, Calling, Rescued, Controller
<1>10. CASE Install
  BY <1>10 DEF Install, Controller
<1>11. CASE Write
  BY <1>11 DEF Write, Controller
<1>12. CASE OrdinaryStart
  BY <1>12 DEF OrdinaryStart, Starts, Started, Stopped, Reloaded, NoPlay, Controller
<1>13. CASE Open
  <2>0. job.at = "open" /\ UNCHANGED <<fence, file, unit, adverse>>
    BY <1>13 DEF Open
  <2>1. CASE Done(FALSE)
    BY <2>0, <2>1 DEF Done, Advanced, Rescued, NoJob
  <2>2. CASE job.action \in {"guard", "abort"} /\ Done(TRUE)
    BY <2>0, <2>2 DEF Done, Advanced, Rescued, NoJob
  <2>3. CASE job.action = "abort" /\ Step("stop")
    BY <2>0, <2>3 DEF Step, Controller
  <2>4. CASE job.action \in {"begin", "activate"} /\ Step("arm")
    BY <2>0, <2>4 DEF Step, Controller
  <2>5. QED
    BY <1>13, <2>1, <2>2, <2>3, <2>4 DEF Open, ArmedFence
<1>14. CASE Arm
  <2>0. job.at = "arm" /\ UNCHANGED <<file, unit, adverse>>
    BY <1>14 DEF Arm
  <2>1. CASE Done(FALSE) /\ UNCHANGED fence
    BY <2>0, <2>1 DEF Done, Advanced, Rescued, NoJob
  <2>2. CASE job.action = "activate" /\ fence' = ArmedFence /\ Step("verify")
    BY <2>0, <2>2 DEF Step, Controller, ArmedFence
  <2>3. CASE job.action = "begin" /\ fence' = ArmedFence /\ ArmedFence.receipt = "none" /\
     Step("reload")
    BY <2>0, <2>3 DEF Step, Controller, ArmedFence
  <2>4. CASE job.action = "begin" /\ fence' = ArmedFence /\ ArmedFence.receipt = "recorded" /\
     Done(TRUE)
    BY <2>0, <2>4 DEF Done, Advanced, Rescued, NoJob, ArmedFence
  <2>5. QED
    BY <1>14, <2>1, <2>2, <2>3, <2>4 DEF Arm, ArmedFence
<1>15. CASE Reload
  BY <1>15 DEF Reload, Step, Reloaded, Controller
<1>16. CASE Stop
  BY <1>16 DEF Stop, Done, Stopped, Advanced, Rescued, NoJob
<1>17. CASE Verify
  <2>0. job.at = "verify" /\ UNCHANGED <<fence, file, unit, adverse>>
    BY <1>17 DEF Verify
  <2>1. CASE Step("fail")
    BY <2>0, <2>1 DEF Step, Controller
  <2>2. CASE fence.receipt = "recorded" /\ Done(TRUE)
    BY <2>0, <2>2 DEF Done, Advanced, Rescued, NoJob
  <2>3. CASE Step("restart")
    BY <2>0, <2>3 DEF Step, Controller
  <2>4. QED
    BY <1>17, <2>1, <2>2, <2>3 DEF Verify, ArmedFence
<1>18. CASE Restart
  BY <1>18 DEF Restart, Step, Starts, Started, Stopped, Reloaded, Controller
<1>19. CASE Confirm
  BY <1>19 DEF Confirm, Step, Current, Controller
<1>20. CASE Record
  BY <1>20 DEF Record, Done, Advanced, Rescued, NoJob
<1>21. CASE Fail
  BY <1>21 DEF Fail, Done, Stopped, Advanced, Rescued, NoJob
<1>22. CASE JobDies
  BY <1>22 DEF JobDies, Adverse, Rescued, NoJob, Controller
<1>23. CASE UNCHANGED vars
  BY <1>23 DEF vars
<1>24. QED
  BY <1>1, <1>2, <1>3, <1>4, <1>5, <1>6, <1>7, <1>8, <1>9, <1>10, <1>11, <1>12, <1>13, <1>14,
     <1>15, <1>16, <1>17, <1>18, <1>19, <1>20, <1>21, <1>22, <1>23 DEF Next, Playing, Barrier

\* A process steps on only within its own call, and answers the play that
\* still waits for it.
LEMMA CallStep == IInv /\ [Next]_vars => CallInv'
<1> SUFFICES ASSUME IInv, [Next]_vars PROVE CallInv'
  OBVIOUS
<1> USE BarrierConstants DEF IInv, TypeOK, RevokeAssumption, AdverseAssumption, Creds, Content,
          Nothing, Published, Fences, Steps, Play, Job, AuthorityInv, CallInv, NoJob, Proving,
          HasPlay, Working, Unfinished
<1>1. CASE UnitCrash
  BY <1>1 DEF UnitCrash, Adverse, Controller
<1>2. CASE UnitRestart
  BY <1>2 DEF UnitRestart, Starts, Started, Controller
<1>3. CASE Reboot
  BY <1>3 DEF Reboot, Adverse, Reloaded, Controller, NoJob, NoPlay
<1>4. CASE Revoke
  BY <1>4 DEF Revoke
<1>5. CASE Upgrade
  BY <1>5 DEF Upgrade, Adverse
<1>6. CASE \E a \in Creds : StartPlay(a)
  BY <1>6 DEF StartPlay, Rendered, Controller
<1>7. CASE PlayDies
  <2>1. job' = [job EXCEPT !.mine = FALSE] /\ play' = NoPlay /\ UNCHANGED fence
    BY <1>7 DEF PlayDies
  <2>2. job'.at = job.at /\ job'.action = job.action /\ job'.authority = job.authority /\ ~job'.mine
    BY <2>1
  <2>3. QED
    BY <2>1, <2>2
<1>8. CASE Call
  BY <1>8 DEF Call, Calling, Controller
<1>9. CASE CallBusy
  BY <1>9 DEF CallBusy, Calling, Rescued, Controller
<1>10. CASE Install
  BY <1>10 DEF Install, Controller
<1>11. CASE Write
  BY <1>11 DEF Write, Controller
<1>12. CASE OrdinaryStart
  BY <1>12 DEF OrdinaryStart, Starts, Started, Stopped, Reloaded, NoPlay, Controller
<1>13. CASE Open
  BY <1>13 DEF Open, Done, Step, Foreign, Advanced, Rescued, NoJob, Controller
<1>14. CASE Arm
  BY <1>14 DEF Arm, Done, Step, ArmedFence, Advanced, Rescued, NoJob, Controller
<1>15. CASE Reload
  BY <1>15 DEF Reload, Step, Reloaded, Controller
<1>16. CASE Stop
  BY <1>16 DEF Stop, Done, Stopped, Advanced, Rescued, NoJob
<1>17. CASE Verify
  BY <1>17 DEF Verify, Done, Step, Current, Advanced, Rescued, NoJob, Controller
<1>18. CASE Restart
  BY <1>18 DEF Restart, Step, Starts, Started, Stopped, Reloaded, Controller
<1>19. CASE Confirm
  BY <1>19 DEF Confirm, Step, Current, Controller
<1>20. CASE Record
  BY <1>20 DEF Record, Done, Advanced, Rescued, NoJob
<1>21. CASE Fail
  BY <1>21 DEF Fail, Done, Stopped, Advanced, Rescued, NoJob
<1>22. CASE JobDies
  BY <1>22 DEF JobDies, Adverse, Rescued, NoJob, Controller
<1>23. CASE UNCHANGED vars
  BY <1>23 DEF vars
<1>24. QED
  BY <1>1, <1>2, <1>3, <1>4, <1>5, <1>6, <1>7, <1>8, <1>9, <1>10, <1>11, <1>12, <1>13, <1>14,
     <1>15, <1>16, <1>17, <1>18, <1>19, <1>20, <1>21, <1>22, <1>23 DEF Next, Playing, Barrier

\* A play renders the current secrets, and no revocation overtakes one that
\* is pending.
LEMMA WantStep == IInv /\ [Next]_vars => WantInv'
<1> SUFFICES ASSUME IInv, [Next]_vars PROVE WantInv'
  OBVIOUS
<1> USE BarrierConstants DEF IInv, TypeOK, RevokeAssumption, AdverseAssumption, Creds, Content,
          Nothing, Published, Fences, Steps, Play, Job, AuthorityInv, CallInv, WantInv, HasPlay,
          Working, Unfinished
<1>1. CASE UnitCrash
  BY <1>1 DEF UnitCrash, Adverse, Controller
<1>2. CASE UnitRestart
  BY <1>2 DEF UnitRestart, Starts, Started, Controller
<1>3. CASE Reboot
  BY <1>3 DEF Reboot, Adverse, Reloaded, Controller, NoJob, NoPlay
<1>4. CASE Revoke
  BY <1>4 DEF Revoke
<1>5. CASE Upgrade
  BY <1>5 DEF Upgrade, Adverse
<1>6. CASE \E a \in Creds : StartPlay(a)
  BY <1>6 DEF StartPlay, Rendered, Controller
<1>7. CASE PlayDies
  BY <1>7 DEF PlayDies, Adverse, Controller, NoPlay
<1>8. CASE Call
  BY <1>8 DEF Call, Calling, Controller
<1>9. CASE CallBusy
  BY <1>9 DEF CallBusy, Calling, Rescued, Controller
<1>10. CASE Install
  BY <1>10 DEF Install, Controller
<1>11. CASE Write
  BY <1>11 DEF Write, Controller
<1>12. CASE OrdinaryStart
  BY <1>12 DEF OrdinaryStart, Starts, Started, Stopped, Reloaded, NoPlay, Controller
<1>13. CASE Open
  <2>0. job.at = "open" /\ UNCHANGED <<fence, file, unit, adverse>>
    BY <1>13 DEF Open
  <2>1. CASE Done(FALSE)
    BY <2>0, <2>1 DEF Done, Advanced, Rescued, NoJob
  <2>2. CASE job.action \in {"guard", "abort"} /\ Done(TRUE)
    BY <2>0, <2>2 DEF Done, Advanced, Rescued, NoJob
  <2>3. CASE job.action = "abort" /\ Step("stop")
    BY <2>0, <2>3 DEF Step, Controller
  <2>4. CASE job.action \in {"begin", "activate"} /\ Step("arm")
    BY <2>0, <2>4 DEF Step, Controller
  <2>5. QED
    BY <1>13, <2>1, <2>2, <2>3, <2>4 DEF Open, ArmedFence
<1>14. CASE Arm
  <2>0. job.at = "arm" /\ UNCHANGED <<file, unit, adverse>>
    BY <1>14 DEF Arm
  <2>1. CASE Done(FALSE) /\ UNCHANGED fence
    BY <2>0, <2>1 DEF Done, Advanced, Rescued, NoJob
  <2>2. CASE job.action = "activate" /\ fence' = ArmedFence /\ Step("verify")
    BY <2>0, <2>2 DEF Step, Controller, ArmedFence
  <2>3. CASE job.action = "begin" /\ fence' = ArmedFence /\ ArmedFence.receipt = "none" /\
     Step("reload")
    BY <2>0, <2>3 DEF Step, Controller, ArmedFence
  <2>4. CASE job.action = "begin" /\ fence' = ArmedFence /\ ArmedFence.receipt = "recorded" /\
     Done(TRUE)
    BY <2>0, <2>4 DEF Done, Advanced, Rescued, NoJob, ArmedFence
  <2>5. QED
    BY <1>14, <2>1, <2>2, <2>3, <2>4 DEF Arm, ArmedFence
<1>15. CASE Reload
  BY <1>15 DEF Reload, Step, Reloaded, Controller
<1>16. CASE Stop
  BY <1>16 DEF Stop, Done, Stopped, Advanced, Rescued, NoJob
<1>17. CASE Verify
  <2>0. job.at = "verify" /\ UNCHANGED <<fence, file, unit, adverse>>
    BY <1>17 DEF Verify
  <2>1. CASE Step("fail")
    BY <2>0, <2>1 DEF Step, Controller
  <2>2. CASE fence.receipt = "recorded" /\ Done(TRUE)
    BY <2>0, <2>2 DEF Done, Advanced, Rescued, NoJob
  <2>3. CASE Step("restart")
    BY <2>0, <2>3 DEF Step, Controller
  <2>4. QED
    BY <1>17, <2>1, <2>2, <2>3 DEF Verify, ArmedFence
<1>18. CASE Restart
  BY <1>18 DEF Restart, Step, Starts, Started, Stopped, Reloaded, Controller
<1>19. CASE Confirm
  BY <1>19 DEF Confirm, Step, Current, Controller
<1>20. CASE Record
  BY <1>20 DEF Record, Done, Advanced, Rescued, NoJob
<1>21. CASE Fail
  BY <1>21 DEF Fail, Done, Stopped, Advanced, Rescued, NoJob
<1>22. CASE JobDies
  BY <1>22 DEF JobDies, Adverse, Rescued, NoJob, Controller
<1>23. CASE UNCHANGED vars
  BY <1>23 DEF vars
<1>24. QED
  BY <1>1, <1>2, <1>3, <1>4, <1>5, <1>6, <1>7, <1>8, <1>9, <1>10, <1>11, <1>12, <1>13, <1>14,
     <1>15, <1>16, <1>17, <1>18, <1>19, <1>20, <1>21, <1>22, <1>23 DEF Next, Playing, Barrier

\* Nothing older than a recorded revocation is written or started again.
LEMMA FreshStep == IInv /\ [Next]_vars => FreshInv'
<1> SUFFICES ASSUME IInv, [Next]_vars PROVE FreshInv'
  OBVIOUS
<1> USE BarrierConstants DEF IInv, TypeOK, RevokeAssumption, AdverseAssumption, Creds, Content,
          Nothing, Published, Fences, Steps, Play, Job, AuthorityInv, CallInv, WantInv, FreshInv,
          Fresh, Proving, HasPlay, Working, Unfinished
<1>1. CASE UnitCrash
  BY <1>1 DEF UnitCrash, Adverse, Controller
<1>2. CASE UnitRestart
  BY <1>2 DEF UnitRestart, Starts, Started, Controller
<1>3. CASE Reboot
  BY <1>3 DEF Reboot, Adverse, Reloaded, Controller, NoJob, NoPlay
<1>4. CASE Revoke
  BY <1>4 DEF Revoke
<1>5. CASE Upgrade
  BY <1>5 DEF Upgrade, Adverse
<1>6. CASE \E a \in Creds : StartPlay(a)
  BY <1>6 DEF StartPlay, Rendered, Controller
<1>7. CASE PlayDies
  BY <1>7 DEF PlayDies, Adverse, Controller, NoPlay
<1>8. CASE Call
  BY <1>8 DEF Call, Calling, Controller
<1>9. CASE CallBusy
  BY <1>9 DEF CallBusy, Calling, Rescued, Controller
<1>10. CASE Install
  BY <1>10 DEF Install, Controller
<1>11. CASE Write
  BY <1>11 DEF Write, Controller
<1>12. CASE OrdinaryStart
  BY <1>12 DEF OrdinaryStart, Starts, Started, Stopped, Reloaded, NoPlay, Controller
<1>13. CASE Open
  BY <1>13 DEF Open, Done, Step, Foreign, Advanced, Rescued, NoJob, Controller
<1>14. CASE Arm
  BY <1>14 DEF Arm, Done, Step, ArmedFence, Advanced, Rescued, NoJob, Controller
<1>15. CASE Reload
  BY <1>15 DEF Reload, Step, Reloaded, Controller
<1>16. CASE Stop
  BY <1>16 DEF Stop, Done, Stopped, Advanced, Rescued, NoJob
<1>17. CASE Verify
  BY <1>17 DEF Verify, Done, Step, Current, Advanced, Rescued, NoJob, Controller
<1>18. CASE Restart
  BY <1>18 DEF Restart, Step, Starts, Started, Stopped, Reloaded, Controller
<1>19. CASE Confirm
  BY <1>19 DEF Confirm, Step, Current, Controller
<1>20. CASE Record
  BY <1>20 DEF Record, Done, Advanced, Rescued, NoJob
<1>21. CASE Fail
  BY <1>21 DEF Fail, Done, Stopped, Advanced, Rescued, NoJob
<1>22. CASE JobDies
  BY <1>22 DEF JobDies, Adverse, Rescued, NoJob, Controller
<1>23. CASE UNCHANGED vars
  BY <1>23 DEF vars
<1>24. QED
  BY <1>1, <1>2, <1>3, <1>4, <1>5, <1>6, <1>7, <1>8, <1>9, <1>10, <1>11, <1>12, <1>13, <1>14,
     <1>15, <1>16, <1>17, <1>18, <1>19, <1>20, <1>21, <1>22, <1>23 DEF Next, Playing, Barrier

\* The unit that begin stopped stays down until its files are written.
LEMMA DownStep == IInv /\ [Next]_vars => DownInv'
<1> SUFFICES ASSUME IInv, [Next]_vars PROVE DownInv'
  OBVIOUS
<1> USE BarrierConstants DEF IInv, TypeOK, RevokeAssumption, AdverseAssumption, Creds, Content,
          Nothing, Published, Fences, Steps, Play, Job, AuthorityInv, CallInv, DownInv, Proving,
          HasPlay, Working, Unfinished
<1>1. CASE UnitCrash
  BY <1>1 DEF UnitCrash, Adverse, Controller
<1>2. CASE UnitRestart
  BY <1>2 DEF UnitRestart, Starts, Started, Controller
<1>3. CASE Reboot
  BY <1>3 DEF Reboot, Adverse, Reloaded, Controller, NoJob, NoPlay
<1>4. CASE Revoke
  BY <1>4 DEF Revoke
<1>5. CASE Upgrade
  BY <1>5 DEF Upgrade, Adverse
<1>6. CASE \E a \in Creds : StartPlay(a)
  BY <1>6 DEF StartPlay, Rendered, Controller
<1>7. CASE PlayDies
  BY <1>7 DEF PlayDies, Adverse, Controller, NoPlay
<1>8. CASE Call
  BY <1>8 DEF Call, Calling, Controller
<1>9. CASE CallBusy
  BY <1>9 DEF CallBusy, Calling, Rescued, Controller
<1>10. CASE Install
  BY <1>10 DEF Install, Controller
<1>11. CASE Write
  BY <1>11 DEF Write, Controller
<1>12. CASE OrdinaryStart
  BY <1>12 DEF OrdinaryStart, Starts, Started, Stopped, Reloaded, NoPlay, Controller
<1>13. CASE Open
  BY <1>13 DEF Open, Done, Step, Foreign, Advanced, Rescued, NoJob, Controller
<1>14. CASE Arm
  <2>0. job.at = "arm" /\ UNCHANGED <<file, unit, adverse>>
    BY <1>14 DEF Arm
  <2>1. CASE Done(FALSE) /\ UNCHANGED fence
    BY <2>0, <2>1 DEF Done, Advanced, Rescued, NoJob
  <2>2. CASE job.action = "activate" /\ fence' = ArmedFence /\ Step("verify")
    BY <2>0, <2>2 DEF Step, Controller, ArmedFence
  <2>3. CASE job.action = "begin" /\ fence' = ArmedFence /\ ArmedFence.receipt = "none" /\
     Step("reload")
    BY <2>0, <2>3 DEF Step, Controller, ArmedFence
  <2>4. CASE job.action = "begin" /\ fence' = ArmedFence /\ ArmedFence.receipt = "recorded" /\
     Done(TRUE)
    BY <2>0, <2>4 DEF Done, Advanced, Rescued, NoJob, ArmedFence
  <2>5. QED
    BY <1>14, <2>1, <2>2, <2>3, <2>4 DEF Arm, ArmedFence
<1>15. CASE Reload
  BY <1>15 DEF Reload, Step, Reloaded, Controller
<1>16. CASE Stop
  BY <1>16 DEF Stop, Done, Stopped, Advanced, Rescued, NoJob
<1>17. CASE Verify
  BY <1>17 DEF Verify, Done, Step, Current, Advanced, Rescued, NoJob, Controller
<1>18. CASE Restart
  BY <1>18 DEF Restart, Step, Starts, Started, Stopped, Reloaded, Controller
<1>19. CASE Confirm
  BY <1>19 DEF Confirm, Step, Current, Controller
<1>20. CASE Record
  BY <1>20 DEF Record, Done, Advanced, Rescued, NoJob
<1>21. CASE Fail
  BY <1>21 DEF Fail, Done, Stopped, Advanced, Rescued, NoJob
<1>22. CASE JobDies
  BY <1>22 DEF JobDies, Adverse, Rescued, NoJob, Controller
<1>23. CASE UNCHANGED vars
  BY <1>23 DEF vars
<1>24. QED
  BY <1>1, <1>2, <1>3, <1>4, <1>5, <1>6, <1>7, <1>8, <1>9, <1>10, <1>11, <1>12, <1>13, <1>14,
     <1>15, <1>16, <1>17, <1>18, <1>19, <1>20, <1>21, <1>22, <1>23 DEF Next, Playing, Barrier

\* The controller hears of success only from the process that recorded it.
LEMMA DoneStep == IInv /\ [Next]_vars => DoneIsRecorded'
<1> SUFFICES ASSUME IInv, [Next]_vars PROVE DoneIsRecorded'
  OBVIOUS
<1> USE BarrierConstants DEF IInv, TypeOK, RevokeAssumption, AdverseAssumption, Creds, Content,
          Nothing, Published, Fences, Steps, Play, Job, AuthorityInv, CallInv, DoneIsRecorded,
          Proving, HasPlay, Working, Unfinished
<1>1. CASE UnitCrash
  BY <1>1 DEF UnitCrash, Adverse, Controller
<1>2. CASE UnitRestart
  BY <1>2 DEF UnitRestart, Starts, Started, Controller
<1>3. CASE Reboot
  BY <1>3 DEF Reboot, Adverse, Reloaded, Controller, NoJob, NoPlay
<1>4. CASE Revoke
  BY <1>4 DEF Revoke
<1>5. CASE Upgrade
  BY <1>5 DEF Upgrade, Adverse
<1>6. CASE \E a \in Creds : StartPlay(a)
  BY <1>6 DEF StartPlay, Rendered, Controller
<1>7. CASE PlayDies
  BY <1>7 DEF PlayDies, Adverse, Controller, NoPlay
<1>8. CASE Call
  BY <1>8 DEF Call, Calling, Controller
<1>9. CASE CallBusy
  BY <1>9 DEF CallBusy, Calling, Rescued, Controller
<1>10. CASE Install
  BY <1>10 DEF Install, Controller
<1>11. CASE Write
  BY <1>11 DEF Write, Controller
<1>12. CASE OrdinaryStart
  BY <1>12 DEF OrdinaryStart, Starts, Started, Stopped, Reloaded, NoPlay, Controller
<1>13. CASE Open
  BY <1>13 DEF Open, Done, Step, Foreign, Advanced, Rescued, NoJob, Controller
<1>14. CASE Arm
  BY <1>14 DEF Arm, Done, Step, ArmedFence, Advanced, Rescued, NoJob, Controller
<1>15. CASE Reload
  BY <1>15 DEF Reload, Step, Reloaded, Controller
<1>16. CASE Stop
  BY <1>16 DEF Stop, Done, Stopped, Advanced, Rescued, NoJob
<1>17. CASE Verify
  BY <1>17 DEF Verify, Done, Step, Current, Advanced, Rescued, NoJob, Controller
<1>18. CASE Restart
  BY <1>18 DEF Restart, Step, Starts, Started, Stopped, Reloaded, Controller
<1>19. CASE Confirm
  BY <1>19 DEF Confirm, Step, Current, Controller
<1>20. CASE Record
  BY <1>20 DEF Record, Done, Advanced, Rescued, NoJob
<1>21. CASE Fail
  BY <1>21 DEF Fail, Done, Stopped, Advanced, Rescued, NoJob
<1>22. CASE JobDies
  BY <1>22 DEF JobDies, Adverse, Rescued, NoJob, Controller
<1>23. CASE UNCHANGED vars
  BY <1>23 DEF vars
<1>24. QED
  BY <1>1, <1>2, <1>3, <1>4, <1>5, <1>6, <1>7, <1>8, <1>9, <1>10, <1>11, <1>12, <1>13, <1>14,
     <1>15, <1>16, <1>17, <1>18, <1>19, <1>20, <1>21, <1>22, <1>23 DEF Next, Playing, Barrier

-----------------------------------------------------------------------------
(* The theorems                                                            *)

\* The first deployment, of either kind of unit, satisfies the invariant.
LEMMA InitIInv == Init => IInv
<1> SUFFICES ASSUME Init PROVE IInv
  OBVIOUS
<1>1. 0 \in Creds /\ 0 \in 0 .. MaxAdverse
  BY BarrierConstants DEF RevokeAssumption, AdverseAssumption, Creds
<1>2. file \in Published /\ fence \in Fences
  BY <1>1, Shapes DEF Init, Published, Content, NoFence, Fences
<1>3. TypeOK
  BY <1>1, <1>2, Shapes DEF Init, TypeOK
<1>4. AuthorityInv /\ CallInv /\ WantInv /\ FreshInv /\ DownInv /\ DoneIsRecorded
  BY DEF Init, NoPlay, NoJob, NoFence, AuthorityInv, CallInv, WantInv, FreshInv, Fresh, DownInv,
         DoneIsRecorded, HasPlay, Working, Unfinished, Proving
<1>5. QED
  BY <1>3, <1>4 DEF IInv

\* IInv is an invariant of the barrier, whatever dies or crashes.
LEMMA Invariance == Spec => []IInv
<1>1. IInv /\ [Next]_vars => IInv'
  BY TypeStep, AuthorityStep, CallStep, WantStep, FreshStep, DownStep, DoneStep DEF IInv
<1>2. QED
  BY InitIInv, <1>1, PTL DEF Spec

\* For any number of revocations and failures, the record, the processes and
\* the unit keep the shape the code writes (device_revocation_barrier.py).
THEOREM Typed == Spec => []TypeOK
<1>1. IInv => TypeOK
  BY DEF IInv
<1>2. QED
  BY Invariance, <1>1, PTL

\* From begin to the last file the role replaces, nothing serves: whichever
\* crash, restart, older unit or late process intervenes.
THEOREM DownUntilWritten == Spec => []DownWhileWriting
<1>1. IInv => DownWhileWriting
  BY DEF IInv, DownInv, DownWhileWriting
<1>2. QED
  BY Invariance, <1>1, PTL

\* Once a receipt is recorded no service and no file is older than its
\* revocation, through every later play, crash and reboot.
THEOREM ReceiptsFinal == Spec => []ReceiptFinal
<1>1. IInv => ReceiptFinal
  BY DEF IInv, FreshInv, Fresh, ReceiptFinal
<1>2. QED
  BY Invariance, <1>1, PTL

\* A revocation the controller takes for finished is recorded on the host.
THEOREM DoneRecorded == Spec => []DoneIsRecorded
<1>1. IInv => DoneIsRecorded
  BY DEF IInv
<1>2. QED
  BY Invariance, <1>1, PTL

=============================================================================
