---------------------- MODULE RuntimeTransactionProofs ----------------------
(***************************************************************************)
(* Safety of the durable publisher for any set of paths, candidates and    *)
(* revocations and any number of stagings, crashes and faults.             *)
(***************************************************************************)
EXTENDS RuntimeTransaction, TLAPS

-----------------------------------------------------------------------------
(* The shapes of links, receipts and intents                               *)

\* A record that says nothing is a record of its kind.
LEMMA EmptyShapes ==
    /\ NoReceipt \in Receipt /\ NoIntent \in Intent /\ NoRevocation \in Revocation
    /\ NoOuter \in Outer /\ Idle \in Job /\ Stopped \in Claims
    /\ [p \in Paths |-> Absent] \in Links
<1> USE BoundsAssumption DEF Node, Absent, Unclaimed, Links, Claims
<1>1. [p \in Paths |-> Absent] \in Links /\ [p \in Paths |-> Unclaimed] \in Claims
  OBVIOUS
<1>2. NoReceipt \in Receipt
  BY <1>1 DEF NoReceipt, Receipt
<1> HIDE DEF Links, Claims
<1>3. NoIntent \in Intent
  BY <1>1, <1>2 DEF NoIntent, Intent
<1>4. None \in Authority
  BY DEF Authority
<1>5. NoRevocation \in Revocation
  BY <1>2, <1>4 DEF NoRevocation, Revocation
<1>6. NoOuter \in Outer
  BY <1>2, <1>4, SMTT(30) DEF NoOuter, Outer
<1>7. Idle \in Job
  BY <1>4 DEF Idle, Job, Steps
<1>8. QED
  BY <1>1, <1>2, <1>3, <1>5, <1>6, <1>7 DEF Stopped

\* Links are claims, and stay links when one of them is changed.
LEMMA LinkShapes ==
    /\ \A f \in Links : f \in Claims
    /\ \A f \in Links, p \in Paths, n \in Node : [f EXCEPT ![p] = n] \in Links
    /\ \A f \in Links, p \in Paths : f[p] \in Node
    /\ \A f \in Claims, p \in Paths : f[p] \in Node \cup {Unclaimed}
    /\ Absent \in Node
BY BoundsAssumption DEF Links, Claims, Node, Absent

\* What an intent makes of the retained rollbacks.
LEMMA BackupShapes ==
    ASSUME NEW v \in Intent
    PROVE  AfterBackups(v) \in Claims /\ CompensatedBackups(v) \in Claims
<1>1. v.was \in Links /\ v.backups \in Claims /\ v.cover \in SUBSET Paths
  BY DEF Intent
<1>2. \A f \in Claims, g \in Links, c \in SUBSET Paths : Overlay(f, c, g) \in Claims
  BY DEF Overlay, Claims, Links
<1>3. QED
  BY <1>1, <1>2, EmptyShapes DEF AfterBackups, CompensatedBackups

\* A candidate that takes over the paths its fence remembers is a candidate.
LEMMA ExtendedShape ==
    ASSUME NEW c \in Candidate, NEW a, revocation.absent \subseteq Paths \ Deferred
    PROVE  Extended(c, a) \in Candidate
<1>1. /\ c.cover \in (SUBSET Paths) \ {{}} /\ c.gone \in SUBSET (Paths \ Deferred)
      /\ c.bytes \in Bytes \cup {None}
      /\ c.gone \subseteq c.cover /\ ((c.bytes = None) <=> (c.gone = c.cover))
  BY DEF Candidate
<1> DEFINE k == c.cover \cup revocation.absent
           g == c.gone \cup (revocation.absent \ c.cover)
<1>2. /\ k \in (SUBSET Paths) \ {{}} /\ g \in SUBSET (Paths \ Deferred)
      /\ g \subseteq k /\ ((g = k) <=> (c.gone = c.cover))
  BY <1>1
<1> HIDE DEF k, g
<1>3. [cover |-> k, bytes |-> c.bytes, gone |-> g] \in Candidate
  BY <1>1, <1>2 DEF Candidate
<1>4. QED
  BY <1>3 DEF Extended, k, g

\* The types of the variables, with what the fence remembers as retired.
TypeInv == TypeOK /\ revocation.absent \subseteq Paths \ Deferred

\* The moves of the operation that holds the lock.
LEMMA JobMoves ==
    ASSUME job \in Job
    PROVE  /\ \A s \in Steps : [job EXCEPT !.pc = s] \in Job
           /\ \A s \in Steps : [job EXCEPT !.pc = s, !.phase = "recover"] \in Job
           /\ \A s \in Steps : [job EXCEPT !.pc = s, !.phase = "recover", !.ret = "done"] \in Job
           /\ \A s \in Steps : [job EXCEPT !.pc = s, !.forward = "yes"] \in Job
           /\ Return => job' \in Job
           /\ Done => job' \in Job
<1>1. \A s \in Steps : /\ [job EXCEPT !.pc = s] \in Job
                       /\ [job EXCEPT !.pc = s, !.phase = "recover"] \in Job
                       /\ [job EXCEPT !.pc = s, !.phase = "recover", !.ret = "done"] \in Job
                       /\ [job EXCEPT !.pc = s, !.forward = "yes"] \in Job
  BY DEF Job
<1>2. Return => job' \in Job
  <2>1. job.ret \in {"done", "recovered", "adopt", "reopen"}
    BY DEF Job
  <2>2. \A s \in Steps : [job EXCEPT !.pc = s, !.phase = "main"] \in Job
    BY DEF Job
  <2>3. QED
    BY <2>1, <2>2, EmptyShapes DEF Return, Steps
<1>3. QED
  BY <1>1, <1>2, EmptyShapes DEF Done

\* The service after a stop or a start.
LEMMA ServiceMoves ==
    ASSUME TypeOK
    PROVE  /\ Halt => unit' \in {"on", "off"} /\ running' \in Claims
           /\ Launch => unit' \in {"on", "off"} /\ running' \in Claims
           /\ Ensure => unit' \in {"on", "off"} /\ running' \in Claims
BY EmptyShapes, LinkShapes DEF TypeOK, Halt, Launch, Ensure, service

\* An opened operation.
LEMMA OpenMoves ==
    ASSUME NEW s \in Steps, NEW r \in {"done", "recovered", "adopt", "reopen"}, NEW a \in Authority,
           NEW c \in Candidate \cup {NoPlan}, NEW o \in {"no", "yes"}, NEW f, Open(s, r, a, c, o, f)
    PROVE  job' \in Job
BY DEF Open, Idle, Job, Authority

\* One replacement of a selected node.
LEMMA Replacements ==
    ASSUME TypeOK, NEW p \in Paths
    PROVE  /\ ReplaceAfter(p) => live' \in Links /\ after' \in Links
           /\ ReplaceBefore(p) => live' \in Links /\ before' \in Links
<1>1. live \in Links /\ after \in Links /\ before \in Links /\ pending \in Intent
  BY DEF TypeOK
<1>2. pending.now[p] \in Node /\ pending.was[p] \in Node
  BY <1>1, LinkShapes DEF Intent
<1>3. /\ \A n \in Node : [live EXCEPT ![p] = n] \in Links
      /\ [after EXCEPT ![p] = Absent] \in Links /\ [before EXCEPT ![p] = Absent] \in Links
  BY <1>1, LinkShapes
<1>4. ASSUME NEW f \in Links, NEW b PROVE [f EXCEPT ![p] = IF b THEN @ ELSE Absent] \in Links
  BY <1>4, LinkShapes DEF Links
<1>5. QED
  BY <1>1, <1>2, <1>3, <1>4 DEF ReplaceAfter, ReplaceBefore

\* The fields of an intent.
LEMMA IntentFields ==
    ASSUME NEW v \in Intent
    PROVE  /\ v.cover \subseteq Paths /\ v.was \in Links /\ v.now \in Links
           /\ v.old \in Receipt /\ v.new \in Receipt /\ v.backups \in Claims
           /\ \A p \in Paths : v.was[p] \in Node /\ v.now[p] \in Node
<1>1. /\ v.cover \subseteq Paths /\ v.was \in Links /\ v.now \in Links
      /\ v.old \in Receipt /\ v.new \in Receipt /\ v.backups \in Claims
  BY DEF Intent
<1>2. QED
  BY <1>1, LinkShapes

\* The intent of a staged candidate.
LEMMA IntentShape ==
    ASSUME TypeOK, NEW c, c.cover \subseteq Paths, NEW n \in Node
    PROVE  IntentFor(c, n) \in Intent
<1> DEFINE now == [p \in Paths |-> IF p \in c.cover \ c.gone THEN n ELSE Absent]
           was == [p \in Paths |-> IF p \in c.cover THEN live[p] ELSE Absent]
           new == [nodes |-> Overlay(accepted.nodes, c.cover, now), units |-> "planned"]
<1>1. live \in Links /\ accepted \in Receipt /\ backups \in Claims
  BY DEF TypeOK
<1>2. now \in Links /\ was \in Links
  BY <1>1, LinkShapes DEF Links
<1>3. accepted.nodes \in Claims
  BY <1>1 DEF Receipt
<1>4. Overlay(accepted.nodes, c.cover, now) \in Claims
  BY <1>2, <1>3 DEF Overlay, Claims, Links
<1>5. new \in Receipt
  BY <1>4 DEF Receipt
<1> HIDE DEF now, was, new
<1>6. IntentFor(c, n) = [cover |-> c.cover, now |-> now, was |-> was, old |-> accepted,
                         new |-> new, backups |-> backups]
  BY DEF IntentFor, now, was, new
<1>7. QED
  BY <1>1, <1>2, <1>5, <1>6 DEF Intent

\* A revocation that is armed for a candidate.
LEMMA ArmedShape ==
    ASSUME revocation \in Revocation, revocation.absent \subseteq Paths \ Deferred,
           NEW a \in Authority, NEW c \in Candidate \cup {NoPlan}
    PROVE  Armed(a, c) \in Revocation /\ Armed(a, c).absent \subseteq Paths \ Deferred
<1> DEFINE held == IF revocation.authority = a THEN revocation ELSE [NoRevocation EXCEPT !.authority = a]
<1>1. held \in Revocation /\ held.absent \subseteq Paths \ Deferred
  <2>1. [NoRevocation EXCEPT !.authority = a] \in Revocation
    BY EmptyShapes DEF Revocation
  <2>2. [NoRevocation EXCEPT !.authority = a].absent = {}
    BY DEF NoRevocation
  <2>3. QED
    BY <2>1, <2>2
<1>2. c.gone \subseteq Paths \ Deferred
  BY DEF Candidate, NoPlan
<1> HIDE DEF held
<1>3. /\ [held EXCEPT !.plan = c, !.absent = c.gone] \in Revocation
      /\ [held EXCEPT !.plan = c, !.absent = c.gone].absent = c.gone
  BY <1>1, <1>2 DEF Revocation
<1>4. QED
  BY <1>1, <1>2, <1>3 DEF Armed, held


\* Every step of an operation keeps the shapes.
LEMMA JobStepTyped ==
    ASSUME TypeInv, JobStep PROVE TypeInv'
<1> USE DEF TypeInv, nodes, storage, records, journals, service
<1>T. /\ live \in Links /\ before \in Links /\ after \in Links /\ rollback \in Links /\ undo \in Links
      /\ content \in [1 .. MaxStaged -> Bytes] /\ staged \in Node
      /\ prep \in Intent /\ pending \in Intent /\ compensating \in Intent /\ last \in Intent
      /\ accepted \in Receipt /\ backups \in Claims
      /\ revocation \in Revocation /\ outer \in Outer /\ play \in {"no", "yes"}
      /\ unit \in {"on", "off"} /\ running \in Claims
      /\ job \in Job /\ adverse \in 0 .. MaxAdverse
  BY DEF TypeOK
<1>S. \A s \in Steps : [job EXCEPT !.pc = s] \in Job
  BY <1>T, JobMoves
<1>1. CASE ApplyStop
  BY <1>T, <1>1, JobMoves, ServiceMoves DEF ApplyStop, Steps, TypeOK
<1>2. CASE OuterRecord
  <2>1. outer' \in Outer /\ play' \in {"no", "yes"}
    BY <1>T, <1>2, EmptyShapes DEF OuterRecord, Outer, Job
  <2>2. QED
    BY <1>T, <1>S, <1>2, <2>1, JobMoves, EmptyShapes DEF OuterRecord, Steps, TypeOK
<1>3. CASE OuterRestart
  BY <1>T, <1>S, <1>3, JobMoves, ServiceMoves DEF OuterRestart, Goto, Steps, TypeOK
<1>4. CASE OuterClosed
  BY <1>T, <1>4, JobMoves, EmptyShapes DEF OuterClosed, Steps, TypeOK
<1>5. CASE RecoverPreparation
  <2>1. before' \in Links /\ after' \in Links
    BY <1>T, <1>5, IntentFields, LinkShapes DEF RecoverPreparation
  <2>2. QED
    BY <1>T, <1>S, <1>5, <2>1, JobMoves, EmptyShapes DEF RecoverPreparation, Steps, TypeOK
<1>6. CASE RecoverNothing
  BY <1>T, <1>6, JobMoves, ServiceMoves DEF RecoverNothing, Steps, TypeOK
<1>7. CASE RecoverCompensation
  BY <1>T, <1>S, <1>7, JobMoves DEF RecoverCompensation, Goto, Steps, TypeOK
<1>8. CASE RecoverCommitted
  BY <1>T, <1>S, <1>8, ServiceMoves DEF RecoverCommitted, Goto, Steps, TypeOK
<1>9. CASE RecoverReady
  BY <1>T, <1>S, <1>9 DEF RecoverReady, Goto, Steps, TypeOK
<1>10. CASE RecoverUncommitted
  BY <1>T, <1>S, <1>10, ServiceMoves DEF RecoverUncommitted, Goto, Steps, TypeOK
<1>11. CASE Redo
  <2>1. live' \in Links /\ after' \in Links
    BY <1>T, <1>11, IntentFields, Replacements DEF Redo, ToPublish
  <2>2. job' \in Job
    BY <1>T, <1>S, <1>11, JobMoves DEF Redo, Steps
  <2>3. QED
    BY <1>T, <1>11, <2>1, <2>2 DEF Redo, TypeOK
<1>12. CASE Undo
  <2>1. live' \in Links /\ before' \in Links
    BY <1>T, <1>12, IntentFields, Replacements DEF Undo, ToRestore
  <2>2. job' \in Job
    BY <1>T, <1>S, <1>12, JobMoves DEF Undo, Goto, Steps
  <2>3. QED
    BY <1>T, <1>12, <2>1, <2>2 DEF Undo, TypeOK
<1>13. CASE Restore
  BY <1>T, <1>S, <1>13, ServiceMoves DEF Restore, Goto, Steps, TypeOK
<1>14. CASE CompensateRecord
  BY <1>T, <1>S, <1>14 DEF CompensateRecord, Goto, Steps, TypeOK
<1>15. CASE CompensateStop
  BY <1>T, <1>S, <1>15, ServiceMoves DEF CompensateStop, Goto, Steps, TypeOK
<1>16. CASE \E p \in Paths : CompensateEntry(p)
  BY <1>T, <1>16, LinkShapes DEF CompensateEntry, Steps, TypeOK
<1>17. CASE CompensateBackups
  BY <1>T, <1>S, <1>17, JobMoves, BackupShapes DEF CompensateBackups, Goto, Steps, TypeOK
<1>18. CASE CompensateRestart
  BY <1>T, <1>S, <1>18, ServiceMoves DEF CompensateRestart, Goto, Steps, TypeOK
<1>19. CASE CompensateAccept
  <2>1. accepted' \in Receipt
    BY <1>T, <1>19, IntentFields DEF CompensateAccept
  <2>2. QED
    BY <1>T, <1>S, <1>19, <2>1, JobMoves, EmptyShapes DEF CompensateAccept, Goto, Steps, TypeOK
<1>20. CASE CompensateFinish
  <2>1. undo' \in Links
    BY <1>T, <1>20, IntentFields, LinkShapes DEF CompensateFinish
  <2>2. job' \in Job
    BY <1>T, <1>20, JobMoves DEF CompensateFinish
  <2>3. last' \in Intent /\ compensating' \in Intent
    BY <1>T, <1>20, EmptyShapes DEF CompensateFinish
  <2>4. QED
    BY <1>T, <1>20, <2>1, <2>2, <2>3 DEF CompensateFinish, TypeOK
<1>21. CASE Forward
  BY <1>T, <1>21, JobMoves DEF Forward, Steps, TypeOK
<1>22. CASE KeepSelection
  BY <1>T, <1>S, <1>22, ServiceMoves DEF KeepSelection, Goto, Steps, TypeOK
<1>23. CASE KeepReady
  BY <1>T, <1>S, <1>23 DEF KeepReady, Goto, Steps, TypeOK
<1>24. CASE Refuse
  BY <1>T, <1>24, JobMoves DEF Refuse, Steps, TypeOK
<1>25. CASE Stage
  <2>1. staged + 1 \in 1 .. MaxStaged /\ staged' = staged + 1
    BY <1>T, <1>25, BoundsAssumption DEF Stage, Node
  <2>2. staged' \in Node
    BY <2>1, BoundsAssumption DEF Node
  <2>3. job.cand \in Candidate \cup {NoPlan}
    BY <1>T DEF Job
  <2>4. job.cand.cover \subseteq Paths /\ job.cand.bytes \in Bytes \cup {None}
    BY <2>3 DEF Candidate, NoPlan
  <2>5. content' \in [1 .. MaxStaged -> Bytes]
    BY <1>T, <1>25, <2>1, <2>4 DEF Stage
  <2>6. prep' \in Intent
    BY <1>T, <1>25, <2>1, <2>2, <2>4, IntentShape DEF Stage
  <2>7. QED
    BY <1>T, <1>S, <1>25, <2>2, <2>5, <2>6 DEF Stage, Goto, Steps, TypeOK
<1>26. CASE LinkNode
  <2>1. before' \in Links /\ after' \in Links
    BY <1>T, <1>26, IntentFields, LinkShapes DEF LinkNode
  <2>2. QED
    BY <1>T, <1>S, <1>26, <2>1, JobMoves, EmptyShapes DEF LinkNode, Steps, TypeOK
<1>27. CASE RecordPending
  BY <1>T, <1>S, <1>27 DEF RecordPending, Goto, Steps, TypeOK
<1>28. CASE FinishPreparation
  BY <1>T, <1>S, <1>28, EmptyShapes DEF FinishPreparation, Goto, Steps, TypeOK
<1>29. CASE StopOld
  BY <1>T, <1>S, <1>29, ServiceMoves DEF StopOld, Goto, Steps, TypeOK
<1>30. CASE PublishSelected
  <2>1. live' \in Links /\ after' \in Links
    BY <1>T, <1>30, IntentFields, Replacements DEF PublishSelected, Publish, ToPublish
  <2>2. job' \in Job
    BY <1>T, <1>S, <1>30, JobMoves DEF PublishSelected, Publish, Goto, Steps
  <2>3. QED
    BY <1>T, <1>30, <2>1, <2>2 DEF PublishSelected, Publish, TypeOK
<1>31. CASE StartNew
  BY <1>T, <1>S, <1>31, ServiceMoves DEF StartNew, Goto, Steps, TypeOK
<1>32. CASE ReadyNew
  BY <1>T, <1>S, <1>32 DEF ReadyNew, Goto, Steps, TypeOK
<1>33. CASE PublishDeferred
  <2>1. live' \in Links /\ after' \in Links
    BY <1>T, <1>33, IntentFields, Replacements DEF PublishDeferred, Publish, ToPublish
  <2>2. job' \in Job
    BY <1>T, <1>S, <1>33, JobMoves DEF PublishDeferred, Publish, Goto, Steps
  <2>3. QED
    BY <1>T, <1>33, <2>1, <2>2 DEF PublishDeferred, Publish, TypeOK
<1>34. CASE Seal
  <2>1. pending' \in Intent
    BY <1>T, <1>34, IntentFields DEF Seal, Intent, Receipt
  <2>2. QED
    BY <1>T, <1>S, <1>34, <2>1, JobMoves, EmptyShapes DEF Seal, Goto, Steps, TypeOK
<1>35. CASE Commit
  <2>1. accepted' \in Receipt
    BY <1>T, <1>35, IntentFields DEF Commit
  <2>2. QED
    BY <1>T, <1>S, <1>35, <2>1, JobMoves, EmptyShapes DEF Commit, Goto, Steps, TypeOK
<1>36. CASE AcceptRevocation
  <2>1. revocation' \in Revocation /\ revocation'.absent = revocation.absent
    BY <1>T, <1>36, EmptyShapes DEF AcceptRevocation, Revocation
  <2>2. QED
    BY <1>T, <1>S, <1>36, <2>1, JobMoves, EmptyShapes DEF AcceptRevocation, Goto, Steps, TypeOK
<1>37. CASE ConfirmOuter
  <2>1. outer' \in Outer
    BY <1>T, <1>37, EmptyShapes DEF ConfirmOuter, Outer
  <2>2. QED
    BY <1>T, <1>S, <1>37, <2>1, JobMoves, EmptyShapes DEF ConfirmOuter, Goto, Steps, TypeOK
<1>38. CASE \E p \in Paths : CleanupEntry(p)
  BY <1>T, <1>38, LinkShapes DEF CleanupEntry, Steps, TypeOK
<1>39. CASE CleanupRecord
  BY <1>T, <1>S, <1>39, BackupShapes DEF CleanupRecord, Goto, Steps, TypeOK
<1>40. CASE CleanupLast
  BY <1>T, <1>S, <1>40, JobMoves DEF CleanupLast, Goto, Steps, TypeOK
<1>41. CASE CleanupPending
  BY <1>T, <1>S, <1>41, JobMoves, EmptyShapes DEF CleanupPending, Goto, Steps, TypeOK
<1>42. CASE Adopt
  <2>1. accepted' \in Receipt
    BY <1>T, <1>42, LinkShapes DEF Adopt, Receipt, Claims
  <2>2. QED
    BY <1>T, <1>S, <1>42, <2>1, JobMoves, EmptyShapes DEF Adopt, Steps, TypeOK
<1>43. CASE Abort
  BY <1>T, <1>43, JobMoves, ServiceMoves DEF Abort, Steps, TypeOK
<1>44. QED
  BY <1>1, <1>2, <1>3, <1>4, <1>5, <1>6, <1>7, <1>8, <1>9, <1>10, <1>11, <1>12, <1>13, <1>14,
     <1>15, <1>16, <1>17, <1>18, <1>19, <1>20, <1>21, <1>22, <1>23, <1>24, <1>25, <1>26, <1>27,
     <1>28, <1>29, <1>30, <1>31, <1>32, <1>33, <1>34, <1>35, <1>36, <1>37, <1>38, <1>39, <1>40,
     <1>41, <1>42, <1>43 DEF JobStep

\* Every command that is admitted keeps the shapes.
LEMMA CallTyped ==
    ASSUME TypeInv, Call PROVE TypeInv'
<1> USE DEF TypeInv, nodes, storage, records, journals, service
<1>T. /\ live \in Links /\ before \in Links /\ after \in Links /\ rollback \in Links /\ undo \in Links
      /\ content \in [1 .. MaxStaged -> Bytes] /\ staged \in Node
      /\ prep \in Intent /\ pending \in Intent /\ compensating \in Intent /\ last \in Intent
      /\ accepted \in Receipt /\ backups \in Claims
      /\ revocation \in Revocation /\ outer \in Outer /\ play \in {"no", "yes"}
      /\ unit \in {"on", "off"} /\ running \in Claims
      /\ job \in Job /\ adverse \in 0 .. MaxAdverse
  BY DEF TypeOK
<1>N. None \in Authority /\ {"armed", "recover", "compensate", "begin"} \subseteq Steps
  BY DEF Authority, Steps
<1>1. ASSUME NEW c \in Candidate, NEW a \in Authority, ApplyStart(c, a) PROVE TypeInv'
  <2> DEFINE e == Extended(c, a)
  <2>1. e \in Candidate
    BY ExtendedShape
  <2> HIDE DEF e
  <2>2. revocation' \in Revocation /\ revocation'.absent \subseteq Paths \ Deferred
    BY <1>T, <1>1, <2>1, ArmedShape DEF ApplyStart, e
  <2>3. PICK s \in {"armed", "recover"} : Open(s, "recovered", a, e, "no", Armed(a, e))
    BY <1>1 DEF ApplyStart, e
  <2>4. job' \in Job
    BY <1>N, <2>1, <2>3, OpenMoves
  <2>5. QED
    BY <1>T, <1>1, <2>2, <2>4 DEF ApplyStart, TypeOK
<1>2. ASSUME NEW a \in Authority, RecoverStart(a) PROVE TypeInv'
  <2>1. job' \in Job
    BY <1>N, <1>2, OpenMoves DEF RecoverStart
  <2>2. QED
    BY <1>T, <1>2, <2>1 DEF RecoverStart, TypeOK
<1>3. ASSUME NEW a \in Authority, OuterBegin(a) PROVE TypeInv'
  <2>1. job' \in Job
    BY <1>N, <1>3, OpenMoves DEF OuterBegin
  <2>2. revocation' \in Revocation /\ revocation'.absent \subseteq Paths \ Deferred
    BY <1>T, <1>3, ArmedShape DEF OuterBegin
  <2>3. QED
    BY <1>T, <1>3, <2>1, <2>2 DEF OuterBegin, TypeOK
<1>4. ASSUME NEW a \in Authority, OuterFinish(a) PROVE TypeInv'
  BY <1>T, <1>4, EmptyShapes DEF OuterFinish, TypeOK
<1>5. CASE CompensateStart
  <2>1. job' \in Job
    BY <1>N, <1>5, OpenMoves DEF CompensateStart
  <2>2. QED
    BY <1>T, <1>5, <2>1 DEF CompensateStart, TypeOK
<1>6. CASE OuterRestore
  <2>1. job' \in Job
    BY <1>N, <1>6, OpenMoves DEF OuterRestore
  <2>2. QED
    BY <1>T, <1>6, <2>1 DEF OuterRestore, TypeOK
<1>7. CASE OuterRecover
  <2>1. job' \in Job
    BY <1>N, <1>7, OpenMoves DEF OuterRecover
  <2>2. QED
    BY <1>T, <1>7, <2>1 DEF OuterRecover, TypeOK
<1>8. QED
  BY <1>1, <1>2, <1>3, <1>4, <1>5, <1>6, <1>7 DEF Call

\* Faults, deaths, reboots and the controller keep the shapes.
LEMMA EnvironmentTyped ==
    ASSUME TypeInv, Environment PROVE TypeInv'
<1> USE DEF TypeInv, nodes, storage, records, journals, service
<1>T. /\ live \in Links /\ before \in Links /\ after \in Links /\ rollback \in Links /\ undo \in Links
      /\ content \in [1 .. MaxStaged -> Bytes] /\ staged \in Node
      /\ prep \in Intent /\ pending \in Intent /\ compensating \in Intent /\ last \in Intent
      /\ accepted \in Receipt /\ backups \in Claims
      /\ revocation \in Revocation /\ outer \in Outer /\ play \in {"no", "yes"}
      /\ unit \in {"on", "off"} /\ running \in Claims
      /\ job \in Job /\ adverse \in 0 .. MaxAdverse
  BY DEF TypeOK
<1>A. adverse < MaxAdverse /\ adverse' = adverse + 1 => adverse' \in 0 .. MaxAdverse
  BY <1>T, BoundsAssumption
<1>1. CASE Fault
  <2>1. job' \in Job
    BY <1>T, <1>1, JobMoves DEF Fault, Goto, Steps
  <2>2. QED
    BY <1>T, <1>A, <1>1, <2>1 DEF Fault, TypeOK
<1>2. CASE Crash
  BY <1>T, <1>A, <1>2, JobMoves DEF Crash, TypeOK
<1>3. CASE Reboot
  BY <1>T, <1>A, <1>3, EmptyShapes DEF Reboot, TypeOK
<1>4. CASE ControllerStart
  BY <1>T, <1>4, LinkShapes DEF ControllerStart, TypeOK
<1>5. CASE ControllerFence
  BY <1>T, <1>5, EmptyShapes DEF ControllerFence, TypeOK
<1>6. QED
  BY <1>1, <1>2, <1>3, <1>4, <1>5 DEF Environment

\* A fresh host and one with a legacy service.
LEMMA InitTyped == Init => TypeInv
<1> SUFFICES ASSUME Init PROVE TypeInv
  OBVIOUS
<1>1. PICK n \in {Absent, 1} : /\ live = [p \in Paths |-> n] /\ staged = n
                               /\ unit = IF n = Absent THEN "off" ELSE "on"
                               /\ running = IF n = Absent THEN Stopped ELSE live
  BY DEF Init
<1>2. n \in Node /\ live \in Links
  BY <1>1, BoundsAssumption DEF Node, Absent, Links
<1>3. content \in [1 .. MaxStaged -> Bytes]
  BY NoneAssumption DEF Init
<1>4. before \in Links /\ after \in Links /\ rollback \in Links /\ undo \in Links
  BY EmptyShapes DEF Init
<1>5. backups \in Claims
  BY EmptyShapes DEF Init, Stopped
<1>6. unit \in {"on", "off"} /\ running \in Claims
  BY <1>1, <1>2, EmptyShapes, LinkShapes
<1>7. adverse \in 0 .. MaxAdverse
  BY BoundsAssumption DEF Init
<1>8. revocation.absent \subseteq Paths \ Deferred
  BY DEF Init, NoRevocation
<1>9. QED
  BY <1>1, <1>2, <1>3, <1>4, <1>5, <1>6, <1>7, <1>8, EmptyShapes DEF Init, TypeInv, TypeOK

\* Links, journals, records and operations keep the shape the code writes.
LEMMA TypeInvariance == Spec => []TypeInv
<1>1. TypeInv /\ [Next]_vars => TypeInv'
  <2>1. TypeInv /\ UNCHANGED vars => TypeInv'
    BY DEF vars, nodes, storage, records, journals, service, TypeInv, TypeOK
  <2>2. QED
    BY <2>1, JobStepTyped, CallTyped, EnvironmentTyped DEF Next
<1>2. QED
  BY InitTyped, <1>1, PTL DEF Spec

\* For any paths, candidates and revocations, whatever step an operation dies
\* after, every link, journal and record has its shape.
THEOREM Typed == Spec => []TypeOK
<1>1. TypeInv => TypeOK
  BY DEF TypeInv
<1>2. QED
  BY TypeInvariance, <1>1, PTL

-----------------------------------------------------------------------------
(* The inductive invariant of the storage directory                        *)

\* An intent the code journals: its new receipt is the old one with the staged
\* nodes and differs from it; a staged node was neither selected nor retained
\* before, and a selected one is not retained as well.
WellFormed(v) ==
  v # NoIntent =>
    /\ v.new.units # "none"
    /\ v.new.nodes = Overlay(v.old.nodes, v.cover, v.now)
    /\ v.new.nodes # v.old.nodes
    /\ \A p \in v.cover :
         /\ v.old.nodes[p] \in {Unclaimed, v.was[p]}
         /\ v.now[p] # Absent => v.now[p] # v.was[p] /\ v.now[p] # Kept(v.backups[p])
         /\ v.was[p] # Absent => v.was[p] # Kept(v.backups[p])

IntentsInv == WellFormed(prep) /\ WellFormed(pending) /\ WellFormed(compensating) /\ WellFormed(last)

\* One transaction is open at a time.
OneJournal ==
  /\ prep # NoIntent => pending \in {NoIntent, prep}
  /\ compensating # NoIntent => prep = NoIntent /\ pending = NoIntent

\* A fixed link exists only under the journal that claims it.
LinksOwned ==
  \A p \in Paths :
    /\ \/ prep # NoIntent /\ p \in prep.cover
       \/ pending # NoIntent /\ p \in pending.cover
       \/ before[p] = Absent /\ after[p] = Absent
    /\ \/ compensating # NoIntent /\ p \in compensating.cover
       \/ undo[p] = Absent

\* What an open intent does not cover stays as it was accepted.
Outside(v) ==
  \A p \in Paths \ v.cover :
    /\ accepted.nodes[p] # Unclaimed => live[p] = accepted.nodes[p]
    /\ live[p] # Absent => live[p] # rollback[p]

AllAt(v, f) == \A p \in v.cover : live[p] = f[p]

PrepInv ==
  prep # NoIntent =>
    /\ PreparationHolds
    /\ Outside(prep)
    /\ pending = prep => \A p \in prep.cover : before[p] = prep.was[p] /\ after[p] = prep.now[p]

PendingInv ==
  pending # NoIntent =>
    /\ JournalHolds
    /\ Outside(pending)
    /\ accepted = pending.new => AllAt(pending, pending.now)

CompInv ==
  compensating # NoIntent =>
    /\ CompensationHolds
    /\ Outside(compensating)
    /\ \A p \in compensating.cover : live[p] = compensating.was[p] => rollback[p] = Absent
    /\ accepted = compensating.old =>
         backups = CompensatedBackups(compensating) /\ AllAt(compensating, compensating.was)

QuietInv == NoJournal => AcceptedHolds /\ BackupsHold /\ \A p \in Paths : SingleLink(p)

\* No node is newer than the last staging.
Aged(v) == \A p \in Paths : v.was[p] <= staged /\ v.now[p] <= staged
NodesInv ==
  /\ \A p \in Paths : live[p] <= staged /\ rollback[p] <= staged
  /\ Aged(prep) /\ Aged(pending) /\ Aged(compensating) /\ Aged(last)

Storage == /\ IntentsInv /\ OneJournal /\ LinksOwned /\ PrepInv /\ PendingInv /\ CompInv
           /\ QuietInv /\ NodesInv

Uncommitted == pending # NoIntent /\ prep = NoIntent /\ accepted # pending.new
CommittedNow == pending # NoIntent /\ prep = NoIntent /\ accepted = pending.new

\* What an operation knows at each of its steps.
ControlInv ==
  /\ job.ret = "recovered" => job.cand \in Candidate
  /\ At("recovered") => job.ret = "recovered" /\ (pending # NoIntent => Uncommitted)
  /\ At("keep") => NoJournal
  /\ job.pc \in {"recovered", "keep"} => job.phase = "main"
  /\ At("link") => prep # NoIntent /\ pending = NoIntent
  /\ At("claimed") => prep # NoIntent /\ pending = prep
  /\ job.pc \in {"stop", "publish", "start", "ready", "defer", "seal", "commit", "redo", "undo",
                 "restore"} => Uncommitted
  /\ job.pc \in {"start", "ready", "defer"} =>
       \A p \in pending.cover \ Deferred : live[p] = pending.now[p]
  /\ job.pc \in {"seal", "commit"} => AllAt(pending, pending.now)
  /\ At("restore") => AllAt(pending, pending.was) /\ job.only = "no"
  /\ At("ensure") => CommittedNow
  /\ job.pc \in {"accept", "confirm"} => CommittedNow \/ NoJournal
  /\ At("accept") /\ job.phase = "recover" => CommittedNow
  /\ At("cleanup") => \/ CommittedNow
                      \/ Uncommitted /\ AllAt(pending, pending.was) /\ job.only = "no"
  /\ job.pc \in {"last", "retire"} => \A p \in pending.cover : Cleaned(p)
  /\ At("last") => CommittedNow /\ backups = AfterBackups(pending)
  /\ At("retire") => \/ CommittedNow /\ backups = AfterBackups(pending) /\ last = pending
                     \/ Uncommitted /\ AllAt(pending, pending.was) /\ job.only = "no"
  /\ At("compensate") =>
       /\ prep = NoIntent /\ pending = NoIntent
       /\ compensating = NoIntent => last # NoIntent /\ CompensationHoldsFor(last, TRUE)
  /\ job.pc \in {"quiet", "reverse", "revive", "retract", "purge"} => compensating # NoIntent
  /\ job.pc \in {"revive", "retract", "purge"} =>
       AllAt(compensating, compensating.was) /\ backups = CompensatedBackups(compensating)
  /\ At("purge") => accepted = compensating.old

\* Until the commit, and under an unfinished revocation, the old nodes stay linked.
BeforeKept ==
  /\ /\ Uncommitted
     /\ \/ Unfinished(revocation)
        \/ job.pc \in {"stop", "publish", "start", "ready", "defer", "seal", "commit"}
     => \A p \in pending.cover : before[p] = pending.was[p]
  /\ job.pc \in {"undo", "restore", "cleanup", "retire"} /\ Uncommitted => ~ Unfinished(revocation)

\* An accepted revocation is behind what is accepted: nothing open leads back
\* to a host on which nothing was accepted.
Finished == revocation.authority # None /\ revocation.receipt # NoReceipt

FinishedInv ==
  Finished =>
    /\ accepted # NoReceipt /\ revocation.plan # NoPlan
    /\ compensating # NoIntent => compensating.old # NoReceipt
    /\ pending # NoIntent /\ pending.old = NoReceipt => pending.new = revocation.receipt

\* last.json tells how what is accepted came to be.
LastInv ==
  /\ compensating # NoIntent => last \in {NoIntent, compensating}
  /\ last # NoIntent /\ compensating = NoIntent /\ (pending = NoIntent \/ accepted # pending.new) =>
       /\ last.new = accepted
       /\ Finished /\ last.old = NoReceipt => last.new = revocation.receipt

\* The intent publishes what the revocation plans.
Carries(v) ==
  /\ revocation.plan # NoPlan /\ v.cover = revocation.plan.cover
  /\ \A p \in v.cover : IF p \in revocation.plan.gone THEN v.now[p] = Absent
                        ELSE v.now[p] # Absent /\ content[v.now[p]] = revocation.plan.bytes

\* Inside an open route there is one step to explain, from the retained receipt.
RouteInv ==
  outer.open = "yes" =>
    /\ prep # NoIntent => prep.old = outer.receipt
    /\ pending # NoIntent => pending.old = outer.receipt
    /\ compensating # NoIntent => outer.revocation = None /\ compensating.old = outer.receipt
    /\ NoJournal => accepted = outer.receipt \/ LastExplains
    /\ outer.revocation # None =>
         /\ revocation.authority = outer.revocation
         /\ prep # NoIntent => Carries(prep)
         /\ pending # NoIntent => Carries(pending)
         /\ NoJournal /\ accepted # outer.receipt => Carries(last)

\* What the operation in an open route knows.
Recovering ==
  \/ job.phase = "recover"
  \/ job.pc \in {"armed", "recover", "recovered", "ensure", "redo", "undo", "restore", "compensate",
                 "quiet", "reverse", "revive", "retract", "purge"}

RouteJob ==
  /\ play = "yes" =>
       /\ outer.open = "yes" /\ accepted = outer.receipt /\ NoJournal
       /\ job.pc \in {"idle", "recover", "adopt", "abort"} /\ (At("recover") => job.ret = "adopt")
  /\ outer.open = "yes" /\ ~ At("idle") => job.authority = outer.revocation
  /\ At("adopt") => job.ret = "adopt"
  /\ outer.open = "yes" /\ job.ret = "adopt" => outer.revocation # None
  /\ job.only = "yes" => job.authority = None /\ job.ret = "done"
  /\ At("begin") => /\ outer.open = "no" /\ NoJournal
                    /\ job.authority # None => revocation.authority = job.authority
  /\ job.ret = "recovered" /\ job.authority # None =>
       revocation.authority = job.authority /\ revocation.plan = job.cand
  /\ outer.open = "yes" /\ outer.revocation = None /\ job.ret = "recovered" /\ Recovering =>
       NoJournal /\ accepted = outer.receipt
  /\ At("compensate") /\ compensating = NoIntent =>
       /\ job.only = "yes" /\ last.new # revocation.receipt
       /\ outer.open = "yes" => last.old = outer.receipt
  /\ job.pc \in {"keep", "accept"} => accepted # NoReceipt

\* Under an unfinished revocation only its own owner works, on its own plan, and
\* nothing is being compensated.
FencedInv ==
  /\ Unfinished(revocation) =>
       /\ prep # NoIntent => Carries(prep)
       /\ pending # NoIntent => Carries(pending)
       /\ compensating = NoIntent
       /\ ~ At("idle") => job.authority = revocation.authority
       /\ ~ At("compensate")
  /\ At("reopen") => job.ret = "reopen"
  /\ job.ret = "reopen" => job.authority = None

\* A controller that is switched off runs nothing.
ServiceInv == unit = "off" => running = Stopped

\* A node that may be selected on p after the revocation was accepted.
Stands(n, p) ==
  revocation.receipt.nodes[p] # Unclaimed =>
    \/ n \in {Absent, revocation.receipt.nodes[p]}
    \/ \A q \in Paths : n > revocation.receipt.nodes[q]

StandsInv ==
  /\ \A p \in Paths : revocation.receipt.nodes[p] <= staged /\ Stands(live[p], p)
  /\ prep # NoIntent => \A p \in prep.cover : Stands(prep.was[p], p) /\ Stands(prep.now[p], p)
  /\ pending # NoIntent =>
       \A p \in pending.cover :
         /\ Stands(pending.now[p], p)
         /\ accepted # pending.new \/ pending.new # revocation.receipt => Stands(pending.was[p], p)
  /\ compensating # NoIntent => \A p \in compensating.cover : Stands(compensating.was[p], p)
  /\ /\ last # NoIntent /\ compensating = NoIntent /\ (pending = NoIntent \/ accepted # pending.new)
     /\ last.new # revocation.receipt
     => \A p \in last.cover : Stands(last.was[p], p)

Known == /\ ControlInv /\ BeforeKept /\ FinishedInv /\ LastInv /\ RouteInv /\ RouteJob
         /\ FencedInv /\ ServiceInv /\ StandsInv

IInv == TypeInv /\ Storage /\ Known

-----------------------------------------------------------------------------
\* What the types say of the stored links and journals.
LEMMA StoreShapes ==
    ASSUME IInv
    PROVE  /\ live \in [Paths -> Node] /\ before \in [Paths -> Node] /\ after \in [Paths -> Node]
           /\ rollback \in [Paths -> Node] /\ undo \in [Paths -> Node]
           /\ prep.cover \subseteq Paths /\ pending.cover \subseteq Paths
           /\ compensating.cover \subseteq Paths /\ last.cover \subseteq Paths
BY DEF IInv, TypeInv, TypeOK, Links, Intent

\* Nodes are numbers.
LEMMA NodeNumbers ==
    ASSUME TypeInv
    PROVE  /\ staged \in Int /\ 0 <= staged
           /\ \A q \in Paths : /\ live[q] \in Int /\ rollback[q] \in Int
                               /\ prep.was[q] \in Int /\ prep.now[q] \in Int
                               /\ pending.was[q] \in Int /\ pending.now[q] \in Int
                               /\ compensating.was[q] \in Int /\ compensating.now[q] \in Int
                               /\ last.was[q] \in Int /\ last.now[q] \in Int
<1>1. /\ live \in Links /\ rollback \in Links /\ staged \in Node
      /\ prep \in Intent /\ pending \in Intent /\ compensating \in Intent /\ last \in Intent
  BY DEF TypeInv, TypeOK
<1>2. \A n \in Node : n \in Int /\ 0 <= n
  BY BoundsAssumption DEF Node
<1>3. QED
  BY <1>1, <1>2, IntentFields, LinkShapes

\* The operation that holds the lock returns to a caller it has.
LEMMA JobShape ==
    ASSUME IInv PROVE job \in Job /\ job.ret \in {"done", "recovered", "adopt", "reopen"}
BY DEF IInv, TypeInv, TypeOK, Job

-----------------------------------------------------------------------------
(* Steps that leave the storage alone                                      *)

stored == <<live, before, after, rollback, undo, staged, prep, pending, compensating, last,
            accepted, backups>>

\* The storage invariant is about the stored links and records only.
LEMMA StorageFrame == ASSUME Storage, UNCHANGED stored PROVE Storage'
<1> USE DEF stored
<1>1. IntentsInv'
  BY DEF Storage, IntentsInv, WellFormed
<1>2. OneJournal' /\ LinksOwned' /\ NodesInv'
  BY DEF Storage, OneJournal, LinksOwned, NodesInv, Aged
<1>3. PrepInv'
  BY DEF Storage, PrepInv, PreparationHolds, Outside, BackupsHold
<1>4. PendingInv'
  BY DEF Storage, PendingInv, JournalHolds, Outside, AllAt, BackupAuthority, AfterBackups
<1>5. CompInv'
  BY DEF Storage, CompInv, CompensationHolds, CompensationHoldsFor, Outside, AllAt, SingleLink,
     AfterBackups, CompensatedBackups
<1>6. QuietInv'
  BY DEF Storage, QuietInv, NoJournal, AcceptedHolds, BackupsHold, SingleLink
<1>7. QED
  BY <1>1, <1>2, <1>3, <1>4, <1>5, <1>6 DEF Storage

\* The fields of the operation after a move.
LEMMA JobFields ==
    ASSUME job \in Job
    PROVE  /\ \A s \in Steps : Goto(s) =>
                /\ job'.pc = s /\ job'.phase = job.phase /\ job'.ret = job.ret
                /\ job'.only = job.only
                /\ job'.cand = job.cand /\ job'.authority = job.authority
           /\ Done => job'.pc = "idle" /\ job'.ret = "done" /\ job'.only = "no"
           /\ Return => \/ job'.pc = "idle" /\ job'.ret = "done" /\ job'.only = "no"
                        \/ /\ job.ret # "done" /\ job'.pc = job.ret /\ job'.phase = "main"
                           /\ job'.ret = job.ret /\ job'.only = job.only
                           /\ job'.cand = job.cand /\ job'.authority = job.authority
<1>1. ASSUME NEW s \in Steps, Goto(s)
      PROVE  /\ job'.pc = s /\ job'.phase = job.phase /\ job'.ret = job.ret
             /\ job'.only = job.only /\ job'.cand = job.cand /\ job'.authority = job.authority
  BY <1>1 DEF Goto, Job
<1>2. Done => job'.pc = "idle" /\ job'.ret = "done" /\ job'.only = "no"
  BY DEF Done, Idle
<1>3. CASE job.ret = "done"
  BY <1>1, <1>2, <1>3 DEF Return, Done
<1>4. CASE job.ret # "done"
  <2>1. Return => job' = [job EXCEPT !.pc = job.ret, !.phase = "main"]
    BY <1>4 DEF Return
  <2>2. Return => /\ job'.pc = job.ret /\ job'.phase = "main" /\ job'.ret = job.ret
                  /\ job'.only = job.only /\ job'.cand = job.cand
                  /\ job'.authority = job.authority
    BY <2>1 DEF Job
  <2>3. QED
    BY <1>1, <1>2, <1>4, <2>2
<1>5. QED
  BY <1>3, <1>4

\* What an operation knows stays true while it and the storage stay.
LEMMA ControlFrame == ASSUME ControlInv, UNCHANGED stored, UNCHANGED job PROVE ControlInv'
BY DEF stored, ControlInv, At, Uncommitted, CommittedNow, NoJournal, AllAt, Cleaned, Committed,
   CompensationHoldsFor, SingleLink, AfterBackups, CompensatedBackups

\* So does what allows a compensation.
LEMMA CompensableFrame ==
    ASSUME UNCHANGED stored, CompensationHoldsFor(last, TRUE) PROVE CompensationHoldsFor(last, TRUE)'
BY DEF stored, CompensationHoldsFor, SingleLink, AfterBackups, CompensatedBackups

\* The records an operation and a route rest on.
recorded == <<live, content, staged, prep, pending, compensating, last, accepted, revocation, outer>>

\* What they say of each other stays true while they stay.
LEMMA RecordFrame ==
    ASSUME IInv, UNCHANGED recorded PROVE FinishedInv' /\ LastInv' /\ RouteInv' /\ StandsInv'
<1> USE DEF recorded, IInv, Known
<1>1. FinishedInv' /\ LastInv'
  BY DEF FinishedInv, LastInv, Finished
<1>2. RouteInv'
  BY DEF RouteInv, Carries, LastExplains, NoJournal
<1>3. StandsInv'
  BY DEF StandsInv, Stands
<1>4. QED
  BY <1>1, <1>2, <1>3

-----------------------------------------------------------------------------
(* What the operators of a transaction do                                  *)

\* The candidate an operation carries once the host is reconciled.
LEMMA CandidateOf ==
    ASSUME IInv, At("recovered")
    PROVE  /\ job.cand \in Candidate /\ job.cand.cover \subseteq Paths /\ job.cand.cover # {}
           /\ job.cand.gone \subseteq job.cand.cover
BY DEF IInv, Known, ControlInv, Candidate

\* A link an intent remembers is not the absence of a claim.
LEMMA WasNodes ==
    ASSUME TypeInv PROVE \A p \in pending.cover : pending.was[p] # Unclaimed
<1>1. pending.cover \subseteq Paths /\ \A p \in Paths : pending.was[p] \in Node
  BY IntentFields DEF TypeInv, TypeOK
<1>2. \A n \in Node : n # Unclaimed
  BY BoundsAssumption DEF Node, Unclaimed
<1>3. QED
  BY <1>1, <1>2

\* Sealing changes the units of the new receipt and nothing else.
LEMMA SealedIntent ==
    ASSUME TypeInv, pending' = [pending EXCEPT !.new.units = "observed"]
    PROVE  /\ pending'.cover = pending.cover /\ pending'.was = pending.was /\ pending'.now = pending.now
           /\ pending'.old = pending.old /\ pending'.backups = pending.backups
           /\ pending'.new.nodes = pending.new.nodes /\ pending'.new.units = "observed"
           /\ pending' # NoIntent
<1>1. pending \in Intent /\ pending.new \in Receipt
  BY IntentFields DEF TypeInv, TypeOK
<1>2. pending'.new = [pending.new EXCEPT !.units = "observed"]
  BY <1>1 DEF Intent
<1>3. pending'.new.nodes = pending.new.nodes /\ pending'.new.units = "observed"
  BY <1>1, <1>2 DEF Receipt
<1>4. NoIntent.new.units = "none"
  BY DEF NoIntent, NoReceipt
<1>5. QED
  BY <1>1, <1>3, <1>4 DEF Intent

\* The intent of a candidate that is not yet selected and claimed moves the
\* accepted receipt on, with nodes never used before.
LEMMA FreshIntent ==
    ASSUME IInv, At("recovered"), Ready, ~ (Same(job.cand) /\ Claimed(job.cand))
    PROVE  WellFormed(IntentFor(job.cand, staged + 1))
<1> DEFINE c == job.cand
           v == IntentFor(c, staged + 1)
<1>1. /\ c.cover \subseteq Paths /\ c.cover # {} /\ c.gone \subseteq c.cover
  BY CandidateOf
<1>2. /\ v.cover = c.cover /\ v.old = accepted /\ v.backups = backups
      /\ v.new.units = "planned" /\ v.new.nodes = Overlay(accepted.nodes, c.cover, v.now)
      /\ \A p \in c.cover : /\ v.was[p] = live[p]
                            /\ v.now[p] = IF p \in c.gone THEN Absent ELSE staged + 1
  BY <1>1 DEF IntentFor
<1> HIDE DEF v
<1>3. /\ staged \in Int /\ 0 <= staged
      /\ \A p \in Paths : live[p] \in Int /\ live[p] <= staged /\ rollback[p] \in Int /\ rollback[p] <= staged
  BY NodeNumbers DEF IInv, Storage, NodesInv
<1>4. /\ \A p \in Paths : accepted.nodes[p] # Unclaimed => live[p] = accepted.nodes[p]
      /\ \A p \in Paths : rollback[p] = Kept(backups[p])
      /\ \A p \in Paths : live[p] # Absent => live[p] # rollback[p]
  BY DEF Ready, AcceptedHolds, BackupsHold, IInv, Storage, QuietInv, SingleLink
<1>5. ASSUME v.new.nodes = v.old.nodes PROVE FALSE
  <2>1. \A p \in c.cover : accepted.nodes[p] = v.now[p]
    BY <1>1, <1>2, <1>5 DEF Overlay
  <2>a. Absent # Unclaimed /\ staged + 1 # Unclaimed /\ \A p \in Paths : live[p] # staged + 1
    BY <1>3 DEF Absent, Unclaimed
  <2>b. \A p \in c.cover : v.now[p] # Unclaimed
    BY <1>2, <2>a
  <2>2. \A p \in c.cover : v.now[p] # Unclaimed /\ live[p] = v.now[p]
    BY <1>1, <1>4, <2>1, <2>b
  <2>3. \A p \in c.cover : p \in c.gone /\ live[p] = Absent
    BY <1>1, <1>2, <2>2, <2>a
  <2>4. accepted # NoReceipt
    BY <1>1, <2>1, <2>2 DEF NoReceipt
  <2>5. QED
    BY <2>1, <2>2, <2>3, <2>4 DEF Same, Claimed
<1>6. ASSUME NEW p \in c.cover
      PROVE  /\ v.old.nodes[p] \in {Unclaimed, v.was[p]}
             /\ v.now[p] # Absent => v.now[p] # v.was[p] /\ v.now[p] # Kept(v.backups[p])
             /\ v.was[p] # Absent => v.was[p] # Kept(v.backups[p])
  BY <1>1, <1>2, <1>3, <1>4
<1>7. QED
  BY <1>2, <1>5, <1>6 DEF WellFormed, v

\* An intent that was staged is an intent.
LEMMA PlannedIntent == ASSUME NEW c, NEW n PROVE IntentFor(c, n) # NoIntent
<1>1. IntentFor(c, n).new.units = "planned" /\ NoIntent.new.units = "none"
  BY DEF IntentFor, NoIntent, NoReceipt
<1>2. QED
  BY <1>1

\* The intent that was just retired may be compensated.
LEMMA CompensableAfterCleanup ==
    ASSUME IInv, CleanupPending, CommittedNow, backups = AfterBackups(pending), last = pending
    PROVE  CompensationHoldsFor(last, TRUE)'
<1> USE DEF nodes, storage
<1>1. /\ At("retire")
      /\ UNCHANGED <<live, before, after, rollback, undo, last, accepted, backups>>
  BY DEF CleanupPending
<1>2. /\ pending # NoIntent /\ accepted = pending.new /\ JournalHolds /\ Outside(pending)
      /\ \A p \in pending.cover : live[p] = pending.now[p] /\ rollback[p] = pending.was[p]
      /\ \A p \in Paths : before[p] = Absent /\ after[p] = Absent /\ undo[p] = Absent
  <2>1. \A p \in pending.cover : Cleaned(p)
    BY <1>1 DEF IInv, Known, ControlInv, At
  <2>2. QED
    BY <2>1 DEF CommittedNow, IInv, Storage, PendingInv, AllAt, Cleaned, Committed, LinksOwned,
       OneJournal
<1>3. \A p \in Paths \ pending.cover : rollback[p] = Kept(AfterBackups(pending)[p])
  BY <1>2 DEF JournalHolds, BackupAuthority, AfterBackups, Overlay
<1>4. \A p \in Paths \ pending.cover :
         pending.new.nodes[p] # Unclaimed => live[p] = pending.new.nodes[p] /\ SingleLink(p)
  BY <1>2 DEF Outside, SingleLink
<1>5. backups = CompensatedBackups(pending) => \A p \in pending.cover : pending.was[p] = Absent
  <2>1. pending.cover \subseteq Paths
    BY IntentFields DEF IInv, TypeInv, TypeOK
  <2>2. QED
    BY <2>1 DEF CompensatedBackups, AfterBackups, Overlay
<1>6. CompensationHoldsFor(pending, TRUE)
  <2>1. accepted \in {pending.old, pending.new} /\ backups = AfterBackups(pending)
    BY <1>2
  <2>2. \A p \in pending.cover :
          /\ backups = CompensatedBackups(pending) => rollback[p] = Absent
          /\ live[p] = pending.now[p] /\ rollback[p] = pending.was[p] /\ undo[p] = Absent
    <3>1. pending.cover \subseteq Paths
      BY IntentFields DEF IInv, TypeInv, TypeOK
    <3>2. ASSUME NEW p \in pending.cover
          PROVE  live[p] = pending.now[p] /\ rollback[p] = pending.was[p] /\ undo[p] = Absent
      BY <1>2, <3>1
    <3>3. ASSUME NEW p \in pending.cover, backups = CompensatedBackups(pending) PROVE rollback[p] = Absent
      BY <1>5, <3>2, <3>3
    <3>4. QED
      BY <3>2, <3>3
  <2>3. QED
    BY <1>3, <1>4, <2>1, <2>2 DEF CompensationHoldsFor
<1>7. QED
  BY <1>1, <1>6 DEF CompensationHoldsFor, SingleLink, AfterBackups, CompensatedBackups

\* Arming keeps the fence of the same owner and replaces another one only when
\* nothing is open.
LEMMA ArmedRevocation ==
    ASSUME TypeInv, NEW a \in Authority, NEW c \in Candidate \cup {NoPlan}, ArmAllowed(a, c),
           revocation' = Armed(a, c)
    PROVE  /\ \/ /\ revocation'.authority = revocation.authority
                 /\ revocation'.receipt = revocation.receipt
                 /\ revocation.plan # NoPlan => revocation'.plan = revocation.plan
              \/ NoJournal /\ revocation.authority # a /\ revocation'.receipt = NoReceipt
           /\ a # None => revocation'.authority = a
           /\ a # None /\ c # NoPlan => revocation'.plan = c
<1>1. revocation \in Revocation
  BY DEF TypeInv, TypeOK
<1>2. CASE a = None
  BY <1>2 DEF Armed
<1>3. CASE a # None /\ revocation.authority = a
  <2>1. revocation' = IF c = NoPlan THEN revocation ELSE [revocation EXCEPT !.plan = c, !.absent = c.gone]
    BY <1>3 DEF Armed
  <2>2. c # NoPlan => /\ revocation'.authority = a /\ revocation'.receipt = revocation.receipt
                      /\ revocation'.plan = c
    BY <1>1, <1>3, <2>1 DEF Revocation
  <2>3. c # NoPlan => revocation.plan \in {NoPlan, c}
    BY <1>3 DEF ArmAllowed
  <2>4. QED
    BY <1>3, <2>1, <2>2, <2>3
<1>4. CASE a # None /\ revocation.authority # a
  <2> DEFINE h == [NoRevocation EXCEPT !.authority = a]
  <2>1. h.authority = a /\ h.receipt = NoReceipt /\ h \in Revocation
    BY EmptyShapes DEF NoRevocation, Revocation
  <2> HIDE DEF h
  <2>2. revocation' = IF c = NoPlan THEN h ELSE [h EXCEPT !.plan = c, !.absent = c.gone]
    BY <1>4 DEF Armed, h
  <2>3. /\ revocation'.authority = a /\ revocation'.receipt = NoReceipt
        /\ c # NoPlan => revocation'.plan = c
    BY <2>1, <2>2 DEF Revocation
  <2>4. NoJournal
    BY <1>4 DEF ArmAllowed
  <2>5. QED
    BY <1>4, <2>3, <2>4
<1>5. QED
  BY <1>2, <1>3, <1>4

\* The same of the two commands that arm.
LEMMA ArmingStep ==
    ASSUME IInv, (\E c \in Candidate, a \in Authority : ApplyStart(c, a))
                 \/ (\E a \in Authority : OuterBegin(a))
    PROVE  \/ /\ revocation'.authority = revocation.authority
              /\ revocation'.receipt = revocation.receipt
              /\ revocation.plan # NoPlan => revocation'.plan = revocation.plan
           \/ NoJournal /\ revocation'.receipt = NoReceipt
<1>1. ASSUME NEW c \in Candidate, NEW a \in Authority, ApplyStart(c, a)
      PROVE  ArmAllowed(a, Extended(c, a)) /\ revocation' = Armed(a, Extended(c, a))
             /\ Extended(c, a) \in Candidate
  BY <1>1, ExtendedShape DEF ApplyStart, IInv, TypeInv
<1>2. ASSUME NEW a \in Authority, OuterBegin(a)
      PROVE  ArmAllowed(a, NoPlan) /\ revocation' = Armed(a, NoPlan)
  BY <1>2 DEF OuterBegin
<1>3. QED
  BY <1>1, <1>2, ArmedRevocation DEF IInv

\* The receipt an accepted revocation records.
LEMMA FenceReceipt ==
    ASSUME TypeInv, revocation' = [revocation EXCEPT !.receipt = accepted]
    PROVE  /\ revocation'.receipt = accepted /\ revocation'.plan = revocation.plan
           /\ revocation'.authority = revocation.authority
BY DEF TypeInv, TypeOK, Revocation

\* What is accepted by an intent that carried the plan needs no second intent.
LEMMA CarriedIsKept ==
    ASSUME IInv, At("recovered"), revocation.plan = job.cand, AcceptedHolds,
           Carries(last), last # NoIntent, last.new = accepted
    PROVE  Same(job.cand) /\ Claimed(job.cand)
<1>1. job.cand.cover \subseteq Paths /\ job.cand.gone \subseteq job.cand.cover
  BY CandidateOf
<1>2. /\ last.cover = job.cand.cover
      /\ \A p \in job.cand.cover :
           IF p \in job.cand.gone THEN last.now[p] = Absent
           ELSE last.now[p] # Absent /\ content[last.now[p]] = job.cand.bytes
  BY DEF Carries
<1>3. \A p \in job.cand.cover : accepted.nodes[p] = last.now[p] /\ last.now[p] # Unclaimed
  <2>1. last \in Intent /\ \A p \in Paths : last.now[p] \in Node
    BY IntentFields DEF IInv, TypeInv, TypeOK
  <2>2. \A n \in Node : n # Unclaimed
    BY BoundsAssumption DEF Node, Unclaimed
  <2>3. QED
    BY <1>1, <1>2, <2>1, <2>2 DEF IInv, Storage, IntentsInv, WellFormed, Overlay
<1>4. \A p \in job.cand.cover : live[p] = last.now[p]
  BY <1>1, <1>3 DEF AcceptedHolds
<1>5. accepted # NoReceipt
  BY DEF IInv, Storage, IntentsInv, WellFormed, NoReceipt
<1>6. QED
  BY <1>2, <1>3, <1>4, <1>5 DEF Same, Claimed

\* The staged intent of a revocation's candidate carries its plan.
LEMMA StagedCarries ==
    ASSUME IInv, Stage, revocation.plan = job.cand PROVE Carries(prep)'
<1>1. /\ job.cand.cover \subseteq Paths /\ job.cand.gone \subseteq job.cand.cover
      /\ job.cand \in Candidate /\ job.cand.cover # {}
  BY CandidateOf DEF Stage
<1>2. /\ prep'.cover = job.cand.cover /\ UNCHANGED revocation
      /\ \A p \in job.cand.cover : prep'.now[p] = IF p \in job.cand.gone THEN Absent ELSE staged + 1
  BY <1>1 DEF Stage, IntentFor
<1>3. job.cand.gone # job.cand.cover => content'[staged + 1] = job.cand.bytes
  <2>1. job.cand.gone # job.cand.cover => job.cand.bytes # None
    BY <1>1 DEF Candidate
  <2>2. content \in [1 .. MaxStaged -> Bytes] /\ staged + 1 \in 1 .. MaxStaged
    BY BoundsAssumption DEF Stage, IInv, TypeInv, TypeOK, Node
  <2>3. QED
    BY <2>1, <2>2 DEF Stage
<1>4. staged + 1 # Absent
  BY NodeNumbers DEF IInv, Absent
<1>5. job.cand # NoPlan
  BY <1>1 DEF NoPlan
<1>6. QED
  BY <1>1, <1>2, <1>3, <1>4, <1>5 DEF Carries

\* What a transaction accepts is a receipt.
LEMMA CommittedReceipt ==
    ASSUME IInv PROVE pending # NoIntent => pending.new # NoReceipt
BY DEF IInv, Storage, IntentsInv, WellFormed, NoReceipt

\* The nodes a revocation's receipt claims are numbers.
LEMMA ReceiptNumbers ==
    ASSUME TypeInv
    PROVE  /\ \A q \in Paths : revocation.receipt.nodes[q] \in Int /\ accepted.nodes[q] \in Int
           /\ \A q \in Paths : NoReceipt.nodes[q] = Unclaimed
<1>1. revocation.receipt.nodes \in Claims /\ accepted.nodes \in Claims
  BY DEF TypeInv, TypeOK, Revocation, Receipt
<1>2. \A n \in Node \cup {Unclaimed} : n \in Int
  BY BoundsAssumption DEF Node, Unclaimed
<1>3. \A q \in Paths : revocation.receipt.nodes[q] \in Int /\ accepted.nodes[q] \in Int
  BY <1>1, <1>2, LinkShapes
<1>4. QED
  BY <1>3 DEF NoReceipt

-----------------------------------------------------------------------------
(* Steps that write the storage                                            *)

\* recover_preparation unlinks only links its claim owns, and retires the claim last.
LEMMA RecoverPreparationStored ==
    ASSUME IInv, RecoverPreparation PROVE Storage'
<1> USE DEF nodes, storage, records, journals, service, At
<1>J. prep # NoIntent /\ compensating = NoIntent
  BY DEF IInv, Known, Storage, OneJournal, ControlInv, Uncommitted, CommittedNow, NoJournal,
     RecoverPreparation
<1>1. IntentsInv'
  BY <1>J DEF IInv, Storage, RecoverPreparation, IntentsInv, WellFormed
<1>2. OneJournal'
  BY <1>J DEF IInv, Storage, RecoverPreparation, OneJournal
<1>3. LinksOwned'
  <2>1. CASE prep' = prep
    BY StoreShapes, <1>J, <2>1 DEF IInv, Storage, RecoverPreparation, LinksOwned
  <2>2. CASE prep' = NoIntent
    BY StoreShapes, <1>J, <2>2 DEF IInv, Storage, RecoverPreparation, LinksOwned, OneJournal
  <2>3. QED
    BY <2>1, <2>2 DEF RecoverPreparation
<1>4. PrepInv'
  BY StoreShapes, <1>J DEF IInv, Storage, RecoverPreparation, PrepInv, PreparationHolds,
     Outside, BackupsHold
<1>5. PendingInv'
  BY <1>J DEF IInv, Storage, RecoverPreparation, PendingInv, JournalHolds, Outside, AllAt,
     BackupAuthority
<1>6. CompInv'
  BY <1>J DEF IInv, Storage, RecoverPreparation, CompInv, Outside, CompensationHolds,
     CompensationHoldsFor, AllAt, SingleLink
<1>7. QuietInv'
  <2>1. SUFFICES ASSUME NoJournal' PROVE AcceptedHolds' /\ BackupsHold' /\ \A p \in Paths : SingleLink(p)'
    BY DEF QuietInv
  <2>2. /\ pending = NoIntent
        /\ UNCHANGED <<live, before, after, rollback, undo, accepted, backups>>
        /\ \A p \in prep.cover : before[p] = Absent /\ after[p] = Absent
    BY <1>J, <2>1 DEF RecoverPreparation, NoJournal
  <2>3. /\ \A p \in prep.cover : live[p] = prep.was[p]
        /\ accepted = prep.old /\ backups = prep.backups /\ BackupsHold
        /\ Outside(prep)
    BY <1>J DEF IInv, Storage, PrepInv, PreparationHolds
  <2>4. \A p \in Paths : before[p] = Absent /\ after[p] = Absent /\ undo[p] = Absent
    BY <1>J, <2>2 DEF IInv, Storage, LinksOwned
  <2>5. \A p \in prep.cover : /\ prep.old.nodes[p] \in {Unclaimed, prep.was[p]}
                              /\ prep.was[p] # Absent => prep.was[p] # Kept(prep.backups[p])
    BY <1>J DEF IInv, Storage, IntentsInv, WellFormed
  <2>6. \A p \in Paths : live[p] # Absent => live[p] # rollback[p]
    BY <2>3, <2>5 DEF Outside, BackupsHold
  <2>7. \A p \in Paths : accepted.nodes[p] # Unclaimed => live[p] = accepted.nodes[p]
    BY <2>3, <2>5 DEF Outside
  <2>8. QED
    BY <2>2, <2>3, <2>4, <2>6, <2>7 DEF AcceptedHolds, BackupsHold, SingleLink
<1>8. NodesInv'
  BY <1>J DEF IInv, Storage, RecoverPreparation, NodesInv, Aged
<1>9. QED
  BY <1>1, <1>2, <1>3, <1>4, <1>5, <1>6, <1>7, <1>8 DEF Storage

\* Publishing again under a fence moves a covered path to the node the intent names.
LEMMA RedoStored ==
    ASSUME IInv, Redo PROVE Storage'
<1> USE DEF nodes, storage, records, journals, service, At
<1>J. prep = NoIntent /\ pending # NoIntent /\ compensating = NoIntent
  BY DEF IInv, Known, Storage, OneJournal, ControlInv, Uncommitted, CommittedNow, NoJournal, Redo
<1>1. IntentsInv'
  BY <1>J DEF IInv, Storage, Redo, Return, ReplaceAfter, ToPublish, IntentsInv, WellFormed
<1>2. OneJournal'
  BY <1>J DEF IInv, Storage, Redo, Return, ReplaceAfter, ToPublish, OneJournal
<1>3. LinksOwned'
  BY StoreShapes, <1>J DEF IInv, Storage, Redo, Return, ReplaceAfter, ToPublish, LinksOwned
<1>4. PrepInv'
  BY <1>J DEF IInv, Storage, Redo, Return, ReplaceAfter, ToPublish, PrepInv, PreparationHolds,
     Outside, BackupsHold
<1>5. PendingInv'
  BY StoreShapes, <1>J DEF IInv, Known, Storage, ControlInv, Redo, Return, ReplaceAfter,
     ToPublish, PendingInv, JournalHolds, Outside, AllAt, BackupAuthority, Uncommitted,
     CommittedNow, NoJournal
<1>6. CompInv'
  BY <1>J DEF IInv, Storage, Redo, Return, ReplaceAfter, ToPublish, CompInv, Outside,
     CompensationHolds, CompensationHoldsFor, AllAt, SingleLink
<1>7. QuietInv'
  BY <1>J DEF IInv, Storage, Redo, Return, ReplaceAfter, ToPublish, QuietInv, NoJournal,
     AcceptedHolds, BackupsHold, SingleLink
<1>8. NodesInv'
  <2>1. /\ staged \in Int /\ 0 <= staged
        /\ \A q \in Paths : live[q] \in Int /\ rollback[q] \in Int
        /\ \A q \in Paths : pending.was[q] \in Int /\ pending.now[q] \in Int
        /\ \A q \in Paths : compensating.was[q] \in Int /\ compensating.now[q] \in Int
    BY NodeNumbers DEF IInv
  <2>2. \A q \in Paths : live'[q] \in {live[q], pending.was[q], pending.now[q], compensating.was[q], 0}
    BY StoreShapes, <1>J DEF Redo, ReplaceAfter, ToPublish, Absent
  <2>3. \A q \in Paths : rollback'[q] \in {rollback[q], pending.was[q], 0}
    BY StoreShapes, <1>J DEF Redo, ReplaceAfter, ToPublish, Absent
  <2>4. UNCHANGED <<staged, prep, pending, compensating, last>>
    BY DEF Redo, Publish
  <2>5. QED
    BY <2>1, <2>2, <2>3, <2>4 DEF IInv, Storage, NodesInv, Aged
<1>9. QED
  BY <1>1, <1>2, <1>3, <1>4, <1>5, <1>6, <1>7, <1>8 DEF Storage

\* Undoing an uncommitted intent brings back the node the intent remembers.
LEMMA UndoStored ==
    ASSUME IInv, Undo PROVE Storage'
<1> USE DEF nodes, storage, records, journals, service, At
<1>J. prep = NoIntent /\ pending # NoIntent /\ compensating = NoIntent
  BY DEF IInv, Known, Storage, OneJournal, ControlInv, Uncommitted, CommittedNow, NoJournal, Undo
<1>1. IntentsInv'
  BY <1>J DEF IInv, Storage, Undo, Return, Goto, ReplaceBefore, ToRestore, IntentsInv, WellFormed
<1>2. OneJournal'
  BY <1>J DEF IInv, Storage, Undo, Return, Goto, ReplaceBefore, ToRestore, OneJournal
<1>3. LinksOwned'
  BY StoreShapes, <1>J DEF IInv, Storage, Undo, Return, Goto, ReplaceBefore, ToRestore, LinksOwned
<1>4. PrepInv'
  BY <1>J DEF IInv, Storage, Undo, Return, Goto, ReplaceBefore, ToRestore, PrepInv,
     PreparationHolds, Outside, BackupsHold
<1>5. PendingInv'
  BY StoreShapes, <1>J DEF IInv, Known, Storage, ControlInv, Undo, Return, Goto, ReplaceBefore,
     ToRestore, PendingInv, JournalHolds, Outside, AllAt, BackupAuthority, Uncommitted,
     CommittedNow, NoJournal
<1>6. CompInv'
  BY <1>J DEF IInv, Storage, Undo, Return, Goto, ReplaceBefore, ToRestore, CompInv, Outside,
     CompensationHolds, CompensationHoldsFor, AllAt, SingleLink
<1>7. QuietInv'
  BY <1>J DEF IInv, Storage, Undo, Return, Goto, ReplaceBefore, ToRestore, QuietInv, NoJournal,
     AcceptedHolds, BackupsHold, SingleLink
<1>8. NodesInv'
  <2>1. /\ staged \in Int /\ 0 <= staged
        /\ \A q \in Paths : live[q] \in Int /\ rollback[q] \in Int
        /\ \A q \in Paths : pending.was[q] \in Int /\ pending.now[q] \in Int
        /\ \A q \in Paths : compensating.was[q] \in Int /\ compensating.now[q] \in Int
    BY NodeNumbers DEF IInv
  <2>2. \A q \in Paths : live'[q] \in {live[q], pending.was[q], pending.now[q], compensating.was[q], 0}
    BY StoreShapes, <1>J DEF Undo, ReplaceBefore, ToRestore, Absent
  <2>3. \A q \in Paths : rollback'[q] \in {rollback[q], pending.was[q], 0}
    BY StoreShapes, <1>J DEF Undo, ReplaceBefore, ToRestore, Absent
  <2>4. UNCHANGED <<staged, prep, pending, compensating, last>>
    BY DEF Undo
  <2>5. QED
    BY <2>1, <2>2, <2>3, <2>4 DEF IInv, Storage, NodesInv, Aged
<1>9. QED
  BY <1>1, <1>2, <1>3, <1>4, <1>5, <1>6, <1>7, <1>8 DEF Storage

\* compensating.json starts from a last.json that describes what is on disk.
LEMMA CompensateRecordStored ==
    ASSUME IInv, CompensateRecord PROVE Storage'
<1> USE DEF nodes, storage, records, journals, service, At
<1>J. prep = NoIntent /\ pending = NoIntent
  BY DEF IInv, Known, Storage, OneJournal, ControlInv, Uncommitted, CommittedNow, NoJournal,
     CompensateRecord
<1>1. IntentsInv'
  BY <1>J DEF IInv, Storage, CompensateRecord, Goto, IntentsInv, WellFormed
<1>2. OneJournal'
  BY <1>J DEF IInv, Storage, CompensateRecord, Goto, OneJournal
<1>3. LinksOwned'
  BY <1>J DEF IInv, Storage, CompensateRecord, Goto, LinksOwned
<1>4. PrepInv'
  BY <1>J DEF IInv, Storage, CompensateRecord, Goto, PrepInv, PreparationHolds, Outside,
     BackupsHold
<1>5. PendingInv'
  BY <1>J DEF IInv, Storage, CompensateRecord, Goto, PendingInv, JournalHolds, Outside, AllAt,
     BackupAuthority
<1>6. CompInv'
  <2>1. CASE compensating # NoIntent
    BY <1>J, <2>1 DEF IInv, Storage, CompensateRecord, CompInv, CompensationHolds,
       CompensationHoldsFor,
       Outside, AllAt, SingleLink, AfterBackups, CompensatedBackups
  <2>2. CASE compensating = NoIntent
    <3>1. last # NoIntent /\ CompensationHoldsFor(last, TRUE)
      BY <2>2 DEF IInv, Known, ControlInv, CompensateRecord
    <3>2. accepted = last.new /\ last.new # last.old
      BY <1>J, <2>2, <3>1 DEF IInv, Known, LastInv, Storage, IntentsInv, WellFormed
    <3>3. \A p \in last.cover : last.now[p] # Absent => last.now[p] # last.was[p]
      BY <3>1 DEF IInv, Storage, IntentsInv, WellFormed
    <3>4. \A p \in last.cover : live[p] = last.was[p] => rollback[p] = Absent
      BY <3>1, <3>3 DEF CompensationHoldsFor
    <3>5. CompensationHoldsFor(last, FALSE)
      BY <3>1 DEF CompensationHoldsFor
    <3>6. /\ compensating' = last
          /\ UNCHANGED <<live, before, after, rollback, undo, accepted, backups>>
      BY <2>2 DEF CompensateRecord
    <3>7. CompensationHolds'
      BY <3>5, <3>6 DEF CompensationHolds, CompensationHoldsFor, SingleLink, AfterBackups,
         CompensatedBackups
    <3>8. Outside(last)
      BY <1>J, <2>2 DEF IInv, Storage, QuietInv, NoJournal, AcceptedHolds, SingleLink, Outside
    <3>9. QED
      BY <3>2, <3>4, <3>6, <3>7, <3>8 DEF CompInv, Outside
  <2>3. QED
    BY <2>1, <2>2
<1>7. QuietInv'
  BY <1>J DEF IInv, Storage, CompensateRecord, Goto, QuietInv, NoJournal, AcceptedHolds,
     BackupsHold, SingleLink
<1>8. NodesInv'
  BY <1>J DEF IInv, Storage, CompensateRecord, Goto, NodesInv, Aged
<1>9. QED
  BY <1>1, <1>2, <1>3, <1>4, <1>5, <1>6, <1>7, <1>8 DEF Storage

\* An entry is withdrawn only after an undo link holds the node.
LEMMA CompensateEntryStored ==
    ASSUME IInv, \E p \in Paths : CompensateEntry(p) PROVE Storage'
<1> USE DEF nodes, storage, records, journals, service, At
<1>J. prep = NoIntent /\ pending = NoIntent /\ compensating # NoIntent
  BY DEF IInv, Known, Storage, OneJournal, ControlInv, Uncommitted, CommittedNow, NoJournal,
     CompensateEntry
<1>1. IntentsInv'
  BY <1>J DEF IInv, Storage, CompensateEntry, IntentsInv, WellFormed
<1>2. OneJournal'
  BY <1>J DEF IInv, Storage, CompensateEntry, OneJournal
<1>3. LinksOwned'
  BY StoreShapes, <1>J DEF IInv, Storage, CompensateEntry, LinksOwned
<1>4. PrepInv'
  BY <1>J DEF IInv, Storage, CompensateEntry, PrepInv, PreparationHolds, Outside, BackupsHold
<1>5. PendingInv'
  BY <1>J DEF IInv, Storage, CompensateEntry, PendingInv, JournalHolds, Outside, AllAt,
     BackupAuthority
<1>6. CompInv'
  BY StoreShapes, <1>J DEF IInv, Storage, CompensateEntry, CompInv, Outside, CompensationHolds,
     CompensationHoldsFor, AllAt, SingleLink
<1>7. QuietInv'
  BY <1>J DEF IInv, Storage, CompensateEntry, QuietInv, NoJournal, AcceptedHolds, BackupsHold,
     SingleLink
<1>8. NodesInv'
  <2>1. /\ staged \in Int /\ 0 <= staged
        /\ \A q \in Paths : live[q] \in Int /\ rollback[q] \in Int
        /\ \A q \in Paths : pending.was[q] \in Int /\ pending.now[q] \in Int
        /\ \A q \in Paths : compensating.was[q] \in Int /\ compensating.now[q] \in Int
    BY NodeNumbers DEF IInv
  <2>2. \A q \in Paths : live'[q] \in {live[q], pending.was[q], pending.now[q], compensating.was[q], 0}
    BY StoreShapes, <1>J DEF CompensateEntry, Absent
  <2>3. \A q \in Paths : rollback'[q] \in {rollback[q], pending.was[q], 0}
    BY StoreShapes, <1>J DEF CompensateEntry, Absent
  <2>4. UNCHANGED <<staged, prep, pending, compensating, last>>
    BY DEF CompensateEntry
  <2>5. QED
    BY <2>1, <2>2, <2>3, <2>4 DEF IInv, Storage, NodesInv, Aged
<1>9. QED
  BY <1>1, <1>2, <1>3, <1>4, <1>5, <1>6, <1>7, <1>8 DEF Storage

\* backups.json is emptied when every covered path is back.
LEMMA CompensateBackupsStored ==
    ASSUME IInv, CompensateBackups PROVE Storage'
<1> USE DEF nodes, storage, records, journals, service, At
<1>J. prep = NoIntent /\ pending = NoIntent /\ compensating # NoIntent
  BY DEF IInv, Known, Storage, OneJournal, ControlInv, Uncommitted, CommittedNow, NoJournal,
     CompensateBackups
<1>1. IntentsInv'
  BY <1>J DEF IInv, Storage, CompensateBackups, Goto, Done, IntentsInv, WellFormed
<1>2. OneJournal'
  BY <1>J DEF IInv, Storage, CompensateBackups, Goto, Done, OneJournal
<1>3. LinksOwned'
  BY <1>J DEF IInv, Storage, CompensateBackups, Goto, Done, LinksOwned
<1>4. PrepInv'
  BY <1>J DEF IInv, Storage, CompensateBackups, Goto, Done, PrepInv, PreparationHolds, Outside,
     BackupsHold
<1>5. PendingInv'
  BY <1>J DEF IInv, Storage, CompensateBackups, Goto, Done, PendingInv, JournalHolds, Outside,
     AllAt, BackupAuthority
<1>6. CompInv'
  BY <1>J DEF IInv, Storage, CompensateBackups, Goto, Done, CompInv, Outside,
     CompensationHolds, CompensationHoldsFor, AllAt, SingleLink
<1>7. QuietInv'
  BY <1>J DEF IInv, Storage, CompensateBackups, Goto, Done, QuietInv, NoJournal, AcceptedHolds,
     BackupsHold, SingleLink
<1>8. NodesInv'
  BY <1>J DEF IInv, Storage, CompensateBackups, Goto, Done, NodesInv, Aged
<1>9. QED
  BY <1>1, <1>2, <1>3, <1>4, <1>5, <1>6, <1>7, <1>8 DEF Storage

\* The receipt before the compensated one is accepted when its nodes are selected.
LEMMA CompensateAcceptStored ==
    ASSUME IInv, CompensateAccept PROVE Storage'
<1> USE DEF nodes, storage, records, journals, service, At
<1>J. prep = NoIntent /\ pending = NoIntent /\ compensating # NoIntent
  BY DEF IInv, Known, Storage, OneJournal, ControlInv, Uncommitted, CommittedNow, NoJournal,
     CompensateAccept
<1>1. IntentsInv'
  BY <1>J DEF IInv, Storage, CompensateAccept, Goto, IntentsInv, WellFormed
<1>2. OneJournal'
  BY <1>J DEF IInv, Storage, CompensateAccept, Goto, OneJournal
<1>3. LinksOwned'
  BY <1>J DEF IInv, Storage, CompensateAccept, Goto, LinksOwned
<1>4. PrepInv'
  BY <1>J DEF IInv, Storage, CompensateAccept, Goto, PrepInv, PreparationHolds, Outside,
     BackupsHold
<1>5. PendingInv'
  BY <1>J DEF IInv, Storage, CompensateAccept, Goto, PendingInv, JournalHolds, Outside, AllAt,
     BackupAuthority
<1>6. CompInv'
  <2>1. /\ accepted' = compensating.old
        /\ UNCHANGED <<live, before, after, rollback, undo, compensating, backups>>
    BY DEF CompensateAccept
  <2>2. /\ CompensationHolds /\ Outside(compensating)
        /\ \A p \in compensating.cover : live[p] = compensating.was[p] => rollback[p] = Absent
        /\ AllAt(compensating, compensating.was) /\ backups = CompensatedBackups(compensating)
    BY <1>J DEF IInv, Known, Storage, CompInv, ControlInv, CompensateAccept
  <2>3. /\ \A p \in Paths \ compensating.cover : compensating.new.nodes[p] = compensating.old.nodes[p]
        /\ accepted \in {compensating.old, compensating.new}
    BY <1>J, <2>2 DEF IInv, Storage, IntentsInv, WellFormed, Overlay, CompensationHolds,
       CompensationHoldsFor
  <2>4. Outside(compensating)'
    BY <2>1, <2>2, <2>3 DEF Outside
  <2>5. CompensationHolds'
    BY <1>J, <2>1, <2>2 DEF CompensationHolds, CompensationHoldsFor, SingleLink, AfterBackups,
       CompensatedBackups
  <2>6. QED
    BY <2>1, <2>2, <2>4, <2>5 DEF CompInv, AllAt, CompensatedBackups, AfterBackups
<1>7. QuietInv'
  BY <1>J DEF IInv, Storage, CompensateAccept, Goto, QuietInv, NoJournal, AcceptedHolds,
     BackupsHold, SingleLink
<1>8. NodesInv'
  BY <1>J DEF IInv, Storage, CompensateAccept, Goto, NodesInv, Aged
<1>9. QED
  BY <1>1, <1>2, <1>3, <1>4, <1>5, <1>6, <1>7, <1>8 DEF Storage

\* The undo links go before last.json, and last.json before the intent.
LEMMA CompensateFinishStored ==
    ASSUME IInv, CompensateFinish PROVE Storage'
<1> USE DEF nodes, storage, records, journals, service, At
<1>J. prep = NoIntent /\ pending = NoIntent /\ compensating # NoIntent
  BY DEF IInv, Known, Storage, OneJournal, ControlInv, Uncommitted, CommittedNow, NoJournal,
     CompensateFinish
<1>1. IntentsInv'
  BY <1>J DEF IInv, Storage, CompensateFinish, Return, IntentsInv, WellFormed
<1>2. OneJournal'
  BY <1>J DEF IInv, Storage, CompensateFinish, Return, OneJournal
<1>3. LinksOwned'
  BY StoreShapes, <1>J DEF IInv, Storage, CompensateFinish, Return, LinksOwned
<1>4. PrepInv'
  BY <1>J DEF IInv, Storage, CompensateFinish, Return, PrepInv, PreparationHolds, Outside,
     BackupsHold
<1>5. PendingInv'
  BY <1>J DEF IInv, Storage, CompensateFinish, Return, PendingInv, JournalHolds, Outside,
     AllAt, BackupAuthority
<1>6. CompInv'
  BY StoreShapes, <1>J DEF IInv, Known, Storage, ControlInv, CompensateFinish, Return, CompInv,
     Outside, CompensationHolds, CompensationHoldsFor, AllAt, SingleLink, Uncommitted,
     CommittedNow, NoJournal
<1>7. QuietInv'
  <2>1. SUFFICES ASSUME NoJournal' PROVE AcceptedHolds' /\ BackupsHold' /\ \A p \in Paths : SingleLink(p)'
    BY DEF QuietInv
  <2>2. /\ UNCHANGED <<live, before, after, rollback, undo, accepted, backups>>
        /\ \A p \in compensating.cover : undo[p] = Absent
    BY <1>J, <2>1 DEF CompensateFinish, NoJournal
  <2>3. /\ accepted = compensating.old /\ backups = CompensatedBackups(compensating)
        /\ \A p \in compensating.cover : live[p] = compensating.was[p]
    BY DEF IInv, Known, ControlInv, CompensateFinish, AllAt
  <2>4. \A p \in Paths : before[p] = Absent /\ after[p] = Absent /\ undo[p] = Absent
    BY <1>J, <2>2 DEF IInv, Storage, LinksOwned
  <2>5. /\ \A p \in compensating.cover : compensating.old.nodes[p] \in {Unclaimed, compensating.was[p]}
        /\ \A p \in Paths \ compensating.cover : compensating.new.nodes[p] = compensating.old.nodes[p]
    BY <1>J DEF IInv, Storage, IntentsInv, WellFormed, Overlay
  <2>6. /\ \A p \in compensating.cover : rollback[p] = Absent
        /\ Outside(compensating)
        /\ \A p \in Paths \ compensating.cover :
             /\ rollback[p] = Kept(AfterBackups(compensating)[p])
             /\ compensating.new.nodes[p] # Unclaimed =>
                  live[p] = compensating.new.nodes[p] /\ SingleLink(p)
    BY <1>J, <2>3 DEF IInv, Storage, CompInv, CompensationHolds, CompensationHoldsFor
  <2>7. \A p \in Paths : backups[p] = IF p \in compensating.cover THEN Absent
                                     ELSE AfterBackups(compensating)[p]
    BY <2>3 DEF CompensatedBackups, Overlay
  <2>8. BackupsHold
    BY <2>6, <2>7 DEF BackupsHold, Kept, Absent, Unclaimed
  <2>9. QED
    BY <2>2, <2>3, <2>4, <2>5, <2>6, <2>8 DEF Outside, AcceptedHolds, BackupsHold, SingleLink
<1>8. NodesInv'
  BY <1>J DEF IInv, Storage, CompensateFinish, Return, NodesInv, Aged
<1>9. QED
  BY <1>1, <1>2, <1>3, <1>4, <1>5, <1>6, <1>7, <1>8 DEF Storage

\* A staged candidate is claimed by preparation.json before anything links it.
LEMMA StageStored ==
    ASSUME IInv, Stage PROVE Storage'
<1> USE DEF nodes, storage, records, journals, service, At
<1>J. NoJournal
  BY DEF IInv, Known, Storage, OneJournal, ControlInv, Uncommitted, CommittedNow, NoJournal,
     Stage, Ready
<1>1. IntentsInv'
  <2>1. prep' = IntentFor(job.cand, staged + 1) /\ UNCHANGED <<pending, compensating, last>>
    BY DEF Stage
  <2>2. WellFormed(IntentFor(job.cand, staged + 1))
    BY FreshIntent DEF Stage
  <2>3. QED
    BY <2>1, <2>2 DEF IInv, Storage, IntentsInv, WellFormed
<1>2. OneJournal'
  BY StoreShapes, <1>J DEF IInv, Known, Storage, ControlInv, Stage, Goto, IntentFor, Ready,
     OneJournal, Uncommitted, CommittedNow, NoJournal
<1>3. LinksOwned'
  BY StoreShapes, <1>J DEF IInv, Known, Storage, ControlInv, Stage, Goto, IntentFor, Ready,
     LinksOwned, Uncommitted, CommittedNow, NoJournal
<1>4. PrepInv'
  <2>1. /\ prep' = IntentFor(job.cand, staged + 1) /\ pending' = NoIntent
        /\ UNCHANGED <<live, before, after, rollback, undo, accepted, backups>>
        /\ AcceptedHolds /\ BackupsHold
    BY <1>J DEF Stage, Ready, NoJournal
  <2>2. \A p \in Paths : before[p] = Absent /\ after[p] = Absent
    BY <1>J DEF IInv, Storage, LinksOwned, NoJournal
  <2>3. /\ prep'.cover = job.cand.cover /\ prep'.old = accepted /\ prep'.backups = backups
        /\ job.cand.cover \subseteq Paths
        /\ \A p \in job.cand.cover : prep'.was[p] = live[p]
    <3>1. job.cand.cover \subseteq Paths
      BY CandidateOf DEF Stage
    <3>2. QED
      BY <2>1, <3>1 DEF IntentFor
  <2>4. \A p \in Paths : live[p] # Absent => live[p] # rollback[p]
    BY <1>J DEF IInv, Storage, QuietInv, SingleLink
  <2>5. PreparationHolds'
    BY <2>1, <2>2, <2>3 DEF PreparationHolds, BackupsHold
  <2>6. Outside(prep)'
    BY <2>1, <2>4 DEF Outside, AcceptedHolds
  <2>7. QED
    BY <2>1, <2>5, <2>6 DEF PrepInv
<1>5. PendingInv'
  BY <1>J DEF IInv, Storage, Stage, Goto, IntentFor, Ready, PendingInv, JournalHolds, Outside,
     AllAt, BackupAuthority
<1>6. CompInv'
  BY <1>J DEF IInv, Storage, Stage, Goto, IntentFor, Ready, CompInv, Outside,
     CompensationHolds, CompensationHoldsFor, AllAt, SingleLink
<1>7. QuietInv'
  BY <1>J DEF IInv, Storage, Stage, Goto, IntentFor, Ready, QuietInv, NoJournal, AcceptedHolds,
     BackupsHold, SingleLink
<1>8. NodesInv'
  <2>1. /\ staged \in Int /\ 0 <= staged
        /\ \A q \in Paths : /\ live[q] \in Int /\ rollback[q] \in Int
                            /\ pending.was[q] \in Int /\ pending.now[q] \in Int
                            /\ compensating.was[q] \in Int /\ compensating.now[q] \in Int
                            /\ last.was[q] \in Int /\ last.now[q] \in Int
    BY NodeNumbers DEF IInv
  <2>2. \A q \in Paths : prep'.was[q] \in {live[q], 0} /\ prep'.now[q] \in {staged + 1, 0}
    BY DEF Stage, IntentFor, Absent
  <2>3. staged' = staged + 1 /\ UNCHANGED <<live, rollback, pending, compensating, last>>
    BY DEF Stage
  <2>4. QED
    BY <2>1, <2>2, <2>3 DEF IInv, Storage, NodesInv, Aged
<1>9. QED
  BY <1>1, <1>2, <1>3, <1>4, <1>5, <1>6, <1>7, <1>8 DEF Storage

\* Fixed links are made only under the claim that owns them.
LEMMA LinkNodeStored ==
    ASSUME IInv, LinkNode PROVE Storage'
<1> USE DEF nodes, storage, records, journals, service, At
<1>J. prep # NoIntent /\ pending = NoIntent /\ compensating = NoIntent
  BY DEF IInv, Known, Storage, OneJournal, ControlInv, Uncommitted, CommittedNow, NoJournal,
     LinkNode
<1>1. IntentsInv'
  BY <1>J DEF IInv, Storage, LinkNode, IntentsInv, WellFormed
<1>2. OneJournal'
  BY <1>J DEF IInv, Storage, LinkNode, OneJournal
<1>3. LinksOwned'
  BY StoreShapes, <1>J DEF IInv, Storage, LinkNode, LinksOwned
<1>4. PrepInv'
  BY StoreShapes, <1>J DEF IInv, Storage, LinkNode, PrepInv, PreparationHolds, Outside,
     BackupsHold
<1>5. PendingInv'
  BY <1>J DEF IInv, Storage, LinkNode, PendingInv, JournalHolds, Outside, AllAt, BackupAuthority
<1>6. CompInv'
  BY <1>J DEF IInv, Storage, LinkNode, CompInv, Outside, CompensationHolds,
     CompensationHoldsFor, AllAt, SingleLink
<1>7. QuietInv'
  BY <1>J DEF IInv, Storage, LinkNode, QuietInv, NoJournal, AcceptedHolds, BackupsHold, SingleLink
<1>8. NodesInv'
  BY <1>J DEF IInv, Storage, LinkNode, NodesInv, Aged
<1>9. QED
  BY <1>1, <1>2, <1>3, <1>4, <1>5, <1>6, <1>7, <1>8 DEF Storage

\* pending.json repeats a preparation whose links are all made.
LEMMA RecordPendingStored ==
    ASSUME IInv, RecordPending PROVE Storage'
<1> USE DEF nodes, storage, records, journals, service, At
<1>J. prep # NoIntent /\ pending = NoIntent /\ compensating = NoIntent
  BY DEF IInv, Known, Storage, OneJournal, ControlInv, Uncommitted, CommittedNow, NoJournal,
     RecordPending
<1>1. IntentsInv'
  BY <1>J DEF IInv, Storage, RecordPending, Goto, IntentsInv, WellFormed
<1>2. OneJournal'
  BY <1>J DEF IInv, Storage, RecordPending, Goto, OneJournal
<1>3. LinksOwned'
  BY <1>J DEF IInv, Storage, RecordPending, Goto, LinksOwned
<1>4. PrepInv'
  BY <1>J DEF IInv, Storage, RecordPending, Goto, PrepInv, PreparationHolds, Outside, BackupsHold
<1>5. PendingInv'
  <2>1. pending' = prep /\ UNCHANGED <<live, before, after, rollback, undo, accepted, backups>>
    BY DEF RecordPending
  <2>2. PreparationHolds /\ Outside(prep) /\ prep.new # prep.old
    BY <1>J DEF IInv, Storage, PrepInv, IntentsInv, WellFormed
  <2>3. JournalHolds'
    BY <1>J, <2>1, <2>2 DEF JournalHolds, PreparationHolds, BackupAuthority, BackupsHold
  <2>4. QED
    BY <1>J, <2>1, <2>2, <2>3 DEF PendingInv, PreparationHolds, Outside
<1>6. CompInv'
  BY <1>J DEF IInv, Storage, RecordPending, Goto, CompInv, Outside, CompensationHolds,
     CompensationHoldsFor, AllAt, SingleLink
<1>7. QuietInv'
  BY <1>J DEF IInv, Storage, RecordPending, Goto, QuietInv, NoJournal, AcceptedHolds,
     BackupsHold, SingleLink
<1>8. NodesInv'
  BY <1>J DEF IInv, Storage, RecordPending, Goto, NodesInv, Aged
<1>9. QED
  BY <1>1, <1>2, <1>3, <1>4, <1>5, <1>6, <1>7, <1>8 DEF Storage

\* The preparation goes once pending.json owns its links.
LEMMA FinishPreparationStored ==
    ASSUME IInv, FinishPreparation PROVE Storage'
<1> USE DEF nodes, storage, records, journals, service, At
<1>J. prep # NoIntent /\ pending = prep /\ compensating = NoIntent
  BY DEF IInv, Known, Storage, OneJournal, ControlInv, Uncommitted, CommittedNow, NoJournal,
     FinishPreparation
<1>1. IntentsInv'
  BY <1>J DEF IInv, Storage, FinishPreparation, Goto, IntentsInv, WellFormed
<1>2. OneJournal'
  BY <1>J DEF IInv, Storage, FinishPreparation, Goto, OneJournal
<1>3. LinksOwned'
  BY <1>J DEF IInv, Storage, FinishPreparation, Goto, LinksOwned
<1>4. PrepInv'
  BY <1>J DEF IInv, Storage, FinishPreparation, Goto, PrepInv, PreparationHolds, Outside,
     BackupsHold
<1>5. PendingInv'
  BY <1>J DEF IInv, Storage, FinishPreparation, Goto, PendingInv, JournalHolds, Outside, AllAt,
     BackupAuthority
<1>6. CompInv'
  BY <1>J DEF IInv, Storage, FinishPreparation, Goto, CompInv, Outside, CompensationHolds,
     CompensationHoldsFor, AllAt, SingleLink
<1>7. QuietInv'
  BY <1>J DEF IInv, Storage, FinishPreparation, Goto, QuietInv, NoJournal, AcceptedHolds,
     BackupsHold, SingleLink
<1>8. NodesInv'
  BY <1>J DEF IInv, Storage, FinishPreparation, Goto, NodesInv, Aged
<1>9. QED
  BY <1>1, <1>2, <1>3, <1>4, <1>5, <1>6, <1>7, <1>8 DEF Storage

\* Publishing the selection moves a covered path to the node the intent names.
LEMMA PublishSelectedStored ==
    ASSUME IInv, PublishSelected PROVE Storage'
<1> USE DEF nodes, storage, records, journals, service, At
<1>J. prep = NoIntent /\ pending # NoIntent /\ compensating = NoIntent
  BY DEF IInv, Known, Storage, OneJournal, ControlInv, Uncommitted, CommittedNow, NoJournal,
     PublishSelected, Publish
<1>1. IntentsInv'
  BY <1>J DEF IInv, Storage, PublishSelected, Publish, Goto, ReplaceAfter, ToPublish,
     IntentsInv, WellFormed
<1>2. OneJournal'
  BY <1>J DEF IInv, Storage, PublishSelected, Publish, Goto, ReplaceAfter, ToPublish, OneJournal
<1>3. LinksOwned'
  BY StoreShapes, <1>J DEF IInv, Storage, PublishSelected, Publish, Goto, ReplaceAfter,
     ToPublish, LinksOwned
<1>4. PrepInv'
  BY <1>J DEF IInv, Storage, PublishSelected, Publish, Goto, ReplaceAfter, ToPublish, PrepInv,
     PreparationHolds, Outside, BackupsHold
<1>5. PendingInv'
  BY StoreShapes, <1>J DEF IInv, Known, Storage, ControlInv, PublishSelected, Publish, Goto,
     ReplaceAfter, ToPublish, PendingInv, JournalHolds, Outside, AllAt, BackupAuthority,
     Uncommitted, CommittedNow, NoJournal
<1>6. CompInv'
  BY <1>J DEF IInv, Storage, PublishSelected, Publish, Goto, ReplaceAfter, ToPublish, CompInv,
     Outside, CompensationHolds, CompensationHoldsFor, AllAt, SingleLink
<1>7. QuietInv'
  BY <1>J DEF IInv, Storage, PublishSelected, Publish, Goto, ReplaceAfter, ToPublish, QuietInv,
     NoJournal, AcceptedHolds, BackupsHold, SingleLink
<1>8. NodesInv'
  <2>1. /\ staged \in Int /\ 0 <= staged
        /\ \A q \in Paths : live[q] \in Int /\ rollback[q] \in Int
        /\ \A q \in Paths : pending.was[q] \in Int /\ pending.now[q] \in Int
        /\ \A q \in Paths : compensating.was[q] \in Int /\ compensating.now[q] \in Int
    BY NodeNumbers DEF IInv
  <2>2. \A q \in Paths : live'[q] \in {live[q], pending.was[q], pending.now[q], compensating.was[q], 0}
    BY StoreShapes, <1>J DEF PublishSelected, Publish, ReplaceAfter, ToPublish, Absent
  <2>3. \A q \in Paths : rollback'[q] \in {rollback[q], pending.was[q], 0}
    BY StoreShapes, <1>J DEF PublishSelected, Publish, ReplaceAfter, ToPublish, Absent
  <2>4. UNCHANGED <<staged, prep, pending, compensating, last>>
    BY DEF PublishSelected, Publish
  <2>5. QED
    BY <2>1, <2>2, <2>3, <2>4 DEF IInv, Storage, NodesInv, Aged
<1>9. QED
  BY <1>1, <1>2, <1>3, <1>4, <1>5, <1>6, <1>7, <1>8 DEF Storage

\* So does publishing the deferred entries.
LEMMA PublishDeferredStored ==
    ASSUME IInv, PublishDeferred PROVE Storage'
<1> USE DEF nodes, storage, records, journals, service, At
<1>J. prep = NoIntent /\ pending # NoIntent /\ compensating = NoIntent
  BY DEF IInv, Known, Storage, OneJournal, ControlInv, Uncommitted, CommittedNow, NoJournal,
     PublishDeferred, Publish
<1>1. IntentsInv'
  BY <1>J DEF IInv, Storage, PublishDeferred, Publish, Goto, ReplaceAfter, ToPublish,
     IntentsInv, WellFormed
<1>2. OneJournal'
  BY <1>J DEF IInv, Storage, PublishDeferred, Publish, Goto, ReplaceAfter, ToPublish, OneJournal
<1>3. LinksOwned'
  BY StoreShapes, <1>J DEF IInv, Storage, PublishDeferred, Publish, Goto, ReplaceAfter,
     ToPublish, LinksOwned
<1>4. PrepInv'
  BY <1>J DEF IInv, Storage, PublishDeferred, Publish, Goto, ReplaceAfter, ToPublish, PrepInv,
     PreparationHolds, Outside, BackupsHold
<1>5. PendingInv'
  BY StoreShapes, <1>J DEF IInv, Known, Storage, ControlInv, PublishDeferred, Publish, Goto,
     ReplaceAfter, ToPublish, PendingInv, JournalHolds, Outside, AllAt, BackupAuthority,
     Uncommitted, CommittedNow, NoJournal
<1>6. CompInv'
  BY <1>J DEF IInv, Storage, PublishDeferred, Publish, Goto, ReplaceAfter, ToPublish, CompInv,
     Outside, CompensationHolds, CompensationHoldsFor, AllAt, SingleLink
<1>7. QuietInv'
  BY <1>J DEF IInv, Storage, PublishDeferred, Publish, Goto, ReplaceAfter, ToPublish, QuietInv,
     NoJournal, AcceptedHolds, BackupsHold, SingleLink
<1>8. NodesInv'
  <2>1. /\ staged \in Int /\ 0 <= staged
        /\ \A q \in Paths : live[q] \in Int /\ rollback[q] \in Int
        /\ \A q \in Paths : pending.was[q] \in Int /\ pending.now[q] \in Int
        /\ \A q \in Paths : compensating.was[q] \in Int /\ compensating.now[q] \in Int
    BY NodeNumbers DEF IInv
  <2>2. \A q \in Paths : live'[q] \in {live[q], pending.was[q], pending.now[q], compensating.was[q], 0}
    BY StoreShapes, <1>J DEF PublishDeferred, Publish, ReplaceAfter, ToPublish, Absent
  <2>3. \A q \in Paths : rollback'[q] \in {rollback[q], pending.was[q], 0}
    BY StoreShapes, <1>J DEF PublishDeferred, Publish, ReplaceAfter, ToPublish, Absent
  <2>4. UNCHANGED <<staged, prep, pending, compensating, last>>
    BY DEF PublishDeferred, Publish
  <2>5. QED
    BY <2>1, <2>2, <2>3, <2>4 DEF IInv, Storage, NodesInv, Aged
<1>9. QED
  BY <1>1, <1>2, <1>3, <1>4, <1>5, <1>6, <1>7, <1>8 DEF Storage

\* Sealing replaces the planned units of an uncommitted intent.
LEMMA SealStored ==
    ASSUME IInv, Seal PROVE Storage'
<1> USE DEF nodes, storage, records, journals, service, At
<1>J. prep = NoIntent /\ pending # NoIntent /\ compensating = NoIntent
  BY DEF IInv, Known, Storage, OneJournal, ControlInv, Uncommitted, CommittedNow, NoJournal, Seal
<1>1. IntentsInv'
  <2>1. /\ pending'.cover = pending.cover /\ pending'.was = pending.was
        /\ pending'.now = pending.now
        /\ pending'.old = pending.old /\ pending'.backups = pending.backups
        /\ pending'.new.nodes = pending.new.nodes /\ pending'.new.units = "observed"
        /\ pending' # NoIntent
        /\ UNCHANGED <<live, before, after, rollback, undo, accepted, backups, prep, compensating, last>>
    BY SealedIntent DEF IInv, Seal
  <2>2. QED
    BY <1>J, <2>1 DEF IInv, Storage, IntentsInv, WellFormed
<1>2. OneJournal'
  BY <1>J DEF IInv, Storage, Seal, Goto, OneJournal
<1>3. LinksOwned'
  <2>1. /\ pending'.cover = pending.cover /\ pending'.was = pending.was
        /\ pending'.now = pending.now
        /\ pending'.old = pending.old /\ pending'.backups = pending.backups
        /\ pending'.new.nodes = pending.new.nodes /\ pending'.new.units = "observed"
        /\ pending' # NoIntent
        /\ UNCHANGED <<live, before, after, rollback, undo, accepted, backups, prep, compensating, last>>
    BY SealedIntent DEF IInv, Seal
  <2>2. QED
    BY <1>J, <2>1 DEF IInv, Storage, LinksOwned
<1>4. PrepInv'
  BY <1>J DEF IInv, Storage, Seal, Goto, PrepInv, PreparationHolds, Outside, BackupsHold
<1>5. PendingInv'
  <2>1. /\ pending'.cover = pending.cover /\ pending'.was = pending.was
        /\ pending'.now = pending.now
        /\ pending'.old = pending.old /\ pending'.backups = pending.backups
        /\ pending'.new.nodes = pending.new.nodes /\ pending'.new.units = "observed"
        /\ pending' # NoIntent
        /\ UNCHANGED <<live, before, after, rollback, undo, accepted, backups, prep, compensating, last>>
    BY SealedIntent DEF IInv, Seal
  <2>2. JournalHolds /\ Outside(pending) /\ AllAt(pending, pending.now)
    BY <1>J DEF IInv, Known, Storage, PendingInv, ControlInv, Seal
  <2>3. accepted = pending.old /\ pending.new.nodes # pending.old.nodes
    BY <1>J, <2>2 DEF IInv, Known, Storage, IntentsInv, WellFormed, ControlInv, Uncommitted,
       Seal, JournalHolds
  <2>4. accepted # pending.new /\ accepted # pending'.new
    BY <2>1, <2>3
  <2>5. BackupAuthority(pending, FALSE)
    BY <1>J, <2>2, <2>4 DEF JournalHolds
  <2>6. BackupAuthority(pending, FALSE)'
    BY <2>1, <2>5 DEF BackupAuthority
  <2>7. JournalHolds'
    BY <2>1, <2>2, <2>3, <2>4, <2>6, <1>J DEF JournalHolds
  <2>8. QED
    BY <2>1, <2>2, <2>4, <2>7 DEF PendingInv, Outside
<1>6. CompInv'
  BY <1>J DEF IInv, Storage, Seal, Goto, CompInv, Outside, CompensationHolds,
     CompensationHoldsFor, AllAt, SingleLink
<1>7. QuietInv'
  <2>1. /\ pending'.cover = pending.cover /\ pending'.was = pending.was
        /\ pending'.now = pending.now
        /\ pending'.old = pending.old /\ pending'.backups = pending.backups
        /\ pending'.new.nodes = pending.new.nodes /\ pending'.new.units = "observed"
        /\ pending' # NoIntent
        /\ UNCHANGED <<live, before, after, rollback, undo, accepted, backups, prep, compensating, last>>
    BY SealedIntent DEF IInv, Seal
  <2>2. QED
    BY <2>1 DEF QuietInv, NoJournal
<1>8. NodesInv'
  BY <1>J DEF IInv, Storage, Seal, Goto, NodesInv, Aged
<1>9. QED
  BY <1>1, <1>2, <1>3, <1>4, <1>5, <1>6, <1>7, <1>8 DEF Storage

\* The commit accepts a receipt whose nodes are all selected.
LEMMA CommitStored ==
    ASSUME IInv, Commit PROVE Storage'
<1> USE DEF nodes, storage, records, journals, service, At
<1>J. prep = NoIntent /\ pending # NoIntent /\ compensating = NoIntent
  BY DEF IInv, Known, Storage, OneJournal, ControlInv, Uncommitted, CommittedNow, NoJournal,
     Commit
<1>1. IntentsInv'
  BY <1>J DEF IInv, Storage, Commit, Goto, IntentsInv, WellFormed
<1>2. OneJournal'
  BY <1>J DEF IInv, Storage, Commit, Goto, OneJournal
<1>3. LinksOwned'
  BY <1>J DEF IInv, Storage, Commit, Goto, LinksOwned
<1>4. PrepInv'
  BY <1>J DEF IInv, Storage, Commit, Goto, PrepInv, PreparationHolds, Outside, BackupsHold
<1>5. PendingInv'
  <2>1. /\ accepted' = pending.new
        /\ UNCHANGED <<live, before, after, rollback, undo, pending, backups>>
    BY DEF Commit
  <2>2. JournalHolds /\ Outside(pending) /\ AllAt(pending, pending.now)
    BY <1>J DEF IInv, Known, Storage, PendingInv, ControlInv, Commit
  <2>3. accepted = pending.old /\ accepted # pending.new
    BY <1>J, <2>2 DEF IInv, Known, ControlInv, Uncommitted, Commit, JournalHolds
  <2>4. /\ \A p \in pending.cover : before[p] = pending.was[p]
        /\ \A p \in Paths \ pending.cover : pending.new.nodes[p] = pending.old.nodes[p]
    BY <1>J, <2>3 DEF IInv, Known, BeforeKept, Commit, Uncommitted, Storage, IntentsInv,
       WellFormed, Overlay
  <2>5. BackupAuthority(pending, FALSE)
    BY <1>J, <2>2, <2>3 DEF JournalHolds
  <2>6. BackupAuthority(pending, TRUE)'
    <3>1. /\ backups = pending.backups
          /\ \A p \in Paths : rollback[p] = Kept(pending.backups[p])
      BY <2>5 DEF BackupAuthority
    <3>2. backups = AfterBackups(pending) => \A p \in pending.cover : rollback[p] = pending.was[p]
      BY StoreShapes, <3>1, WasNodes DEF IInv, AfterBackups, Overlay, Kept
    <3>3. QED
      BY StoreShapes, <2>1, <2>4, <3>1, <3>2 DEF BackupAuthority, AfterBackups
  <2>7. JournalHolds'
    BY <2>1, <2>2, <2>6, <1>J DEF JournalHolds
  <2>8. Outside(pending)'
    BY <2>1, <2>2, <2>3, <2>4 DEF Outside
  <2>9. QED
    BY <2>1, <2>2, <2>7, <2>8 DEF PendingInv, AllAt
<1>6. CompInv'
  BY <1>J DEF IInv, Storage, Commit, Goto, CompInv, Outside, CompensationHolds,
     CompensationHoldsFor, AllAt, SingleLink
<1>7. QuietInv'
  BY <1>J DEF IInv, Storage, Commit, Goto, QuietInv, NoJournal, AcceptedHolds, BackupsHold,
     SingleLink
<1>8. NodesInv'
  BY <1>J DEF IInv, Storage, Commit, Goto, NodesInv, Aged
<1>9. QED
  BY <1>1, <1>2, <1>3, <1>4, <1>5, <1>6, <1>7, <1>8 DEF Storage

\* cleanup() keeps the previous node as the rollback before it drops the fixed link.
LEMMA CleanupEntryStored ==
    ASSUME IInv, \E p \in Paths : CleanupEntry(p) PROVE Storage'
<1> USE DEF nodes, storage, records, journals, service, At
<1>J. prep = NoIntent /\ pending # NoIntent /\ compensating = NoIntent
  BY DEF IInv, Known, Storage, OneJournal, ControlInv, Uncommitted, CommittedNow, NoJournal,
     CleanupEntry
<1>1. IntentsInv'
  BY <1>J DEF IInv, Storage, CleanupEntry, Committed, IntentsInv, WellFormed
<1>2. OneJournal'
  BY <1>J DEF IInv, Storage, CleanupEntry, Committed, OneJournal
<1>3. LinksOwned'
  BY StoreShapes, <1>J DEF IInv, Storage, CleanupEntry, Committed, LinksOwned
<1>4. PrepInv'
  BY <1>J DEF IInv, Storage, CleanupEntry, Committed, PrepInv, PreparationHolds, Outside,
     BackupsHold
<1>5. PendingInv'
  <2>1. PICK p \in Paths : CleanupEntry(p)
    OBVIOUS
  <2>2. /\ UNCHANGED <<live, undo, prep, pending, compensating, last, accepted, backups>>
        /\ p \in pending.cover /\ pending # NoIntent
        /\ \A q \in Paths \ {p} : before'[q] = before[q] /\ after'[q] = after[q] /\ rollback'[q] = rollback[q]
    BY <1>J, <2>1, StoreShapes DEF CleanupEntry
  <2>3. \/ Committed /\ rollback[p] \notin {Absent, pending.was[p]} /\ rollback'[p] = Absent
           /\ before'[p] = before[p] /\ after'[p] = after[p]
        \/ Committed /\ before[p] = pending.was[p] /\ rollback'[p] = pending.was[p]
           /\ before'[p] = Absent /\ after'[p] = after[p]
        \/ (Committed => rollback[p] = pending.was[p]) /\ rollback'[p] = rollback[p]
           /\ before'[p] = Absent /\ after'[p] = after[p]
        \/ (Committed => rollback[p] = pending.was[p]) /\ rollback'[p] = rollback[p]
           /\ before'[p] = before[p] /\ after'[p] = Absent
    BY <2>1, StoreShapes DEF CleanupEntry
  <2>4. JournalHolds /\ Outside(pending) /\ (accepted = pending.new => AllAt(pending, pending.now))
    BY <2>2 DEF IInv, Storage, PendingInv
  <2>5. \A q \in pending.cover : /\ before'[q] \in {Absent, pending.was[q]}
                                 /\ after'[q] \in {Absent, pending.now[q]}
    BY <2>2, <2>3, <2>4, StoreShapes DEF JournalHolds
  <2>6. BackupAuthority(pending, accepted = pending.new)'
    <3>1. BackupAuthority(pending, accepted = pending.new)
      BY <2>2, <2>4 DEF JournalHolds
    <3>2. ~ Committed \/ backups # AfterBackups(pending) \/ rollback[p] = pending.was[p]
      BY <2>2, <3>1 DEF BackupAuthority, Committed
    <3>3. QED
      BY <2>2, <2>3, <3>1, <3>2 DEF BackupAuthority, AfterBackups, Committed
  <2>7. Outside(pending)'
    BY <2>2, <2>4 DEF Outside
  <2>8. QED
    BY <2>2, <2>4, <2>5, <2>6, <2>7 DEF PendingInv, JournalHolds, AllAt
<1>6. CompInv'
  BY <1>J DEF IInv, Storage, CleanupEntry, Committed, CompInv, Outside, CompensationHolds,
     CompensationHoldsFor, AllAt, SingleLink
<1>7. QuietInv'
  BY <1>J DEF IInv, Storage, CleanupEntry, Committed, QuietInv, NoJournal, AcceptedHolds,
     BackupsHold, SingleLink
<1>8. NodesInv'
  <2>1. /\ staged \in Int /\ 0 <= staged
        /\ \A q \in Paths : live[q] \in Int /\ rollback[q] \in Int
        /\ \A q \in Paths : pending.was[q] \in Int /\ pending.now[q] \in Int
        /\ \A q \in Paths : compensating.was[q] \in Int /\ compensating.now[q] \in Int
    BY NodeNumbers DEF IInv
  <2>2. \A q \in Paths : live'[q] \in {live[q], pending.was[q], pending.now[q], compensating.was[q], 0}
    BY StoreShapes, <1>J DEF CleanupEntry, Committed, Absent
  <2>3. \A q \in Paths : rollback'[q] \in {rollback[q], pending.was[q], 0}
    BY StoreShapes, <1>J DEF CleanupEntry, Committed, Absent
  <2>4. UNCHANGED <<staged, prep, pending, compensating, last>>
    BY DEF CleanupEntry
  <2>5. QED
    BY <2>1, <2>2, <2>3, <2>4 DEF IInv, Storage, NodesInv, Aged
<1>9. QED
  BY <1>1, <1>2, <1>3, <1>4, <1>5, <1>6, <1>7, <1>8 DEF Storage

\* backups.json is written when every entry is cleaned.
LEMMA CleanupRecordStored ==
    ASSUME IInv, CleanupRecord PROVE Storage'
<1> USE DEF nodes, storage, records, journals, service, At
<1>J. prep = NoIntent /\ pending # NoIntent /\ compensating = NoIntent
  BY DEF IInv, Known, Storage, OneJournal, ControlInv, Uncommitted, CommittedNow, NoJournal,
     CleanupRecord
<1>1. IntentsInv'
  BY <1>J DEF IInv, Storage, CleanupRecord, Goto, Committed, Cleaned, IntentsInv, WellFormed
<1>2. OneJournal'
  BY <1>J DEF IInv, Storage, CleanupRecord, Goto, Committed, Cleaned, OneJournal
<1>3. LinksOwned'
  BY <1>J DEF IInv, Storage, CleanupRecord, Goto, Committed, Cleaned, LinksOwned
<1>4. PrepInv'
  BY <1>J DEF IInv, Storage, CleanupRecord, Goto, Committed, Cleaned, PrepInv,
     PreparationHolds, Outside, BackupsHold
<1>5. PendingInv'
  BY <1>J DEF IInv, Storage, CleanupRecord, Goto, Committed, Cleaned, PendingInv, JournalHolds,
     Outside, AllAt, BackupAuthority
<1>6. CompInv'
  BY <1>J DEF IInv, Storage, CleanupRecord, Goto, Committed, Cleaned, CompInv, Outside,
     CompensationHolds, CompensationHoldsFor, AllAt, SingleLink
<1>7. QuietInv'
  BY <1>J DEF IInv, Storage, CleanupRecord, Goto, Committed, Cleaned, QuietInv, NoJournal,
     AcceptedHolds, BackupsHold, SingleLink
<1>8. NodesInv'
  BY <1>J DEF IInv, Storage, CleanupRecord, Goto, Committed, Cleaned, NodesInv, Aged
<1>9. QED
  BY <1>1, <1>2, <1>3, <1>4, <1>5, <1>6, <1>7, <1>8 DEF Storage

\* last.json takes over the committed intent.
LEMMA CleanupLastStored ==
    ASSUME IInv, CleanupLast PROVE Storage'
<1> USE DEF nodes, storage, records, journals, service, At
<1>J. prep = NoIntent /\ pending # NoIntent /\ compensating = NoIntent
  BY DEF IInv, Known, Storage, OneJournal, ControlInv, Uncommitted, CommittedNow, NoJournal,
     CleanupLast
<1>1. IntentsInv'
  BY <1>J DEF IInv, Storage, CleanupLast, Goto, Done, IntentsInv, WellFormed
<1>2. OneJournal'
  BY <1>J DEF IInv, Storage, CleanupLast, Goto, Done, OneJournal
<1>3. LinksOwned'
  BY <1>J DEF IInv, Storage, CleanupLast, Goto, Done, LinksOwned
<1>4. PrepInv'
  BY <1>J DEF IInv, Storage, CleanupLast, Goto, Done, PrepInv, PreparationHolds, Outside,
     BackupsHold
<1>5. PendingInv'
  BY <1>J DEF IInv, Storage, CleanupLast, Goto, Done, PendingInv, JournalHolds, Outside, AllAt,
     BackupAuthority
<1>6. CompInv'
  BY <1>J DEF IInv, Storage, CleanupLast, Goto, Done, CompInv, Outside, CompensationHolds,
     CompensationHoldsFor, AllAt, SingleLink
<1>7. QuietInv'
  BY <1>J DEF IInv, Storage, CleanupLast, Goto, Done, QuietInv, NoJournal, AcceptedHolds,
     BackupsHold, SingleLink
<1>8. NodesInv'
  BY <1>J DEF IInv, Storage, CleanupLast, Goto, Done, NodesInv, Aged
<1>9. QED
  BY <1>1, <1>2, <1>3, <1>4, <1>5, <1>6, <1>7, <1>8 DEF Storage

\* pending.json is retired when its links are gone and its rollbacks recorded.
LEMMA CleanupPendingStored ==
    ASSUME IInv, CleanupPending PROVE Storage'
<1> USE DEF nodes, storage, records, journals, service, At
<1>J. prep = NoIntent /\ pending # NoIntent /\ compensating = NoIntent
  BY DEF IInv, Known, Storage, OneJournal, ControlInv, Uncommitted, CommittedNow, NoJournal,
     CleanupPending
<1>1. IntentsInv'
  BY <1>J DEF IInv, Storage, CleanupPending, Goto, Done, Return, IntentsInv, WellFormed
<1>2. OneJournal'
  BY <1>J DEF IInv, Storage, CleanupPending, Goto, Done, Return, OneJournal
<1>3. LinksOwned'
  <2>1. /\ pending' = NoIntent /\ UNCHANGED <<before, after, undo, prep, compensating>>
        /\ \A p \in pending.cover : before[p] = Absent /\ after[p] = Absent
    BY DEF CleanupPending, IInv, Known, ControlInv, Cleaned
  <2>2. QED
    BY <1>J, <2>1 DEF IInv, Storage, LinksOwned
<1>4. PrepInv'
  BY <1>J DEF IInv, Storage, CleanupPending, Goto, Done, Return, PrepInv, PreparationHolds,
     Outside, BackupsHold
<1>5. PendingInv'
  BY <1>J DEF IInv, Storage, CleanupPending, Goto, Done, Return, PendingInv, JournalHolds,
     Outside, AllAt, BackupAuthority
<1>6. CompInv'
  BY <1>J DEF IInv, Storage, CleanupPending, Goto, Done, Return, CompInv, Outside,
     CompensationHolds, CompensationHoldsFor, AllAt, SingleLink
<1>7. QuietInv'
  <2>1. /\ UNCHANGED <<live, before, after, rollback, undo, accepted, backups>>
        /\ \A p \in pending.cover : Cleaned(p)
    BY DEF CleanupPending, IInv, Known, ControlInv
  <2>2. \A p \in Paths : before[p] = Absent /\ after[p] = Absent /\ undo[p] = Absent
    BY <1>J, <2>1 DEF IInv, Storage, LinksOwned, Cleaned
  <2>3. JournalHolds /\ Outside(pending)
    BY <1>J DEF IInv, Storage, PendingInv
  <2>4. /\ pending.new.nodes = Overlay(pending.old.nodes, pending.cover, pending.now)
        /\ \A p \in pending.cover :
             /\ pending.old.nodes[p] \in {Unclaimed, pending.was[p]}
             /\ pending.now[p] # Absent => pending.now[p] # pending.was[p]
             /\ pending.was[p] # Absent => pending.was[p] # Kept(pending.backups[p])
    BY <1>J DEF IInv, Storage, IntentsInv, WellFormed
  <2>5. CASE accepted = pending.new
    <3>1. /\ backups = AfterBackups(pending) /\ \A p \in pending.cover : live[p] = pending.now[p]
          /\ \A p \in pending.cover : rollback[p] = pending.was[p]
      BY <1>J, <2>1, <2>5 DEF IInv, Known, Storage, PendingInv, ControlInv, CleanupPending,
         Uncommitted, Cleaned,
         Committed, AllAt
    <3>2. \A p \in Paths : accepted.nodes[p] = IF p \in pending.cover THEN pending.now[p]
                                              ELSE pending.old.nodes[p]
      BY <2>4, <2>5 DEF Overlay
    <3>3. \A p \in Paths \ pending.cover : rollback[p] = Kept(pending.backups[p])
      BY <1>J, <2>3, <2>5 DEF JournalHolds, BackupAuthority
    <3>4. \A p \in Paths : backups[p] = IF p \in pending.cover THEN pending.was[p] ELSE pending.backups[p]
      BY <3>1 DEF AfterBackups, Overlay
    <3>5. \A p \in pending.cover : pending.was[p] # Unclaimed
      BY WasNodes DEF IInv
    <3>6. BackupsHold
      BY <3>1, <3>3, <3>4, <3>5 DEF BackupsHold, Kept
    <3>7. QED
      BY <2>1, <2>2, <2>3, <2>4, <3>1, <3>2, <3>6 DEF QuietInv, AcceptedHolds, BackupsHold,
         SingleLink, Outside
  <2>6. CASE accepted # pending.new
    <3>1. accepted = pending.old /\ \A p \in pending.cover : live[p] = pending.was[p]
      BY <1>J, <2>3, <2>6 DEF IInv, Known, ControlInv, CleanupPending, CommittedNow,
         JournalHolds, AllAt
    <3>2. backups = pending.backups /\ BackupsHold
      BY <1>J, <2>3, <2>6 DEF JournalHolds, BackupAuthority, BackupsHold
    <3>3. QED
      BY <2>1, <2>2, <2>3, <2>4, <3>1, <3>2 DEF QuietInv, AcceptedHolds, BackupsHold,
         SingleLink, Outside
  <2>7. QED
    BY <2>5, <2>6
<1>8. NodesInv'
  BY <1>J DEF IInv, Storage, CleanupPending, Goto, Done, Return, NodesInv, Aged
<1>9. QED
  BY <1>1, <1>2, <1>3, <1>4, <1>5, <1>6, <1>7, <1>8 DEF Storage

\* The first receipt of a legacy service claims the nodes that run.
LEMMA AdoptStored ==
    ASSUME IInv, Adopt PROVE Storage'
<1> USE DEF nodes, storage, records, journals, service, At
<1>1. IntentsInv'
  BY DEF IInv, Storage, Adopt, Done, IntentsInv, WellFormed
<1>2. OneJournal'
  BY DEF IInv, Storage, Adopt, Done, OneJournal
<1>3. LinksOwned'
  BY DEF IInv, Storage, Adopt, Done, LinksOwned
<1>4. PrepInv'
  BY StoreShapes DEF IInv, Known, Storage, ControlInv, Adopt, Done, PrepInv, PreparationHolds,
     Outside, BackupsHold, Uncommitted, CommittedNow, NoJournal
<1>5. PendingInv'
  <2>1. UNCHANGED <<live, before, after, rollback, undo, pending, backups>>
    BY DEF Adopt
  <2>2. CASE UNCHANGED accepted
    BY <2>1, <2>2 DEF IInv, Storage, PendingInv, JournalHolds, Outside, AllAt, BackupAuthority,
       AfterBackups
  <2>3. CASE NoJournal
    BY <2>1, <2>3 DEF PendingInv, NoJournal
  <2>4. QED
    BY <2>2, <2>3 DEF Adopt
<1>6. CompInv'
  BY StoreShapes DEF IInv, Known, Storage, ControlInv, Adopt, Done, CompInv, Outside,
     CompensationHolds, CompensationHoldsFor, AllAt, SingleLink, Uncommitted, CommittedNow,
     NoJournal
<1>7. QuietInv'
  BY DEF IInv, Storage, Adopt, Done, QuietInv, NoJournal, AcceptedHolds, BackupsHold, SingleLink
<1>8. NodesInv'
  BY DEF IInv, Storage, Adopt, Done, NodesInv, Aged
<1>9. QED
  BY <1>1, <1>2, <1>3, <1>4, <1>5, <1>6, <1>7, <1>8 DEF Storage

-----------------------------------------------------------------------------
(* What the operations know, step by step                                  *)

\* Stopping the old generation behind the durable fence leads to recover().
LEMMA ApplyStopKnown ==
    ASSUME IInv, ApplyStop PROVE Known'
<1> USE DEF nodes, storage, records, journals, service, At
<1>G. /\ job'.pc = "recover" /\ job'.phase = "recover" /\ job'.ret = job.ret
      /\ job'.only = job.only /\ job'.cand = job.cand /\ job'.authority = job.authority
  BY JobShape, JobFields DEF ApplyStop, Steps, Job
<1>1. ControlInv'
  BY <1>G DEF IInv, Known, ApplyStop, Halt, ControlInv, Uncommitted, CommittedNow, NoJournal,
     AllAt, Cleaned, Committed, AfterBackups, CompensatedBackups
<1>2. BeforeKept'
  BY <1>G DEF IInv, Known, ApplyStop, Halt, BeforeKept, Uncommitted, Unfinished
<1>3. FinishedInv' /\ LastInv' /\ RouteInv' /\ StandsInv'
  BY RecordFrame DEF recorded, ApplyStop
<1>4. RouteJob'
  BY <1>G DEF IInv, Known, ApplyStop, Halt, RouteJob, Recovering, NoJournal
<1>5. FencedInv'
  BY <1>G DEF IInv, Known, ApplyStop, Halt, FencedInv, Carries, Unfinished
<1>6. ServiceInv'
  BY DEF IInv, Known, ServiceInv, ApplyStop, Halt
<1>7. QED
  BY <1>1, <1>2, <1>3, <1>4, <1>5, <1>6 DEF Known

\* A route opens on the receipt that is accepted, with no journal open.
LEMMA OuterRecordKnown ==
    ASSUME IInv, OuterRecord PROVE Known'
<1> USE DEF nodes, storage, records, journals, service, At
<1>G. job'.pc = "idle" /\ job'.ret = "done" /\ job'.only = "no"
  BY JobShape, JobFields DEF OuterRecord, Steps
<1>1. ControlInv'
  BY <1>G DEF IInv, Known, OuterRecord, ControlInv, Uncommitted, CommittedNow, NoJournal,
     AllAt, Cleaned, Committed, AfterBackups, CompensatedBackups
<1>2. BeforeKept'
  BY <1>G DEF IInv, Known, OuterRecord, BeforeKept, Uncommitted, Unfinished
<1>3. FinishedInv'
  BY <1>G DEF IInv, Known, OuterRecord, FinishedInv, Finished
<1>4. LastInv'
  BY <1>G DEF IInv, Known, OuterRecord, LastInv, Finished
<1>5. RouteInv'
  <2>1. CASE UNCHANGED outer
    BY <2>1 DEF IInv, Known, RouteInv, Carries, LastExplains, NoJournal, OuterRecord
  <2>2. CASE outer' = [open |-> "yes", receipt |-> accepted, consumer |-> NoReceipt,
                       revocation |-> job.authority]
    <3>1. /\ outer'.receipt = accepted /\ outer'.revocation = job.authority
          /\ UNCHANGED <<prep, pending, compensating, accepted, revocation>>
      BY <2>2 DEF OuterRecord
    <3>2. NoJournal /\ (job.authority # None => revocation.authority = job.authority)
      BY DEF OuterRecord, IInv, Known, RouteJob
    <3>3. QED
      BY <3>1, <3>2 DEF RouteInv, NoJournal
  <2>3. QED
    BY <2>1, <2>2 DEF OuterRecord
<1>6. RouteJob'
  BY <1>G DEF IInv, Known, OuterRecord, RouteJob, Recovering, NoJournal
<1>7. FencedInv'
  BY <1>G DEF IInv, Known, OuterRecord, FencedInv, Carries, Unfinished
<1>8. ServiceInv'
  BY DEF IInv, Known, ServiceInv, OuterRecord
<1>9. StandsInv'
  BY <1>G DEF IInv, Known, OuterRecord, StandsInv, Stands
<1>10. QED
  BY <1>1, <1>2, <1>3, <1>4, <1>5, <1>6, <1>7, <1>8, <1>9 DEF Known

\* Reopening restarts the retained generation or ends the operation.
LEMMA OuterRestartKnown ==
    ASSUME IInv, OuterRestart PROVE Known'
<1> USE DEF nodes, storage, records, journals, service, At
<1>G. \/ job'.pc = "idle" /\ job'.ret = "done" /\ job'.only = "no"
      \/ /\ job'.pc = "reclose" /\ job'.phase = job.phase /\ job'.ret = job.ret
         /\ job'.only = job.only /\ job'.cand = job.cand /\ job'.authority = job.authority
  BY JobShape, JobFields DEF OuterRestart, Steps
<1>1. ControlInv'
  BY <1>G DEF IInv, Known, OuterRestart, ControlInv, Uncommitted, CommittedNow, NoJournal,
     AllAt, Cleaned, Committed, AfterBackups, CompensatedBackups
<1>2. BeforeKept'
  BY <1>G DEF IInv, Known, OuterRestart, BeforeKept, Uncommitted, Unfinished
<1>3. FinishedInv' /\ LastInv' /\ RouteInv' /\ StandsInv'
  BY RecordFrame DEF recorded, OuterRestart
<1>4. RouteJob'
  BY <1>G DEF IInv, Known, OuterRestart, RouteJob, Recovering, NoJournal
<1>5. FencedInv'
  BY <1>G DEF IInv, Known, OuterRestart, FencedInv, Carries, Unfinished
<1>6. ServiceInv'
  BY DEF IInv, Known, ServiceInv, OuterRestart, Halt, Launch
<1>7. QED
  BY <1>1, <1>2, <1>3, <1>4, <1>5, <1>6 DEF Known

\* Closing a route forgets what it had to explain.
LEMMA OuterClosedKnown ==
    ASSUME IInv, OuterClosed PROVE Known'
<1> USE DEF nodes, storage, records, journals, service, At
<1>G. job'.pc = "idle" /\ job'.ret = "done" /\ job'.only = "no"
  BY JobShape, JobFields DEF OuterClosed, Steps
<1>1. ControlInv'
  BY <1>G DEF IInv, Known, OuterClosed, ControlInv, Uncommitted, CommittedNow, NoJournal,
     AllAt, Cleaned, Committed, AfterBackups, CompensatedBackups
<1>2. BeforeKept'
  BY <1>G DEF IInv, Known, OuterClosed, BeforeKept, Uncommitted, Unfinished
<1>3. FinishedInv'
  BY <1>G DEF IInv, Known, OuterClosed, FinishedInv, Finished
<1>4. LastInv'
  BY <1>G DEF IInv, Known, OuterClosed, LastInv, Finished
<1>5. RouteInv'
  BY DEF RouteInv, OuterClosed, NoOuter
<1>6. RouteJob'
  BY <1>G DEF IInv, Known, OuterClosed, RouteJob, Recovering, NoJournal
<1>7. FencedInv'
  BY <1>G DEF IInv, Known, OuterClosed, FencedInv, Carries, Unfinished
<1>8. ServiceInv'
  BY DEF IInv, Known, ServiceInv, OuterClosed
<1>9. StandsInv'
  BY <1>G DEF IInv, Known, OuterClosed, StandsInv, Stands
<1>10. QED
  BY <1>1, <1>2, <1>3, <1>4, <1>5, <1>6, <1>7, <1>8, <1>9 DEF Known

\* recover_preparation stays in recover() with the intent it found.
LEMMA RecoverPreparationKnown ==
    ASSUME IInv, RecoverPreparation PROVE Known'
<1> USE DEF nodes, storage, records, journals, service, At
<1>1. ControlInv'
  BY DEF IInv, Known, RecoverPreparation, ControlInv, Uncommitted, CommittedNow, NoJournal,
     AllAt, Cleaned, Committed, AfterBackups, CompensatedBackups
<1>2. BeforeKept'
  <2>1. /\ At("recover") /\ UNCHANGED <<pending, accepted, revocation, job>>
        /\ \/ pending = NoIntent
           \/ pending # NoIntent /\ UNCHANGED before
    BY DEF RecoverPreparation
  <2>2. pending # NoIntent => \A p \in pending.cover : before[p] = pending.was[p]
    BY DEF RecoverPreparation, IInv, Storage, OneJournal, PrepInv
  <2>3. QED
    BY <2>1, <2>2 DEF BeforeKept, Uncommitted
<1>3. FinishedInv'
  BY DEF IInv, Known, RecoverPreparation, FinishedInv, Finished
<1>4. LastInv'
  BY DEF IInv, Known, RecoverPreparation, LastInv, Finished
<1>5. RouteInv'
  <2>1. /\ prep # NoIntent /\ prep' \in {prep, NoIntent}
        /\ UNCHANGED <<content, pending, compensating, accepted, last, revocation, outer>>
    BY DEF RecoverPreparation
  <2>2. accepted = prep.old
    BY <2>1 DEF IInv, Storage, PrepInv, PreparationHolds
  <2>3. QED
    BY <2>1, <2>2 DEF IInv, Known, RouteInv, Carries, LastExplains, NoJournal
<1>6. RouteJob'
  BY DEF IInv, Known, RecoverPreparation, RouteJob, Recovering, NoJournal
<1>7. FencedInv'
  BY DEF IInv, Known, RecoverPreparation, FencedInv, Carries, Unfinished
<1>8. ServiceInv'
  BY DEF IInv, Known, ServiceInv, RecoverPreparation
<1>9. StandsInv'
  BY DEF IInv, Known, RecoverPreparation, StandsInv, Stands
<1>10. QED
  BY <1>1, <1>2, <1>3, <1>4, <1>5, <1>6, <1>7, <1>8, <1>9 DEF Known

\* A host with no journal is handed to the caller of recover() as it is.
LEMMA RecoverNothingKnown ==
    ASSUME IInv, RecoverNothing PROVE Known'
<1> USE DEF nodes, storage, records, journals, service, At
<1>G. \/ job'.pc = "idle" /\ job'.ret = "done" /\ job'.only = "no"
      \/ /\ job.ret # "done" /\ job'.pc = job.ret /\ job'.phase = "main" /\ job'.ret = job.ret
         /\ job'.only = job.only /\ job'.cand = job.cand /\ job'.authority = job.authority
  BY JobShape, JobFields DEF RecoverNothing, Steps
<1>1. ControlInv'
  BY JobShape, <1>G DEF IInv, Known, RecoverNothing, ControlInv, Uncommitted, CommittedNow,
     NoJournal, AllAt, Cleaned, Committed, AfterBackups, CompensatedBackups
<1>2. BeforeKept'
  BY JobShape, <1>G DEF IInv, Known, RecoverNothing, BeforeKept, Uncommitted, Unfinished
<1>3. FinishedInv' /\ LastInv' /\ RouteInv' /\ StandsInv'
  BY RecordFrame DEF recorded, RecoverNothing
<1>4. RouteJob'
  BY JobShape, <1>G DEF IInv, Known, RecoverNothing, RouteJob, Recovering, NoJournal
<1>5. FencedInv'
  BY JobShape, <1>G DEF IInv, Known, RecoverNothing, FencedInv, Carries, Unfinished
<1>6. ServiceInv'
  BY DEF IInv, Known, ServiceInv, RecoverNothing, Halt
<1>7. QED
  BY <1>1, <1>2, <1>3, <1>4, <1>5, <1>6 DEF Known

\* recover() resumes a compensation, which no fence allows to start.
LEMMA RecoverCompensationKnown ==
    ASSUME IInv, RecoverCompensation PROVE Known'
<1> USE DEF nodes, storage, records, journals, service, At
<1>J. prep = NoIntent /\ pending = NoIntent /\ compensating # NoIntent
  BY DEF IInv, Known, Storage, OneJournal, ControlInv, Uncommitted, CommittedNow, NoJournal,
     RecoverCompensation
<1>G. \/ job'.pc = "idle" /\ job'.ret = "done" /\ job'.only = "no"
      \/ /\ job'.pc = "compensate" /\ job'.phase = job.phase /\ job'.ret = job.ret
         /\ job'.only = job.only /\ job'.cand = job.cand /\ job'.authority = job.authority
  BY JobShape, JobFields DEF RecoverCompensation, Steps
<1>1. ControlInv'
  BY <1>J, <1>G DEF IInv, Known, RecoverCompensation, MayCompensate, ControlInv, Uncommitted,
     CommittedNow, NoJournal, AllAt, Cleaned, Committed, AfterBackups, CompensatedBackups
<1>2. BeforeKept'
  BY <1>J, <1>G DEF IInv, Known, RecoverCompensation, MayCompensate, BeforeKept, Uncommitted,
     Unfinished
<1>3. FinishedInv' /\ LastInv' /\ RouteInv' /\ StandsInv'
  BY RecordFrame DEF recorded, RecoverCompensation
<1>4. RouteJob'
  BY <1>J, <1>G DEF IInv, Known, RecoverCompensation, MayCompensate, RouteJob, Recovering,
     NoJournal
<1>5. FencedInv'
  BY <1>J, <1>G DEF IInv, Known, RecoverCompensation, MayCompensate, FencedInv, Carries,
     Unfinished
<1>6. ServiceInv'
  BY DEF IInv, Known, ServiceInv, RecoverCompensation
<1>7. QED
  BY <1>1, <1>2, <1>3, <1>4, <1>5, <1>6 DEF Known

\* A committed intent goes to its confirmation, or to cleanup for a restore-only caller.
LEMMA RecoverCommittedKnown ==
    ASSUME IInv, RecoverCommitted PROVE Known'
<1> USE DEF nodes, storage, records, journals, service, At
<1>G. /\ job'.pc \in {"cleanup", "ensure"} /\ job'.phase = job.phase /\ job'.ret = job.ret
      /\ job'.only = job.only /\ job'.cand = job.cand /\ job'.authority = job.authority
  BY JobShape, JobFields DEF RecoverCommitted, Steps
<1>1. ControlInv'
  BY <1>G DEF IInv, Known, RecoverCommitted, ControlInv, Uncommitted, CommittedNow, NoJournal,
     AllAt, Cleaned, Committed, AfterBackups, CompensatedBackups
<1>2. BeforeKept'
  BY <1>G DEF IInv, Known, RecoverCommitted, BeforeKept, Uncommitted, Unfinished
<1>3. FinishedInv' /\ LastInv' /\ RouteInv' /\ StandsInv'
  BY RecordFrame DEF recorded, RecoverCommitted
<1>4. RouteJob'
  BY <1>G DEF IInv, Known, RecoverCommitted, RouteJob, Recovering, NoJournal
<1>5. FencedInv'
  BY <1>G DEF IInv, Known, RecoverCommitted, FencedInv, Carries, Unfinished
<1>6. ServiceInv'
  BY DEF IInv, Known, ServiceInv, RecoverCommitted, Ensure, Launch, Halt
<1>7. QED
  BY <1>1, <1>2, <1>3, <1>4, <1>5, <1>6 DEF Known

\* A confirmed recovery accepts what is committed.
LEMMA RecoverReadyKnown ==
    ASSUME IInv, RecoverReady PROVE Known'
<1> USE DEF nodes, storage, records, journals, service, At
<1>G. /\ job'.pc = "accept" /\ job'.phase = job.phase /\ job'.ret = job.ret
      /\ job'.only = job.only /\ job'.cand = job.cand /\ job'.authority = job.authority
  BY JobShape, JobFields DEF RecoverReady, Steps
<1>1. ControlInv'
  BY <1>G DEF IInv, Known, RecoverReady, ControlInv, Uncommitted, CommittedNow, NoJournal,
     AllAt, Cleaned, Committed, AfterBackups, CompensatedBackups
<1>2. BeforeKept'
  BY <1>G DEF IInv, Known, RecoverReady, BeforeKept, Uncommitted, Unfinished
<1>3. FinishedInv' /\ LastInv' /\ RouteInv' /\ StandsInv'
  BY RecordFrame DEF recorded, RecoverReady
<1>4. RouteJob'
  <2>1. accepted' # NoReceipt
    BY CommittedReceipt DEF RecoverReady, IInv, Known, ControlInv, CommittedNow
  <2>2. QED
    BY JobShape, <1>G, <2>1 DEF IInv, Known, RouteJob, Recovering, NoJournal, RecoverReady
<1>5. FencedInv'
  BY <1>G DEF IInv, Known, RecoverReady, FencedInv, Carries, Unfinished
<1>6. ServiceInv'
  BY DEF IInv, Known, ServiceInv, RecoverReady
<1>7. QED
  BY <1>1, <1>2, <1>3, <1>4, <1>5, <1>6 DEF Known

\* An uncommitted intent is redone under a fence and undone without one.
LEMMA RecoverUncommittedKnown ==
    ASSUME IInv, RecoverUncommitted PROVE Known'
<1> USE DEF nodes, storage, records, journals, service, At
<1>G. /\ job'.pc = (IF Unfinished(revocation) THEN "redo" ELSE "undo") /\ job'.phase = job.phase
      /\ job'.ret = job.ret /\ job'.only = job.only /\ job'.cand = job.cand
      /\ job'.authority = job.authority
  BY JobShape, JobFields DEF RecoverUncommitted, Steps
<1>1. ControlInv'
  BY <1>G DEF IInv, Known, RecoverUncommitted, ControlInv, Uncommitted, CommittedNow,
     NoJournal, AllAt, Cleaned, Committed, AfterBackups, CompensatedBackups
<1>2. BeforeKept'
  BY <1>G DEF IInv, Known, RecoverUncommitted, BeforeKept, Uncommitted, Unfinished
<1>3. FinishedInv' /\ LastInv' /\ RouteInv' /\ StandsInv'
  BY RecordFrame DEF recorded, RecoverUncommitted
<1>4. RouteJob'
  BY <1>G DEF IInv, Known, RecoverUncommitted, RouteJob, Recovering, NoJournal
<1>5. FencedInv'
  BY <1>G DEF IInv, Known, RecoverUncommitted, FencedInv, Carries, Unfinished
<1>6. ServiceInv'
  BY DEF IInv, Known, ServiceInv, RecoverUncommitted, Halt
<1>7. QED
  BY <1>1, <1>2, <1>3, <1>4, <1>5, <1>6 DEF Known

\* Redoing keeps the intent uncommitted and its old nodes linked.
LEMMA RedoKnown ==
    ASSUME IInv, Redo PROVE Known'
<1> USE DEF nodes, storage, records, journals, service, At
<1>J. prep = NoIntent /\ pending # NoIntent /\ compensating = NoIntent
  BY DEF IInv, Known, Storage, OneJournal, ControlInv, Uncommitted, CommittedNow, NoJournal, Redo
<1>G. \/ UNCHANGED job
      \/ job'.pc = "idle" /\ job'.ret = "done" /\ job'.only = "no"
      \/ /\ job.ret # "done" /\ job'.pc = job.ret /\ job'.phase = "main" /\ job'.ret = job.ret
         /\ job'.only = job.only /\ job'.cand = job.cand /\ job'.authority = job.authority
  BY JobShape, JobFields DEF Redo, Steps
<1>1. ControlInv'
  BY JobShape, <1>J, <1>G DEF IInv, Known, Redo, ControlInv, Uncommitted, CommittedNow,
     NoJournal, AllAt, Cleaned, Committed, AfterBackups, CompensatedBackups
<1>2. BeforeKept'
  BY JobShape, <1>J, <1>G DEF IInv, Known, Redo, BeforeKept, Uncommitted, Unfinished
<1>3. FinishedInv'
  BY <1>J, <1>G DEF IInv, Known, Redo, FinishedInv, Finished
<1>4. LastInv'
  BY <1>J, <1>G DEF IInv, Known, Redo, LastInv, Finished
<1>5. RouteInv'
  BY <1>J, <1>G DEF IInv, Known, Redo, RouteInv, Carries, LastExplains, NoJournal
<1>6. RouteJob'
  BY JobShape, <1>J, <1>G DEF IInv, Known, Redo, RouteJob, Recovering, NoJournal
<1>7. FencedInv'
  BY JobShape, <1>J, <1>G DEF IInv, Known, Redo, FencedInv, Carries, Unfinished
<1>8. ServiceInv'
  BY DEF IInv, Known, ServiceInv, Redo
<1>9. StandsInv'
  <2>1. UNCHANGED <<staged, prep, pending, compensating, last, accepted, revocation>>
    BY DEF Redo
  <2>2. \A q \in Paths : live'[q] = live[q] \/ (q \in pending.cover /\ live'[q] = pending.now[q])
    <3>1. CASE \E p \in ToPublish(FALSE) : ReplaceAfter(p)
      <4>1. PICK p \in ToPublish(FALSE) : ReplaceAfter(p)
        BY <3>1
      <4>2. live' = live \/ live' = [live EXCEPT ![p] = pending.now[p]]
        BY <4>1 DEF ReplaceAfter
      <4>3. p \in pending.cover
        BY <4>1 DEF ToPublish
      <4>4. QED
        BY <4>2, <4>3, StoreShapes
    <3>2. QED
      BY <3>1 DEF Redo
  <2>3. QED
    BY <1>J, <2>1, <2>2 DEF IInv, Known, StandsInv, Stands
<1>10. QED
  BY <1>1, <1>2, <1>3, <1>4, <1>5, <1>6, <1>7, <1>8, <1>9 DEF Known

\* Undoing ends with every covered path at the node the intent remembers.
LEMMA UndoKnown ==
    ASSUME IInv, Undo PROVE Known'
<1> USE DEF nodes, storage, records, journals, service, At
<1>J. prep = NoIntent /\ pending # NoIntent /\ compensating = NoIntent
  BY DEF IInv, Known, Storage, OneJournal, ControlInv, Uncommitted, CommittedNow, NoJournal, Undo
<1>G. \/ UNCHANGED job
      \/ job'.pc = "idle" /\ job'.ret = "done" /\ job'.only = "no"
      \/ /\ job.ret # "done" /\ job'.pc = job.ret /\ job'.phase = "main" /\ job'.ret = job.ret
         /\ job'.only = job.only /\ job'.cand = job.cand /\ job'.authority = job.authority
      \/ /\ job'.pc = "restore" /\ job'.phase = job.phase /\ job'.ret = job.ret
         /\ job'.only = job.only /\ job'.cand = job.cand /\ job'.authority = job.authority
  BY JobShape, JobFields DEF Undo, Steps
<1>1. ControlInv'
  <2>1. CASE UNCHANGED job
    BY <1>J, <2>1 DEF IInv, Known, ControlInv, Undo, Uncommitted, CommittedNow, NoJournal
  <2>2. CASE ToRestore = {} /\ UNCHANGED live
    <3>1. \A p \in pending.cover : live[p] = pending.was[p]
      BY <2>2 DEF ToRestore
    <3>2. job'.pc = "restore" => job'.only = "no"
      <4>1. (job.only = "yes" /\ Return) \/ (job.only # "yes" /\ Goto("restore")) \/ UNCHANGED job
        BY DEF Undo
      <4>2. job.only \in {"no", "yes"} /\ "restore" \in Steps
        BY JobShape DEF Job, Steps
      <4>3. QED
        BY JobShape, <4>1, <4>2, JobFields DEF Undo
    <3>3. UNCHANGED <<prep, pending, compensating, accepted>>
      BY DEF Undo
    <3>4. QED
      BY JobShape, <1>J, <1>G, <2>2, <3>1, <3>2, <3>3 DEF IInv, Known, ControlInv, Undo,
         Uncommitted, CommittedNow, AllAt,
         NoJournal
  <2>3. QED
    BY <2>1, <2>2 DEF Undo
<1>2. BeforeKept'
  BY JobShape, <1>J, <1>G DEF IInv, Known, Undo, ToRestore, BeforeKept, Uncommitted, Unfinished
<1>3. FinishedInv'
  BY <1>J, <1>G DEF IInv, Known, Undo, ToRestore, FinishedInv, Finished
<1>4. LastInv'
  BY <1>J, <1>G DEF IInv, Known, Undo, ToRestore, LastInv, Finished
<1>5. RouteInv'
  BY <1>J, <1>G DEF IInv, Known, Undo, ToRestore, RouteInv, Carries, LastExplains, NoJournal
<1>6. RouteJob'
  BY JobShape, <1>J, <1>G DEF IInv, Known, Undo, ToRestore, RouteJob, Recovering, NoJournal
<1>7. FencedInv'
  BY JobShape, <1>J, <1>G DEF IInv, Known, Undo, ToRestore, FencedInv, Carries, Unfinished
<1>8. ServiceInv'
  BY DEF IInv, Known, ServiceInv, Undo
<1>9. StandsInv'
  <2>1. UNCHANGED <<staged, prep, pending, compensating, last, accepted, revocation>>
    BY DEF Undo
  <2>2. \A q \in Paths : live'[q] = live[q] \/ (q \in pending.cover /\ live'[q] = pending.was[q])
    <3>1. CASE \E p \in ToRestore : ReplaceBefore(p)
      <4>1. PICK p \in ToRestore : ReplaceBefore(p)
        BY <3>1
      <4>2. live' = live \/ live' = [live EXCEPT ![p] = pending.was[p]]
        BY <4>1 DEF ReplaceBefore
      <4>3. p \in pending.cover
        BY <4>1 DEF ToRestore
      <4>4. QED
        BY <4>2, <4>3, StoreShapes
    <3>2. QED
      BY <3>1 DEF Undo
  <2>3. QED
    BY <1>J, <2>1, <2>2 DEF IInv, Known, StandsInv, Stands, ControlInv, Uncommitted, Undo
<1>10. QED
  BY <1>1, <1>2, <1>3, <1>4, <1>5, <1>6, <1>7, <1>8, <1>9 DEF Known

\* The restored generation is cleaned up as an undone intent.
LEMMA RestoreKnown ==
    ASSUME IInv, Restore PROVE Known'
<1> USE DEF nodes, storage, records, journals, service, At
<1>G. /\ job'.pc = "cleanup" /\ job'.phase = job.phase /\ job'.ret = job.ret
      /\ job'.only = job.only /\ job'.cand = job.cand /\ job'.authority = job.authority
  BY JobShape, JobFields DEF Restore, Steps
<1>1. ControlInv'
  BY <1>G DEF IInv, Known, Restore, ControlInv, Uncommitted, CommittedNow, NoJournal, AllAt,
     Cleaned, Committed, AfterBackups, CompensatedBackups
<1>2. BeforeKept'
  BY <1>G DEF IInv, Known, Restore, BeforeKept, Uncommitted, Unfinished
<1>3. FinishedInv' /\ LastInv' /\ RouteInv' /\ StandsInv'
  BY RecordFrame DEF recorded, Restore
<1>4. RouteJob'
  BY <1>G DEF IInv, Known, Restore, RouteJob, Recovering, NoJournal
<1>5. FencedInv'
  BY <1>G DEF IInv, Known, Restore, FencedInv, Carries, Unfinished
<1>6. ServiceInv'
  BY DEF IInv, Known, ServiceInv, Restore, Halt, Launch
<1>7. QED
  BY <1>1, <1>2, <1>3, <1>4, <1>5, <1>6 DEF Known

\* The intent being compensated is the last one, or the one already journalled.
LEMMA CompensateRecordKnown ==
    ASSUME IInv, CompensateRecord PROVE Known'
<1> USE DEF nodes, storage, records, journals, service, At
<1>G. /\ job'.pc = "quiet" /\ job'.phase = job.phase /\ job'.ret = job.ret
      /\ job'.only = job.only /\ job'.cand = job.cand /\ job'.authority = job.authority
  BY JobShape, JobFields DEF CompensateRecord, Steps
<1>1. ControlInv'
  BY <1>G DEF IInv, Known, CompensateRecord, ControlInv, Uncommitted, CommittedNow, NoJournal,
     AllAt, Cleaned, Committed, AfterBackups, CompensatedBackups
<1>2. BeforeKept'
  BY <1>G DEF IInv, Known, CompensateRecord, BeforeKept, Uncommitted, Unfinished
<1>3. FinishedInv'
  <2>1. /\ UNCHANGED <<pending, accepted, revocation>> /\ prep = NoIntent /\ pending = NoIntent
        /\ compensating # NoIntent => compensating' = compensating
        /\ compensating = NoIntent => compensating' = last /\ last # NoIntent /\ last.new # revocation.receipt
    BY DEF CompensateRecord, IInv, Known, ControlInv, RouteJob
  <2>2. QED
    BY <2>1 DEF IInv, Known, FinishedInv, LastInv, Finished
<1>4. LastInv'
  BY <1>G DEF IInv, Known, CompensateRecord, LastInv, Finished
<1>5. RouteInv'
  <2>1. /\ UNCHANGED <<content, prep, pending, accepted, last, revocation, outer>>
        /\ compensating' # NoIntent
        /\ compensating # NoIntent => compensating' = compensating
        /\ compensating = NoIntent => compensating' = last
    BY DEF CompensateRecord, IInv, Known, ControlInv
  <2>2. outer.open = "yes" /\ compensating = NoIntent => last.old = outer.receipt /\ outer.revocation = None
    BY DEF IInv, Known, RouteJob, CompensateRecord
  <2>3. QED
    BY <2>1, <2>2 DEF IInv, Known, RouteInv, Carries, NoJournal
<1>6. RouteJob'
  BY <1>G DEF IInv, Known, CompensateRecord, RouteJob, Recovering, NoJournal
<1>7. FencedInv'
  BY <1>G DEF IInv, Known, CompensateRecord, FencedInv, Carries, Unfinished
<1>8. ServiceInv'
  BY DEF IInv, Known, ServiceInv, CompensateRecord
<1>9. StandsInv'
  <2>1. /\ UNCHANGED <<live, staged, prep, pending, last, accepted, revocation>>
        /\ prep = NoIntent /\ pending = NoIntent
        /\ compensating' = compensating \/ compensating' = last
        /\ compensating' = compensating \/ compensating = NoIntent
    BY DEF CompensateRecord, IInv, Known, ControlInv
  <2>2. compensating = NoIntent => last # NoIntent /\ last.new # revocation.receipt
    BY DEF CompensateRecord, IInv, Known, ControlInv, RouteJob
  <2>3. QED
    BY <2>1, <2>2 DEF IInv, Known, StandsInv, Stands
<1>10. QED
  BY <1>1, <1>2, <1>3, <1>4, <1>5, <1>6, <1>7, <1>8, <1>9 DEF Known

\* The generation is stopped before its entries are reversed.
LEMMA CompensateStopKnown ==
    ASSUME IInv, CompensateStop PROVE Known'
<1> USE DEF nodes, storage, records, journals, service, At
<1>G. /\ job'.pc = "reverse" /\ job'.phase = job.phase /\ job'.ret = job.ret
      /\ job'.only = job.only /\ job'.cand = job.cand /\ job'.authority = job.authority
  BY JobShape, JobFields DEF CompensateStop, Steps
<1>1. ControlInv'
  BY <1>G DEF IInv, Known, CompensateStop, ControlInv, Uncommitted, CommittedNow, NoJournal,
     AllAt, Cleaned, Committed, AfterBackups, CompensatedBackups
<1>2. BeforeKept'
  BY <1>G DEF IInv, Known, CompensateStop, BeforeKept, Uncommitted, Unfinished
<1>3. FinishedInv' /\ LastInv' /\ RouteInv' /\ StandsInv'
  BY RecordFrame DEF recorded, CompensateStop
<1>4. RouteJob'
  BY <1>G DEF IInv, Known, CompensateStop, RouteJob, Recovering, NoJournal
<1>5. FencedInv'
  BY <1>G DEF IInv, Known, CompensateStop, FencedInv, Carries, Unfinished
<1>6. ServiceInv'
  BY DEF IInv, Known, ServiceInv, CompensateStop, Halt
<1>7. QED
  BY <1>1, <1>2, <1>3, <1>4, <1>5, <1>6 DEF Known

\* Reversing an entry selects a node from before the compensated receipt.
LEMMA CompensateEntryKnown ==
    ASSUME IInv, \E p \in Paths : CompensateEntry(p) PROVE Known'
<1> USE DEF nodes, storage, records, journals, service, At
<1>J. prep = NoIntent /\ pending = NoIntent /\ compensating # NoIntent
  BY DEF IInv, Known, Storage, OneJournal, ControlInv, Uncommitted, CommittedNow, NoJournal,
     CompensateEntry
<1>1. ControlInv'
  BY <1>J DEF IInv, Known, CompensateEntry, ControlInv, Uncommitted, CommittedNow, NoJournal,
     AllAt, Cleaned, Committed, AfterBackups, CompensatedBackups
<1>2. BeforeKept'
  BY <1>J DEF IInv, Known, CompensateEntry, BeforeKept, Uncommitted, Unfinished
<1>3. FinishedInv'
  BY <1>J DEF IInv, Known, CompensateEntry, FinishedInv, Finished
<1>4. LastInv'
  BY <1>J DEF IInv, Known, CompensateEntry, LastInv, Finished
<1>5. RouteInv'
  BY <1>J DEF IInv, Known, CompensateEntry, RouteInv, Carries, LastExplains, NoJournal
<1>6. RouteJob'
  BY <1>J DEF IInv, Known, CompensateEntry, RouteJob, Recovering, NoJournal
<1>7. FencedInv'
  BY <1>J DEF IInv, Known, CompensateEntry, FencedInv, Carries, Unfinished
<1>8. ServiceInv'
  BY DEF IInv, Known, ServiceInv, CompensateEntry
<1>9. StandsInv'
  <2>1. UNCHANGED <<staged, prep, pending, compensating, last, accepted, revocation>>
    BY DEF CompensateEntry
  <2>2. PICK p \in Paths : CompensateEntry(p)
    OBVIOUS
  <2>3. /\ live' = live \/ live' = [live EXCEPT ![p] = compensating.was[p]]
        /\ p \in compensating.cover /\ compensating # NoIntent
    BY <2>2, <1>J DEF CompensateEntry, IInv, Known, ControlInv
  <2>4. \A q \in Paths : live'[q] = live[q] \/ (q \in compensating.cover /\ live'[q] = compensating.was[q])
    BY <2>3, StoreShapes
  <2>5. QED
    BY <2>1, <2>3, <2>4 DEF IInv, Known, StandsInv, Stands
<1>10. QED
  BY <1>1, <1>2, <1>3, <1>4, <1>5, <1>6, <1>7, <1>8, <1>9 DEF Known

\* Reversed entries and emptied backups are what the restart finds.
LEMMA CompensateBackupsKnown ==
    ASSUME IInv, CompensateBackups PROVE Known'
<1> USE DEF nodes, storage, records, journals, service, At
<1>J. prep = NoIntent /\ pending = NoIntent /\ compensating # NoIntent
  BY DEF IInv, Known, Storage, OneJournal, ControlInv, Uncommitted, CommittedNow, NoJournal,
     CompensateBackups
<1>G. \/ job'.pc = "idle" /\ job'.ret = "done" /\ job'.only = "no"
      \/ /\ job'.pc = "revive" /\ job'.phase = job.phase /\ job'.ret = job.ret
         /\ job'.only = job.only /\ job'.cand = job.cand /\ job'.authority = job.authority
  BY JobShape, JobFields DEF CompensateBackups, Steps
<1>1. ControlInv'
  BY <1>J, <1>G DEF IInv, Known, CompensateBackups, ControlInv, Uncommitted, CommittedNow,
     NoJournal, AllAt, Cleaned, Committed, AfterBackups, CompensatedBackups
<1>2. BeforeKept'
  BY <1>J, <1>G DEF IInv, Known, CompensateBackups, BeforeKept, Uncommitted, Unfinished
<1>3. FinishedInv' /\ LastInv' /\ RouteInv' /\ StandsInv'
  BY RecordFrame DEF recorded, CompensateBackups
<1>4. RouteJob'
  BY <1>J, <1>G DEF IInv, Known, CompensateBackups, RouteJob, Recovering, NoJournal
<1>5. FencedInv'
  BY <1>J, <1>G DEF IInv, Known, CompensateBackups, FencedInv, Carries, Unfinished
<1>6. ServiceInv'
  BY DEF IInv, Known, ServiceInv, CompensateBackups
<1>7. QED
  BY <1>1, <1>2, <1>3, <1>4, <1>5, <1>6 DEF Known

\* The restarted generation is the one being accepted again.
LEMMA CompensateRestartKnown ==
    ASSUME IInv, CompensateRestart PROVE Known'
<1> USE DEF nodes, storage, records, journals, service, At
<1>G. /\ job'.pc = "retract" /\ job'.phase = job.phase /\ job'.ret = job.ret
      /\ job'.only = job.only /\ job'.cand = job.cand /\ job'.authority = job.authority
  BY JobShape, JobFields DEF CompensateRestart, Steps
<1>1. ControlInv'
  BY <1>G DEF IInv, Known, CompensateRestart, ControlInv, Uncommitted, CommittedNow, NoJournal,
     AllAt, Cleaned, Committed, AfterBackups, CompensatedBackups
<1>2. BeforeKept'
  BY <1>G DEF IInv, Known, CompensateRestart, BeforeKept, Uncommitted, Unfinished
<1>3. FinishedInv' /\ LastInv' /\ RouteInv' /\ StandsInv'
  BY RecordFrame DEF recorded, CompensateRestart
<1>4. RouteJob'
  BY <1>G DEF IInv, Known, CompensateRestart, RouteJob, Recovering, NoJournal
<1>5. FencedInv'
  BY <1>G DEF IInv, Known, CompensateRestart, FencedInv, Carries, Unfinished
<1>6. ServiceInv'
  BY DEF IInv, Known, ServiceInv, CompensateRestart, Halt, Launch
<1>7. QED
  BY <1>1, <1>2, <1>3, <1>4, <1>5, <1>6 DEF Known

\* The receipt accepted again is not older than an accepted revocation.
LEMMA CompensateAcceptKnown ==
    ASSUME IInv, CompensateAccept PROVE Known'
<1> USE DEF nodes, storage, records, journals, service, At
<1>J. prep = NoIntent /\ pending = NoIntent /\ compensating # NoIntent
  BY DEF IInv, Known, Storage, OneJournal, ControlInv, Uncommitted, CommittedNow, NoJournal,
     CompensateAccept
<1>G. /\ job'.pc = "purge" /\ job'.phase = job.phase /\ job'.ret = job.ret
      /\ job'.only = job.only /\ job'.cand = job.cand /\ job'.authority = job.authority
  BY JobShape, JobFields DEF CompensateAccept, Steps
<1>1. ControlInv'
  BY <1>J, <1>G DEF IInv, Known, CompensateAccept, ControlInv, Uncommitted, CommittedNow,
     NoJournal, AllAt, Cleaned, Committed, AfterBackups, CompensatedBackups
<1>2. BeforeKept'
  BY <1>J, <1>G DEF IInv, Known, CompensateAccept, BeforeKept, Uncommitted, Unfinished
<1>3. FinishedInv'
  BY <1>J, <1>G DEF IInv, Known, CompensateAccept, FinishedInv, Finished
<1>4. LastInv'
  BY <1>J, <1>G DEF IInv, Known, CompensateAccept, LastInv, Finished
<1>5. RouteInv'
  BY <1>J, <1>G DEF IInv, Known, CompensateAccept, RouteInv, Carries, LastExplains, NoJournal
<1>6. RouteJob'
  BY <1>J, <1>G DEF IInv, Known, CompensateAccept, RouteJob, Recovering, NoJournal
<1>7. FencedInv'
  BY <1>J, <1>G DEF IInv, Known, CompensateAccept, FencedInv, Carries, Unfinished
<1>8. ServiceInv'
  BY DEF IInv, Known, ServiceInv, CompensateAccept
<1>9. StandsInv'
  BY <1>J, <1>G DEF IInv, Known, CompensateAccept, StandsInv, Stands
<1>10. QED
  BY <1>1, <1>2, <1>3, <1>4, <1>5, <1>6, <1>7, <1>8, <1>9 DEF Known

\* The end of a compensation returns to the caller with no journal.
LEMMA CompensateFinishKnown ==
    ASSUME IInv, CompensateFinish PROVE Known'
<1> USE DEF nodes, storage, records, journals, service, At
<1>J. prep = NoIntent /\ pending = NoIntent /\ compensating # NoIntent
  BY DEF IInv, Known, Storage, OneJournal, ControlInv, Uncommitted, CommittedNow, NoJournal,
     CompensateFinish
<1>G. \/ UNCHANGED job
      \/ job'.pc = "idle" /\ job'.ret = "done" /\ job'.only = "no"
      \/ /\ job.ret # "done" /\ job'.pc = job.ret /\ job'.phase = "main" /\ job'.ret = job.ret
         /\ job'.only = job.only /\ job'.cand = job.cand /\ job'.authority = job.authority
  BY JobShape, JobFields DEF CompensateFinish, Steps
<1>1. ControlInv'
  <2>1. CASE UNCHANGED <<compensating, job>>
    <3>1. At("purge") /\ UNCHANGED <<live, prep, pending, accepted, backups, compensating, job>>
      BY <2>1 DEF CompensateFinish
    <3>2. QED
      BY <1>J, <3>1 DEF IInv, Known, ControlInv, AllAt, CompensatedBackups, AfterBackups
  <2>2. CASE Return
    BY JobShape, <1>J, <2>2, JobFields DEF IInv, Known, ControlInv, CompensateFinish
  <2>3. QED
    BY <2>1, <2>2 DEF CompensateFinish
<1>2. BeforeKept'
  BY <1>J, <1>G DEF IInv, Known, CompensateFinish, BeforeKept, Uncommitted, Unfinished
<1>3. FinishedInv'
  BY <1>J, <1>G DEF IInv, Known, CompensateFinish, FinishedInv, Finished
<1>4. LastInv'
  BY <1>J, <1>G DEF IInv, Known, CompensateFinish, LastInv, Finished
<1>5. RouteInv'
  BY JobShape, <1>J, <1>G DEF IInv, Known, CompensateFinish, RouteInv, Carries, LastExplains,
     NoJournal, ControlInv
<1>6. RouteJob'
  BY JobShape, <1>J, <1>G DEF IInv, Known, CompensateFinish, RouteJob, Recovering, NoJournal
<1>7. FencedInv'
  BY <1>J, <1>G DEF IInv, Known, CompensateFinish, FencedInv, Carries, Unfinished
<1>8. ServiceInv'
  BY DEF IInv, Known, ServiceInv, CompensateFinish
<1>9. StandsInv'
  BY <1>J, <1>G DEF IInv, Known, CompensateFinish, StandsInv, Stands
<1>10. QED
  BY <1>1, <1>2, <1>3, <1>4, <1>5, <1>6, <1>7, <1>8, <1>9 DEF Known

\* A retained intent is resumed only by the owner of the revocation that fenced it.
LEMMA ForwardKnown ==
    ASSUME IInv, Forward PROVE Known'
<1> USE DEF nodes, storage, records, journals, service, At
<1>G. \/ job'.pc = "idle" /\ job'.ret = "done" /\ job'.only = "no"
      \/ /\ Unfinished(revocation) /\ job'.pc = "stop" /\ job'.phase = job.phase
         /\ job'.ret = job.ret /\ job'.only = job.only /\ job'.cand = job.cand
         /\ job'.authority = job.authority
  BY JobShape, JobFields DEF Forward, Steps, Job, Done
<1>1. ControlInv'
  BY <1>G DEF IInv, Known, Forward, ControlInv, Uncommitted, CommittedNow, NoJournal, AllAt,
     Cleaned, Committed, AfterBackups, CompensatedBackups
<1>2. BeforeKept'
  BY <1>G DEF IInv, Known, Forward, BeforeKept, Uncommitted, Unfinished
<1>3. FinishedInv' /\ LastInv' /\ RouteInv' /\ StandsInv'
  BY RecordFrame DEF recorded, Forward
<1>4. RouteJob'
  BY <1>G DEF IInv, Known, Forward, RouteJob, Recovering, NoJournal
<1>5. FencedInv'
  BY <1>G DEF IInv, Known, Forward, FencedInv, Carries, Unfinished
<1>6. ServiceInv'
  BY DEF IInv, Known, ServiceInv, Forward
<1>7. QED
  BY <1>1, <1>2, <1>3, <1>4, <1>5, <1>6 DEF Known

\* A candidate already selected is confirmed without a journal.
LEMMA KeepSelectionKnown ==
    ASSUME IInv, KeepSelection PROVE Known'
<1> USE DEF nodes, storage, records, journals, service, At
<1>G. /\ job'.pc = "keep" /\ job'.phase = job.phase /\ job'.ret = job.ret
      /\ job'.only = job.only /\ job'.cand = job.cand /\ job'.authority = job.authority
  BY JobShape, JobFields DEF KeepSelection, Steps
<1>1. ControlInv'
  BY <1>G DEF IInv, Known, KeepSelection, Ready, Claimed, ControlInv, Uncommitted,
     CommittedNow, NoJournal, AllAt, Cleaned, Committed, AfterBackups, CompensatedBackups
<1>2. BeforeKept'
  BY <1>G DEF IInv, Known, KeepSelection, Ready, Claimed, BeforeKept, Uncommitted, Unfinished
<1>3. FinishedInv' /\ LastInv' /\ RouteInv' /\ StandsInv'
  BY RecordFrame DEF recorded, KeepSelection
<1>4. RouteJob'
  BY <1>G DEF IInv, Known, KeepSelection, Ready, Claimed, RouteJob, Recovering, NoJournal
<1>5. FencedInv'
  BY <1>G DEF IInv, Known, KeepSelection, Ready, Claimed, FencedInv, Carries, Unfinished
<1>6. ServiceInv'
  BY DEF IInv, Known, ServiceInv, KeepSelection, Ensure, Launch, Halt
<1>7. QED
  BY <1>1, <1>2, <1>3, <1>4, <1>5, <1>6 DEF Known

\* A confirmed selection is accepted.
LEMMA KeepReadyKnown ==
    ASSUME IInv, KeepReady PROVE Known'
<1> USE DEF nodes, storage, records, journals, service, At
<1>G. /\ job'.pc = "accept" /\ job'.phase = job.phase /\ job'.ret = job.ret
      /\ job'.only = job.only /\ job'.cand = job.cand /\ job'.authority = job.authority
  BY JobShape, JobFields DEF KeepReady, Steps
<1>1. ControlInv'
  BY <1>G DEF IInv, Known, KeepReady, ControlInv, Uncommitted, CommittedNow, NoJournal, AllAt,
     Cleaned, Committed, AfterBackups, CompensatedBackups
<1>2. BeforeKept'
  BY <1>G DEF IInv, Known, KeepReady, BeforeKept, Uncommitted, Unfinished
<1>3. FinishedInv' /\ LastInv' /\ RouteInv' /\ StandsInv'
  BY RecordFrame DEF recorded, KeepReady
<1>4. RouteJob'
  BY <1>G DEF IInv, Known, KeepReady, RouteJob, Recovering, NoJournal
<1>5. FencedInv'
  BY <1>G DEF IInv, Known, KeepReady, FencedInv, Carries, Unfinished
<1>6. ServiceInv'
  BY DEF IInv, Known, ServiceInv, KeepReady
<1>7. QED
  BY <1>1, <1>2, <1>3, <1>4, <1>5, <1>6 DEF Known

\* A refused candidate ends the operation.
LEMMA RefuseKnown ==
    ASSUME IInv, Refuse PROVE Known'
<1> USE DEF nodes, storage, records, journals, service, At
<1>G. job'.pc = "idle" /\ job'.ret = "done" /\ job'.only = "no"
  BY JobShape, JobFields DEF Refuse, Steps
<1>1. ControlInv'
  BY <1>G DEF IInv, Known, Refuse, ControlInv, Uncommitted, CommittedNow, NoJournal, AllAt,
     Cleaned, Committed, AfterBackups, CompensatedBackups
<1>2. BeforeKept'
  BY <1>G DEF IInv, Known, Refuse, BeforeKept, Uncommitted, Unfinished
<1>3. FinishedInv' /\ LastInv' /\ RouteInv' /\ StandsInv'
  BY RecordFrame DEF recorded, Refuse
<1>4. RouteJob'
  BY <1>G DEF IInv, Known, Refuse, RouteJob, Recovering, NoJournal
<1>5. FencedInv'
  BY <1>G DEF IInv, Known, Refuse, FencedInv, Carries, Unfinished
<1>6. ServiceInv'
  BY DEF IInv, Known, ServiceInv, Refuse
<1>7. QED
  BY <1>1, <1>2, <1>3, <1>4, <1>5, <1>6 DEF Known

\* The staged intent starts from the accepted receipt and carries the fence's plan.
LEMMA StageKnown ==
    ASSUME IInv, Stage PROVE Known'
<1> USE DEF nodes, storage, records, journals, service, At
<1>J. prep' # NoIntent /\ UNCHANGED <<pending, compensating>> /\ NoJournal
  BY PlannedIntent DEF Stage, Ready
<1>G. /\ job'.pc = "link" /\ job'.phase = job.phase /\ job'.ret = job.ret
      /\ job'.only = job.only /\ job'.cand = job.cand /\ job'.authority = job.authority
  BY JobShape, JobFields DEF Stage, Steps
<1>1. ControlInv'
  BY <1>J, <1>G DEF IInv, Known, Stage, Ready, ControlInv, Uncommitted, CommittedNow,
     NoJournal, AllAt, Cleaned, Committed, AfterBackups, CompensatedBackups
<1>2. BeforeKept'
  BY <1>J, <1>G DEF IInv, Known, Stage, Ready, BeforeKept, Uncommitted, Unfinished
<1>3. FinishedInv'
  BY <1>J, <1>G DEF IInv, Known, Stage, Ready, FinishedInv, Finished
<1>4. LastInv'
  BY <1>J, <1>G DEF IInv, Known, Stage, Ready, LastInv, Finished
<1>5. RouteInv'
  <2>1. SUFFICES ASSUME outer.open = "yes" PROVE RouteInv'
    BY DEF Stage, RouteInv
  <2>2. /\ UNCHANGED <<pending, compensating, accepted, last, revocation, outer>>
        /\ prep' = IntentFor(job.cand, staged + 1)
        /\ ~ (Same(job.cand) /\ Claimed(job.cand)) /\ AcceptedHolds
    BY DEF Stage, Ready
  <2>3. job.ret = "recovered" /\ job.authority = outer.revocation
    <3>1. At("recovered")
      BY DEF Stage
    <3>2. job.ret = "recovered"
      BY <3>1 DEF IInv, Known, ControlInv
    <3>3. QED
      BY <2>1, <3>1, <3>2 DEF IInv, Known, RouteJob
  <2>4. prep'.old = accepted /\ prep'.cover = job.cand.cover
    BY <2>2 DEF IntentFor
  <2>5. CASE outer.revocation = None
    <3>1. accepted = outer.receipt
      <4>1. Recovering
        BY DEF Recovering, Stage
      <4>2. QED
        BY <2>1, <2>3, <2>5, <4>1 DEF IInv, Known, RouteJob
    <3>2. QED
      BY <1>J, <2>2, <2>4, <2>5, <3>1 DEF RouteInv, NoJournal
  <2>6. CASE outer.revocation # None
    <3>1. revocation.authority = outer.revocation /\ revocation.plan = job.cand
      BY <2>1, <2>3, <2>6 DEF IInv, Known, RouteJob, RouteInv
    <3>2. accepted = outer.receipt
      <4>1. SUFFICES ASSUME accepted # outer.receipt PROVE FALSE
        OBVIOUS
      <4>2. Carries(last) /\ last # NoIntent /\ last.new = accepted
        BY <1>J, <2>1, <2>6, <4>1 DEF IInv, Known, RouteInv, LastExplains
      <4>3. Same(job.cand) /\ Claimed(job.cand)
        BY <2>2, <3>1, <4>2, CarriedIsKept DEF Stage
      <4>4. QED
        BY <2>2, <4>3
    <3>3. Carries(prep)'
      BY <2>2, <3>1, StagedCarries DEF Stage
    <3>4. QED
      BY <1>J, <2>2, <2>4, <3>1, <3>2, <3>3 DEF RouteInv, NoJournal
  <2>7. QED
    BY <2>5, <2>6
<1>6. RouteJob'
  BY JobShape, <1>J, <1>G DEF IInv, Known, Stage, Ready, RouteJob, Recovering, NoJournal,
     ControlInv
<1>7. FencedInv'
  <2>1. /\ UNCHANGED <<pending, compensating, revocation>> /\ At("recovered")
        /\ pending = NoIntent /\ compensating = NoIntent
    BY <1>J DEF Stage, NoJournal
  <2>2. Unfinished(revocation) => Carries(prep)'
    <3>1. job.ret = "recovered"
      BY <2>1 DEF IInv, Known, ControlInv
    <3>2. Unfinished(revocation) => revocation.plan = job.cand
      BY <2>1, <3>1 DEF IInv, Known, FencedInv, RouteJob, Unfinished
    <3>3. QED
      BY <3>2, StagedCarries
  <2>3. QED
    BY JobShape, <1>G, <2>1, <2>2 DEF IInv, Known, FencedInv, Unfinished
<1>8. ServiceInv'
  BY DEF IInv, Known, ServiceInv, Stage
<1>9. StandsInv'
  <2>1. /\ UNCHANGED <<live, pending, compensating, last, accepted, revocation>>
        /\ staged' = staged + 1
        /\ prep' = IntentFor(job.cand, staged + 1)
    BY DEF Stage
  <2>2. \A p \in prep'.cover : p \in Paths /\ prep'.was[p] = live[p] /\ prep'.now[p] \in {Absent, staged + 1}
    BY <2>1, CandidateOf DEF IntentFor, Stage
  <2>3. \A q \in Paths : revocation.receipt.nodes[q] <= staged + 1 /\ staged + 1 > revocation.receipt.nodes[q]
    <3>1. \A q \in Paths : revocation.receipt.nodes[q] <= staged
      BY DEF IInv, Known, StandsInv
    <3>2. staged \in Int /\ \A q \in Paths : revocation.receipt.nodes[q] \in Int
      BY NodeNumbers, ReceiptNumbers DEF IInv
    <3>3. \A m, n \in Int : m <= n => m <= n + 1 /\ n + 1 > m
      OBVIOUS
    <3>4. QED
      BY <3>1, <3>2, <3>3
  <2>4. \A p \in Paths : Stands(Absent, p) /\ Stands(staged + 1, p) /\ Stands(live[p], p)
    BY <2>3 DEF IInv, Known, StandsInv, Stands
  <2>5. \A p \in prep'.cover : Stands(prep'.was[p], p) /\ Stands(prep'.now[p], p)
    BY <2>2, <2>4
  <2>6. \A p \in prep'.cover : Stands(prep.was[p], p)' /\ Stands(prep.now[p], p)'
    BY <2>1, <2>5 DEF Stands
  <2>7. \A p \in Paths : revocation'.receipt.nodes[p] <= staged' /\ Stands(live[p], p)'
    BY <2>1, <2>3, <2>4 DEF Stands
  <2>8. (pending # NoIntent)' => \A p \in pending'.cover :
         /\ Stands(pending.now[p], p)'
         /\ (accepted # pending.new \/ pending.new # revocation.receipt)' => Stands(pending.was[p], p)'
    BY <2>1 DEF IInv, Known, StandsInv, Stands
  <2>9. (compensating # NoIntent)' => \A p \in compensating'.cover : Stands(compensating.was[p], p)'
    BY <2>1 DEF IInv, Known, StandsInv, Stands
  <2>10. (last # NoIntent)' /\ (compensating = NoIntent)'
         /\ (pending = NoIntent \/ accepted # pending.new)' /\ (last.new # revocation.receipt)'
         => \A p \in last'.cover : Stands(last.was[p], p)'
    BY <2>1 DEF IInv, Known, StandsInv, Stands
  <2>11. QED
    BY <2>6, <2>7, <2>8, <2>9, <2>10 DEF StandsInv
<1>10. QED
  BY <1>1, <1>2, <1>3, <1>4, <1>5, <1>6, <1>7, <1>8, <1>9 DEF Known

\* Linking changes no record.
LEMMA LinkNodeKnown ==
    ASSUME IInv, LinkNode PROVE Known'
<1> USE DEF nodes, storage, records, journals, service, At
<1>1. ControlInv'
  BY DEF IInv, Known, LinkNode, ControlInv, Uncommitted, CommittedNow, NoJournal, AllAt,
     Cleaned, Committed, AfterBackups, CompensatedBackups
<1>2. BeforeKept'
  BY JobShape DEF IInv, Known, LinkNode, BeforeKept, Uncommitted, Unfinished, ControlInv
<1>3. FinishedInv' /\ LastInv' /\ RouteInv' /\ StandsInv'
  BY RecordFrame DEF recorded, LinkNode
<1>4. RouteJob'
  BY DEF IInv, Known, LinkNode, RouteJob, Recovering, NoJournal
<1>5. FencedInv'
  BY DEF IInv, Known, LinkNode, FencedInv, Carries, Unfinished
<1>6. ServiceInv'
  BY DEF IInv, Known, ServiceInv, LinkNode
<1>7. QED
  BY <1>1, <1>2, <1>3, <1>4, <1>5, <1>6 DEF Known

\* The journalled intent is the prepared one.
LEMMA RecordPendingKnown ==
    ASSUME IInv, RecordPending PROVE Known'
<1> USE DEF nodes, storage, records, journals, service, At
<1>G. /\ job'.pc = "claimed" /\ job'.phase = job.phase /\ job'.ret = job.ret
      /\ job'.only = job.only /\ job'.cand = job.cand /\ job'.authority = job.authority
  BY JobShape, JobFields DEF RecordPending, Steps
<1>1. ControlInv'
  BY <1>G DEF IInv, Known, RecordPending, ControlInv, Uncommitted, CommittedNow, NoJournal,
     AllAt, Cleaned, Committed, AfterBackups, CompensatedBackups
<1>2. BeforeKept'
  BY <1>G DEF IInv, Known, RecordPending, BeforeKept, Uncommitted, Unfinished
<1>3. FinishedInv'
  <2>1. pending' = prep /\ UNCHANGED <<compensating, accepted, revocation>> /\ accepted = prep.old
    BY DEF RecordPending, IInv, Known, ControlInv, Storage, PrepInv, PreparationHolds
  <2>2. QED
    BY <2>1 DEF IInv, Known, FinishedInv, Finished
<1>4. LastInv'
  BY JobShape, <1>G DEF IInv, Known, RecordPending, LastInv, Finished, ControlInv
<1>5. RouteInv'
  BY JobShape, <1>G DEF IInv, Known, RecordPending, RouteInv, Carries, LastExplains, NoJournal,
     ControlInv
<1>6. RouteJob'
  BY <1>G DEF IInv, Known, RecordPending, RouteJob, Recovering, NoJournal
<1>7. FencedInv'
  BY <1>G DEF IInv, Known, RecordPending, FencedInv, Carries, Unfinished
<1>8. ServiceInv'
  BY DEF IInv, Known, ServiceInv, RecordPending
<1>9. StandsInv'
  <2>1. /\ UNCHANGED <<live, staged, prep, compensating, last, accepted, revocation>>
        /\ pending' = prep /\ pending = NoIntent /\ prep # NoIntent
    BY DEF RecordPending, IInv, Known, ControlInv
  <2>2. QED
    BY <2>1 DEF IInv, Known, StandsInv, Stands
<1>10. QED
  BY <1>1, <1>2, <1>3, <1>4, <1>5, <1>6, <1>7, <1>8, <1>9 DEF Known

\* An uncommitted intent is published with all its old nodes linked.
LEMMA FinishPreparationKnown ==
    ASSUME IInv, FinishPreparation PROVE Known'
<1> USE DEF nodes, storage, records, journals, service, At
<1>J. prep # NoIntent /\ pending = prep /\ accepted # pending.new
  BY DEF IInv, Known, Storage, ControlInv, PrepInv, PreparationHolds, IntentsInv, WellFormed,
     FinishPreparation
<1>G. /\ job'.pc = "stop" /\ job'.phase = job.phase /\ job'.ret = job.ret
      /\ job'.only = job.only /\ job'.cand = job.cand /\ job'.authority = job.authority
  BY JobShape, JobFields DEF FinishPreparation, Steps
<1>1. ControlInv'
  BY <1>J, <1>G DEF IInv, Known, FinishPreparation, ControlInv, Uncommitted, CommittedNow,
     NoJournal, AllAt, Cleaned, Committed, AfterBackups, CompensatedBackups
<1>2. BeforeKept'
  <2>1. \A p \in pending.cover : before[p] = pending.was[p]
    BY <1>J DEF IInv, Storage, PrepInv
  <2>2. QED
    BY <1>G, <2>1 DEF BeforeKept, FinishPreparation
<1>3. FinishedInv'
  BY <1>J, <1>G DEF IInv, Known, FinishPreparation, FinishedInv, Finished
<1>4. LastInv'
  BY <1>J, <1>G DEF IInv, Known, FinishPreparation, LastInv, Finished
<1>5. RouteInv'
  BY <1>J, <1>G DEF IInv, Known, FinishPreparation, RouteInv, Carries, LastExplains, NoJournal
<1>6. RouteJob'
  BY <1>J, <1>G DEF IInv, Known, FinishPreparation, RouteJob, Recovering, NoJournal
<1>7. FencedInv'
  BY <1>J, <1>G DEF IInv, Known, FinishPreparation, FencedInv, Carries, Unfinished
<1>8. ServiceInv'
  BY DEF IInv, Known, ServiceInv, FinishPreparation
<1>9. StandsInv'
  BY <1>J, <1>G DEF IInv, Known, FinishPreparation, StandsInv, Stands
<1>10. QED
  BY <1>1, <1>2, <1>3, <1>4, <1>5, <1>6, <1>7, <1>8, <1>9 DEF Known

\* The old generation stops before anything is published.
LEMMA StopOldKnown ==
    ASSUME IInv, StopOld PROVE Known'
<1> USE DEF nodes, storage, records, journals, service, At
<1>G. /\ job'.pc = "publish" /\ job'.phase = job.phase /\ job'.ret = job.ret
      /\ job'.only = job.only /\ job'.cand = job.cand /\ job'.authority = job.authority
  BY JobShape, JobFields DEF StopOld, Steps
<1>1. ControlInv'
  BY <1>G DEF IInv, Known, StopOld, ControlInv, Uncommitted, CommittedNow, NoJournal, AllAt,
     Cleaned, Committed, AfterBackups, CompensatedBackups
<1>2. BeforeKept'
  BY <1>G DEF IInv, Known, StopOld, BeforeKept, Uncommitted, Unfinished
<1>3. FinishedInv' /\ LastInv' /\ RouteInv' /\ StandsInv'
  BY RecordFrame DEF recorded, StopOld
<1>4. RouteJob'
  BY <1>G DEF IInv, Known, StopOld, RouteJob, Recovering, NoJournal
<1>5. FencedInv'
  BY <1>G DEF IInv, Known, StopOld, FencedInv, Carries, Unfinished
<1>6. ServiceInv'
  BY DEF IInv, Known, ServiceInv, StopOld, Halt
<1>7. QED
  BY <1>1, <1>2, <1>3, <1>4, <1>5, <1>6 DEF Known

\* When nothing is left to publish the generation may start.
LEMMA PublishSelectedKnown ==
    ASSUME IInv, PublishSelected PROVE Known'
<1> USE DEF nodes, storage, records, journals, service, At
<1>J. prep = NoIntent /\ pending # NoIntent /\ compensating = NoIntent
  BY DEF IInv, Known, Storage, OneJournal, ControlInv, Uncommitted, CommittedNow, NoJournal,
     PublishSelected, Publish
<1>G. \/ UNCHANGED job
      \/ /\ job'.pc = "start" /\ job'.phase = job.phase /\ job'.ret = job.ret
         /\ job'.only = job.only /\ job'.cand = job.cand /\ job'.authority = job.authority
  BY JobShape, JobFields DEF PublishSelected, Publish, Steps
<1>1. ControlInv'
  <2>1. /\ At("publish") /\ UNCHANGED <<prep, pending, compensating, accepted>>
        /\ \/ UNCHANGED job /\ \E p \in ToPublish(FALSE) : ReplaceAfter(p)
           \/ job'.pc = "start" /\ ToPublish(FALSE) = {} /\ UNCHANGED live
    BY JobShape, JobFields DEF PublishSelected, Publish, Steps
  <2>2. Uncommitted
    BY <2>1 DEF IInv, Known, ControlInv
  <2>3. CASE UNCHANGED job
    BY <2>1, <2>2, <2>3 DEF IInv, Known, ControlInv, Uncommitted
  <2>4. CASE ToPublish(FALSE) = {} /\ job'.pc = "start" /\ UNCHANGED live
    <3>1. \A p \in pending.cover : (p \in Deferred) = FALSE => live[p] = pending.now[p]
      BY <2>4 DEF ToPublish
    <3>2. QED
      BY JobShape, <1>G, <2>1, <2>2, <2>4, <3>1 DEF IInv, Known, ControlInv, Uncommitted, AllAt
  <2>5. QED
    BY <2>1, <2>3, <2>4
<1>2. BeforeKept'
  BY <1>J, <1>G DEF IInv, Known, PublishSelected, Publish, BeforeKept, Uncommitted, Unfinished
<1>3. FinishedInv'
  BY <1>J, <1>G DEF IInv, Known, PublishSelected, Publish, FinishedInv, Finished
<1>4. LastInv'
  BY <1>J, <1>G DEF IInv, Known, PublishSelected, Publish, LastInv, Finished
<1>5. RouteInv'
  BY <1>J, <1>G DEF IInv, Known, PublishSelected, Publish, RouteInv, Carries, LastExplains,
     NoJournal
<1>6. RouteJob'
  BY <1>J, <1>G DEF IInv, Known, PublishSelected, Publish, RouteJob, Recovering, NoJournal
<1>7. FencedInv'
  BY <1>J, <1>G DEF IInv, Known, PublishSelected, Publish, FencedInv, Carries, Unfinished
<1>8. ServiceInv'
  BY DEF IInv, Known, ServiceInv, PublishSelected, Publish
<1>9. StandsInv'
  <2>1. UNCHANGED <<staged, prep, pending, compensating, last, accepted, revocation>>
    BY DEF PublishSelected, Publish
  <2>2. \A q \in Paths : live'[q] = live[q] \/ (q \in pending.cover /\ live'[q] = pending.now[q])
    <3>1. CASE \E p \in ToPublish(FALSE) : ReplaceAfter(p)
      <4>1. PICK p \in ToPublish(FALSE) : ReplaceAfter(p)
        BY <3>1
      <4>2. live' = live \/ live' = [live EXCEPT ![p] = pending.now[p]]
        BY <4>1 DEF ReplaceAfter
      <4>3. p \in pending.cover
        BY <4>1 DEF ToPublish
      <4>4. QED
        BY <4>2, <4>3, StoreShapes
    <3>2. QED
      BY <3>1 DEF PublishSelected, Publish
  <2>3. QED
    BY <1>J, <2>1, <2>2 DEF IInv, Known, StandsInv, Stands
<1>10. QED
  BY <1>1, <1>2, <1>3, <1>4, <1>5, <1>6, <1>7, <1>8, <1>9 DEF Known

\* Starting the new generation changes no record.
LEMMA StartNewKnown ==
    ASSUME IInv, StartNew PROVE Known'
<1> USE DEF nodes, storage, records, journals, service, At
<1>G. /\ job'.pc = "ready" /\ job'.phase = job.phase /\ job'.ret = job.ret
      /\ job'.only = job.only /\ job'.cand = job.cand /\ job'.authority = job.authority
  BY JobShape, JobFields DEF StartNew, Steps
<1>1. ControlInv'
  BY <1>G DEF IInv, Known, StartNew, ControlInv, Uncommitted, CommittedNow, NoJournal, AllAt,
     Cleaned, Committed, AfterBackups, CompensatedBackups
<1>2. BeforeKept'
  BY <1>G DEF IInv, Known, StartNew, BeforeKept, Uncommitted, Unfinished
<1>3. FinishedInv' /\ LastInv' /\ RouteInv' /\ StandsInv'
  BY RecordFrame DEF recorded, StartNew
<1>4. RouteJob'
  BY <1>G DEF IInv, Known, StartNew, RouteJob, Recovering, NoJournal
<1>5. FencedInv'
  BY <1>G DEF IInv, Known, StartNew, FencedInv, Carries, Unfinished
<1>6. ServiceInv'
  BY DEF IInv, Known, ServiceInv, StartNew, Launch, Halt
<1>7. QED
  BY <1>1, <1>2, <1>3, <1>4, <1>5, <1>6 DEF Known

\* A ready generation lets the deferred entries be published.
LEMMA ReadyNewKnown ==
    ASSUME IInv, ReadyNew PROVE Known'
<1> USE DEF nodes, storage, records, journals, service, At
<1>G. /\ job'.pc = "defer" /\ job'.phase = job.phase /\ job'.ret = job.ret
      /\ job'.only = job.only /\ job'.cand = job.cand /\ job'.authority = job.authority
  BY JobShape, JobFields DEF ReadyNew, Steps
<1>1. ControlInv'
  BY <1>G DEF IInv, Known, ReadyNew, ControlInv, Uncommitted, CommittedNow, NoJournal, AllAt,
     Cleaned, Committed, AfterBackups, CompensatedBackups
<1>2. BeforeKept'
  BY <1>G DEF IInv, Known, ReadyNew, BeforeKept, Uncommitted, Unfinished
<1>3. FinishedInv' /\ LastInv' /\ RouteInv' /\ StandsInv'
  BY RecordFrame DEF recorded, ReadyNew
<1>4. RouteJob'
  BY <1>G DEF IInv, Known, ReadyNew, RouteJob, Recovering, NoJournal
<1>5. FencedInv'
  BY <1>G DEF IInv, Known, ReadyNew, FencedInv, Carries, Unfinished
<1>6. ServiceInv'
  BY DEF IInv, Known, ServiceInv, ReadyNew
<1>7. QED
  BY <1>1, <1>2, <1>3, <1>4, <1>5, <1>6 DEF Known

\* When the deferred entries are published every covered path is at its new node.
LEMMA PublishDeferredKnown ==
    ASSUME IInv, PublishDeferred PROVE Known'
<1> USE DEF nodes, storage, records, journals, service, At
<1>J. prep = NoIntent /\ pending # NoIntent /\ compensating = NoIntent
  BY DEF IInv, Known, Storage, OneJournal, ControlInv, Uncommitted, CommittedNow, NoJournal,
     PublishDeferred, Publish
<1>G. \/ UNCHANGED job
      \/ /\ job'.pc = "seal" /\ job'.phase = job.phase /\ job'.ret = job.ret
         /\ job'.only = job.only /\ job'.cand = job.cand /\ job'.authority = job.authority
  BY JobShape, JobFields DEF PublishDeferred, Publish, Steps
<1>1. ControlInv'
  <2>1. /\ At("defer") /\ UNCHANGED <<prep, pending, compensating, accepted>>
        /\ \/ UNCHANGED job /\ \E p \in ToPublish(TRUE) : ReplaceAfter(p)
           \/ job'.pc = "seal" /\ ToPublish(TRUE) = {} /\ UNCHANGED live
    BY JobShape, JobFields DEF PublishDeferred, Publish, Steps
  <2>2. Uncommitted /\ \A p \in pending.cover \ Deferred : live[p] = pending.now[p]
    BY <2>1 DEF IInv, Known, ControlInv
  <2>3. CASE UNCHANGED job
    <3>1. \A p \in pending.cover \ Deferred : live'[p] = live[p]
      <4>1. CASE UNCHANGED live
        BY <4>1
      <4>2. CASE \E p \in ToPublish(TRUE) : ReplaceAfter(p)
        <5>1. PICK p \in ToPublish(TRUE) : ReplaceAfter(p)
          BY <4>2
        <5>2. p \in Deferred
          BY <5>1 DEF ToPublish
        <5>3. live' = live \/ live' = [live EXCEPT ![p] = pending.now[p]]
          BY <5>1 DEF ReplaceAfter
        <5>4. live \in [Paths -> Node] /\ pending.cover \subseteq Paths
          BY StoreShapes DEF IInv
        <5>5. QED
          BY <5>2, <5>3, <5>4
      <4>3. QED
        BY <2>1, <4>1, <4>2
    <3>2. QED
      BY <2>1, <2>2, <2>3, <3>1 DEF IInv, Known, ControlInv, Uncommitted
  <2>4. CASE ToPublish(TRUE) = {} /\ job'.pc = "seal" /\ UNCHANGED live
    <3>1. \A p \in pending.cover : (p \in Deferred) = TRUE => live[p] = pending.now[p]
      BY <2>4 DEF ToPublish
    <3>2. QED
      BY JobShape, <1>G, <2>1, <2>2, <2>4, <3>1 DEF IInv, Known, ControlInv, Uncommitted, AllAt
  <2>5. QED
    BY <2>1, <2>3, <2>4
<1>2. BeforeKept'
  BY <1>J, <1>G DEF IInv, Known, PublishDeferred, Publish, BeforeKept, Uncommitted, Unfinished
<1>3. FinishedInv'
  BY <1>J, <1>G DEF IInv, Known, PublishDeferred, Publish, FinishedInv, Finished
<1>4. LastInv'
  BY <1>J, <1>G DEF IInv, Known, PublishDeferred, Publish, LastInv, Finished
<1>5. RouteInv'
  BY <1>J, <1>G DEF IInv, Known, PublishDeferred, Publish, RouteInv, Carries, LastExplains,
     NoJournal
<1>6. RouteJob'
  BY <1>J, <1>G DEF IInv, Known, PublishDeferred, Publish, RouteJob, Recovering, NoJournal
<1>7. FencedInv'
  BY <1>J, <1>G DEF IInv, Known, PublishDeferred, Publish, FencedInv, Carries, Unfinished
<1>8. ServiceInv'
  BY DEF IInv, Known, ServiceInv, PublishDeferred, Publish
<1>9. StandsInv'
  <2>1. UNCHANGED <<staged, prep, pending, compensating, last, accepted, revocation>>
    BY DEF PublishDeferred, Publish
  <2>2. \A q \in Paths : live'[q] = live[q] \/ (q \in pending.cover /\ live'[q] = pending.now[q])
    <3>1. CASE \E p \in ToPublish(TRUE) : ReplaceAfter(p)
      <4>1. PICK p \in ToPublish(TRUE) : ReplaceAfter(p)
        BY <3>1
      <4>2. live' = live \/ live' = [live EXCEPT ![p] = pending.now[p]]
        BY <4>1 DEF ReplaceAfter
      <4>3. p \in pending.cover
        BY <4>1 DEF ToPublish
      <4>4. QED
        BY <4>2, <4>3, StoreShapes
    <3>2. QED
      BY <3>1 DEF PublishDeferred, Publish
  <2>3. QED
    BY <1>J, <2>1, <2>2 DEF IInv, Known, StandsInv, Stands
<1>10. QED
  BY <1>1, <1>2, <1>3, <1>4, <1>5, <1>6, <1>7, <1>8, <1>9 DEF Known

\* Sealing keeps the nodes that are published.
LEMMA SealKnown ==
    ASSUME IInv, Seal PROVE Known'
<1> USE DEF nodes, storage, records, journals, service, At
<1>J. /\ prep = NoIntent /\ accepted # pending'.new
      /\ pending'.cover = pending.cover /\ pending'.now = pending.now /\ pending' # NoIntent
  <2>1. pending # NoIntent /\ prep = NoIntent /\ accepted = pending.old
    BY DEF IInv, Known, ControlInv, Uncommitted, Seal, Storage, PendingInv, JournalHolds
  <2>2. pending.new.nodes # pending.old.nodes
    BY <2>1 DEF IInv, Storage, IntentsInv, WellFormed
  <2>3. QED
    BY <2>1, <2>2, SealedIntent DEF IInv, Seal
<1>G. /\ job'.pc = "commit" /\ job'.phase = job.phase /\ job'.ret = job.ret
      /\ job'.only = job.only /\ job'.cand = job.cand /\ job'.authority = job.authority
  BY JobShape, JobFields DEF Seal, Steps
<1>1. ControlInv'
  BY <1>J, <1>G DEF IInv, Known, Seal, ControlInv, Uncommitted, CommittedNow, NoJournal, AllAt,
     Cleaned, Committed, AfterBackups, CompensatedBackups
<1>2. BeforeKept'
  BY JobShape, <1>J, <1>G DEF IInv, Known, Seal, BeforeKept, Uncommitted, Unfinished, ControlInv
<1>3. FinishedInv'
  <2>1. /\ accepted = pending.old /\ pending'.old = pending.old
        /\ UNCHANGED <<compensating, accepted, revocation>>
    BY SealedIntent DEF Seal, IInv, Known, ControlInv, Uncommitted, Storage, PendingInv,
       JournalHolds
  <2>2. QED
    BY <2>1 DEF IInv, Known, FinishedInv, Finished
<1>4. LastInv'
  <2>1. accepted # pending.new /\ UNCHANGED <<compensating, accepted, revocation, last>>
    BY DEF Seal, IInv, Known, ControlInv, Uncommitted
  <2>2. QED
    BY <1>J, <2>1 DEF IInv, Known, LastInv, Finished
<1>5. RouteInv'
  <2>1. /\ UNCHANGED <<content, prep, compensating, accepted, last, revocation, outer>>
        /\ pending # NoIntent /\ pending'.old = pending.old
    BY SealedIntent DEF Seal, IInv, Known, ControlInv, Uncommitted
  <2>2. QED
    BY <1>J, <2>1 DEF IInv, Known, RouteInv, Carries, NoJournal
<1>6. RouteJob'
  <2>1. At("seal") /\ ~ NoJournal /\ UNCHANGED <<revocation, outer, play>>
    BY DEF Seal, NoJournal, IInv, Known, ControlInv, Uncommitted
  <2>2. QED
    BY JobShape, <1>G, <2>1 DEF IInv, Known, RouteJob, Recovering
<1>7. FencedInv'
  <2>1. /\ UNCHANGED <<content, prep, compensating, revocation>> /\ pending # NoIntent
    BY DEF Seal, IInv, Known, ControlInv, Uncommitted
  <2>2. At("seal")
    BY DEF Seal
  <2>3. QED
    BY JobShape, <1>J, <1>G, <2>1, <2>2 DEF IInv, Known, FencedInv, Carries, Unfinished
<1>8. ServiceInv'
  BY DEF IInv, Known, ServiceInv, Seal
<1>9. StandsInv'
  <2>1. /\ UNCHANGED <<live, staged, prep, compensating, last, accepted, revocation>>
        /\ pending # NoIntent /\ accepted # pending.new /\ pending'.was = pending.was
    BY SealedIntent DEF Seal, IInv, Known, ControlInv, Uncommitted
  <2>2. QED
    BY <1>J, <2>1 DEF IInv, Known, StandsInv, Stands
<1>10. QED
  BY <1>1, <1>2, <1>3, <1>4, <1>5, <1>6, <1>7, <1>8, <1>9 DEF Known

\* A committed intent is what the fence, the route and last.json lead to.
LEMMA CommitKnown ==
    ASSUME IInv, Commit PROVE Known'
<1> USE DEF nodes, storage, records, journals, service, At
<1>J. prep = NoIntent /\ pending # NoIntent /\ compensating = NoIntent
  BY DEF IInv, Known, Storage, OneJournal, ControlInv, Uncommitted, CommittedNow, NoJournal,
     Commit
<1>G. /\ job'.pc = "accept" /\ job'.phase = job.phase /\ job'.ret = job.ret
      /\ job'.only = job.only /\ job'.cand = job.cand /\ job'.authority = job.authority
  BY JobShape, JobFields DEF Commit, Steps
<1>1. ControlInv'
  BY <1>J, <1>G DEF IInv, Known, Commit, ControlInv, Uncommitted, CommittedNow, NoJournal,
     AllAt, Cleaned, Committed, AfterBackups, CompensatedBackups
<1>2. BeforeKept'
  BY <1>J, <1>G DEF IInv, Known, Commit, BeforeKept, Uncommitted, Unfinished
<1>3. FinishedInv'
  <2>1. /\ accepted = pending.old /\ accepted' = pending.new
        /\ UNCHANGED <<pending, compensating, revocation>>
    BY <1>J DEF Commit, IInv, Known, ControlInv, Uncommitted, Storage, PendingInv, JournalHolds
  <2>2. pending.new # NoReceipt
    BY <1>J DEF IInv, Storage, IntentsInv, WellFormed, NoReceipt
  <2>3. QED
    BY <2>1, <2>2 DEF IInv, Known, FinishedInv, Finished
<1>4. LastInv'
  BY <1>J, <1>G DEF IInv, Known, Commit, LastInv, Finished
<1>5. RouteInv'
  BY <1>J, <1>G DEF IInv, Known, Commit, RouteInv, Carries, LastExplains, NoJournal
<1>6. RouteJob'
  <2>1. accepted' # NoReceipt /\ ~ NoJournal
    BY <1>J, CommittedReceipt DEF Commit, NoJournal
  <2>2. QED
    BY JobShape, <1>G, <2>1 DEF IInv, Known, RouteJob, Recovering, Commit
<1>7. FencedInv'
  BY <1>J, <1>G DEF IInv, Known, Commit, FencedInv, Carries, Unfinished
<1>8. ServiceInv'
  BY DEF IInv, Known, ServiceInv, Commit
<1>9. StandsInv'
  BY <1>J, <1>G DEF IInv, Known, Commit, StandsInv, Stands
<1>10. QED
  BY <1>1, <1>2, <1>3, <1>4, <1>5, <1>6, <1>7, <1>8, <1>9 DEF Known

\* The revocation takes the accepted receipt, whose nodes are the selected ones.
LEMMA AcceptRevocationKnown ==
    ASSUME IInv, AcceptRevocation PROVE Known'
<1> USE DEF nodes, storage, records, journals, service, At
<1>J. CommittedNow \/ NoJournal
  BY DEF IInv, Known, Storage, ControlInv, AcceptRevocation
<1>G. \/ job'.pc = "idle" /\ job'.ret = "done" /\ job'.only = "no"
      \/ /\ job.phase = "recover" /\ job'.pc = "cleanup" /\ job'.phase = job.phase
         /\ job'.ret = job.ret /\ job'.only = job.only /\ job'.cand = job.cand
         /\ job'.authority = job.authority
      \/ /\ job'.pc = "confirm" /\ job'.phase = job.phase /\ job'.ret = job.ret
         /\ job'.only = job.only /\ job'.cand = job.cand /\ job'.authority = job.authority
  BY JobShape, JobFields DEF AcceptRevocation, Steps
<1>1. ControlInv'
  <2>1. At("accept") /\ UNCHANGED <<prep, pending, compensating, accepted>>
    BY DEF AcceptRevocation
  <2>2. (CommittedNow \/ NoJournal) /\ (job.phase = "recover" => CommittedNow)
    BY <2>1 DEF IInv, Known, ControlInv
  <2>3. (CommittedNow \/ NoJournal)' /\ (job.phase = "recover" => CommittedNow')
    BY <2>1, <2>2 DEF CommittedNow, NoJournal
  <2>4. QED
    BY JobShape, <1>G, <2>3 DEF IInv, Known, ControlInv
<1>2. BeforeKept'
  <2>1. pending = NoIntent \/ accepted = pending.new
    BY <1>J DEF CommittedNow, NoJournal
  <2>2. QED
    BY <2>1 DEF BeforeKept, Uncommitted, AcceptRevocation
<1>3. FinishedInv'
  <2>1. /\ UNCHANGED <<pending, compensating, accepted>> /\ accepted # NoReceipt
        /\ \/ UNCHANGED revocation
           \/ /\ revocation.plan # NoPlan /\ revocation'.plan = revocation.plan
              /\ revocation'.receipt = accepted
    BY FenceReceipt DEF AcceptRevocation, IInv, Known, RouteJob
  <2>2. compensating = NoIntent /\ (pending # NoIntent => accepted = pending.new)
    BY <1>J DEF CommittedNow, NoJournal, IInv, Storage, OneJournal
  <2>3. QED
    BY <2>1, <2>2 DEF IInv, Known, FinishedInv, Finished
<1>4. LastInv'
  <2>1. /\ UNCHANGED <<pending, compensating, accepted, last>>
        /\ revocation' = revocation \/ revocation'.receipt = accepted
    BY FenceReceipt DEF AcceptRevocation, IInv
  <2>2. QED
    BY <1>J, <2>1 DEF IInv, Known, LastInv, Finished, CommittedNow, NoJournal
<1>5. RouteInv'
  <2>1. /\ UNCHANGED <<content, prep, pending, compensating, accepted, last, outer>>
        /\ revocation'.plan = revocation.plan /\ revocation'.authority = revocation.authority
    BY FenceReceipt DEF AcceptRevocation, IInv
  <2>2. QED
    BY <2>1 DEF IInv, Known, RouteInv, Carries, LastExplains, NoJournal
<1>6. RouteJob'
  <2>1. /\ UNCHANGED <<prep, pending, compensating, accepted, last, outer, play>> /\ At("accept")
        /\ revocation'.plan = revocation.plan /\ revocation'.authority = revocation.authority
    BY FenceReceipt DEF AcceptRevocation, IInv
  <2>2. QED
    BY JobShape, <1>G, <2>1 DEF IInv, Known, RouteJob, Recovering, NoJournal
<1>7. FencedInv'
  <2>1. /\ UNCHANGED <<content, prep, pending, compensating>> /\ At("accept")
    BY DEF AcceptRevocation
  <2>2. accepted # NoReceipt
    BY <2>1 DEF IInv, Known, RouteJob
  <2>3. UNCHANGED revocation \/ ~ Unfinished(revocation)'
    BY <2>2, FenceReceipt DEF AcceptRevocation, IInv, Unfinished
  <2>4. QED
    BY JobShape, <1>G, <2>1, <2>3 DEF IInv, Known, FencedInv, Carries, Unfinished
<1>8. ServiceInv'
  BY DEF IInv, Known, ServiceInv, AcceptRevocation
<1>9. StandsInv'
  <2>1. UNCHANGED <<live, staged, prep, pending, compensating, last, accepted>>
    BY DEF AcceptRevocation
  <2>2. CASE UNCHANGED revocation
    BY <2>1, <2>2 DEF IInv, Known, StandsInv, Stands
  <2>3. CASE revocation' = [revocation EXCEPT !.receipt = accepted]
    <3>1. revocation'.receipt = accepted
      BY <2>3, FenceReceipt DEF IInv
    <3>2. \A p \in Paths : accepted.nodes[p] # Unclaimed => live[p] = accepted.nodes[p]
      BY <1>J DEF CommittedNow, IInv, Storage, QuietInv, AcceptedHolds, PendingInv, Outside,
         AllAt, IntentsInv,
         WellFormed, Overlay
    <3>3. \A p \in Paths : accepted.nodes[p] <= staged
      <4>1. Unclaimed <= staged
        BY NodeNumbers DEF IInv, Unclaimed
      <4>2. \A p \in Paths : live[p] <= staged
        BY DEF IInv, Storage, NodesInv
      <4>3. QED
        BY <3>2, <4>1, <4>2
    <3>4. pending # NoIntent => /\ accepted = pending.new /\ pending.cover \subseteq Paths
                                /\ \A p \in pending.cover : pending.now[p] = live[p]
      BY <1>J, StoreShapes DEF CommittedNow, NoJournal, IInv, Storage, PendingInv, AllAt
    <3>5. prep = NoIntent /\ compensating = NoIntent
      BY <1>J DEF CommittedNow, NoJournal, IInv, Storage, OneJournal
    <3>6. pending = NoIntent /\ last # NoIntent => last.new = accepted
      BY <3>5 DEF IInv, Known, LastInv
    <3>7. QED
      BY <2>1, <3>1, <3>2, <3>3, <3>4, <3>5, <3>6 DEF StandsInv, Stands
  <2>4. QED
    BY <2>2, <2>3 DEF AcceptRevocation
<1>10. QED
  BY <1>1, <1>2, <1>3, <1>4, <1>5, <1>6, <1>7, <1>8, <1>9 DEF Known

\* The consumer's receipt is recorded in the open route.
LEMMA ConfirmOuterKnown ==
    ASSUME IInv, ConfirmOuter PROVE Known'
<1> USE DEF nodes, storage, records, journals, service, At
<1>J. CommittedNow \/ NoJournal
  BY DEF IInv, Known, Storage, ControlInv, ConfirmOuter
<1>G. \/ job'.pc = "idle" /\ job'.ret = "done" /\ job'.only = "no"
      \/ /\ pending # NoIntent /\ job'.pc = "cleanup" /\ job'.phase = job.phase
         /\ job'.ret = job.ret /\ job'.only = job.only /\ job'.cand = job.cand
         /\ job'.authority = job.authority
  BY JobShape, JobFields DEF ConfirmOuter, Steps
<1>1. ControlInv'
  <2>1. At("confirm") /\ UNCHANGED <<prep, pending, compensating, accepted>>
    BY DEF ConfirmOuter
  <2>2. pending # NoIntent => CommittedNow
    BY <2>1 DEF IInv, Known, ControlInv, NoJournal
  <2>3. pending # NoIntent => CommittedNow'
    BY <2>1, <2>2 DEF CommittedNow
  <2>4. QED
    BY JobShape, <1>G, <2>3 DEF IInv, Known, ControlInv
<1>2. BeforeKept'
  <2>1. pending = NoIntent \/ accepted = pending.new
    BY <1>J DEF CommittedNow, NoJournal
  <2>2. QED
    BY <2>1 DEF BeforeKept, Uncommitted, ConfirmOuter
<1>3. FinishedInv'
  BY <1>J, <1>G DEF IInv, Known, ConfirmOuter, FinishedInv, Finished
<1>4. LastInv'
  BY <1>J, <1>G DEF IInv, Known, ConfirmOuter, LastInv, Finished
<1>5. RouteInv'
  <2>1. outer \in Outer
    BY DEF IInv, TypeInv, TypeOK
  <2>2. /\ UNCHANGED <<content, prep, pending, compensating, accepted, last, revocation>>
        /\ outer'.open = outer.open /\ outer'.receipt = outer.receipt
        /\ outer'.revocation = outer.revocation
    BY <2>1 DEF ConfirmOuter, Outer
  <2>3. QED
    BY <2>2 DEF IInv, Known, RouteInv, Carries, LastExplains, NoJournal
<1>6. RouteJob'
  <2>1. outer \in Outer
    BY DEF IInv, TypeInv, TypeOK
  <2>2. /\ UNCHANGED <<prep, pending, compensating, accepted, last, revocation, play>>
        /\ At("confirm")
        /\ outer'.open = outer.open /\ outer'.receipt = outer.receipt
        /\ outer'.revocation = outer.revocation
    BY <2>1 DEF ConfirmOuter, Outer
  <2>3. QED
    BY JobShape, <1>G, <2>2 DEF IInv, Known, RouteJob, Recovering, NoJournal
<1>7. FencedInv'
  BY <1>J, <1>G DEF IInv, Known, ConfirmOuter, FencedInv, Carries, Unfinished
<1>8. ServiceInv'
  BY DEF IInv, Known, ServiceInv, ConfirmOuter
<1>9. StandsInv'
  BY <1>J, <1>G DEF IInv, Known, ConfirmOuter, StandsInv, Stands
<1>10. QED
  BY <1>1, <1>2, <1>3, <1>4, <1>5, <1>6, <1>7, <1>8, <1>9 DEF Known

\* Cleaning an entry changes no record.
LEMMA CleanupEntryKnown ==
    ASSUME IInv, \E p \in Paths : CleanupEntry(p) PROVE Known'
<1> USE DEF nodes, storage, records, journals, service, At
<1>J. prep = NoIntent /\ pending # NoIntent /\ compensating = NoIntent
  BY DEF IInv, Known, Storage, OneJournal, ControlInv, Uncommitted, CommittedNow, NoJournal,
     CleanupEntry
<1>1. ControlInv'
  <2>1. At("cleanup") /\ UNCHANGED <<live, prep, pending, accepted, job>>
    BY DEF CleanupEntry
  <2>2. QED
    BY <1>J, <2>1 DEF IInv, Known, ControlInv, Uncommitted, CommittedNow, AllAt
<1>2. BeforeKept'
  BY <1>J DEF IInv, Known, CleanupEntry, Committed, BeforeKept, Uncommitted, Unfinished
<1>3. FinishedInv' /\ LastInv' /\ RouteInv' /\ StandsInv'
  BY RecordFrame DEF recorded, CleanupEntry
<1>4. RouteJob'
  BY <1>J DEF IInv, Known, CleanupEntry, Committed, RouteJob, Recovering, NoJournal
<1>5. FencedInv'
  BY <1>J DEF IInv, Known, CleanupEntry, Committed, FencedInv, Carries, Unfinished
<1>6. ServiceInv'
  BY DEF IInv, Known, ServiceInv, CleanupEntry
<1>7. QED
  BY <1>1, <1>2, <1>3, <1>4, <1>5, <1>6 DEF Known

\* A committed intent goes on to last.json, an undone one to its retirement.
LEMMA CleanupRecordKnown ==
    ASSUME IInv, CleanupRecord PROVE Known'
<1> USE DEF nodes, storage, records, journals, service, At
<1>J. prep = NoIntent /\ pending # NoIntent /\ compensating = NoIntent
  BY DEF IInv, Known, Storage, OneJournal, ControlInv, Uncommitted, CommittedNow, NoJournal,
     CleanupRecord
<1>G. /\ job'.pc = (IF Committed THEN "last" ELSE "retire") /\ job'.phase = job.phase
      /\ job'.ret = job.ret /\ job'.only = job.only /\ job'.cand = job.cand
      /\ job'.authority = job.authority
  BY JobShape, JobFields DEF CleanupRecord, Committed, Steps
<1>1. ControlInv'
  <2>1. /\ At("cleanup") /\ \A p \in pending.cover : Cleaned(p)
        /\ UNCHANGED <<live, before, after, rollback, prep, pending, accepted>>
        /\ accepted = pending.new => backups' = AfterBackups(pending)
    BY DEF CleanupRecord, Committed
  <2>2. CommittedNow \/ (Uncommitted /\ AllAt(pending, pending.was) /\ job.only = "no")
    BY <2>1 DEF IInv, Known, ControlInv
  <2>3. \A p \in pending'.cover : Cleaned(p)'
    BY <2>1 DEF Cleaned, Committed
  <2>4. AfterBackups(pending)' = AfterBackups(pending)
    BY <2>1 DEF AfterBackups
  <2>5. CASE accepted = pending.new
    <3>1. job'.pc = "last" /\ CommittedNow' /\ (backups = AfterBackups(pending))'
      BY <1>G, <2>1, <2>2, <2>4, <2>5 DEF CommittedNow, Uncommitted, Committed
    <3>2. QED
      BY JobShape, <1>G, <2>3, <3>1 DEF IInv, Known, ControlInv
  <2>6. CASE accepted # pending.new
    <3>1. job'.pc = "retire" /\ Uncommitted' /\ AllAt(pending, pending.was)' /\ job'.only = "no"
      BY <1>G, <2>1, <2>2, <2>6 DEF CommittedNow, Uncommitted, Committed, AllAt
    <3>2. QED
      BY JobShape, <1>G, <2>3, <3>1 DEF IInv, Known, ControlInv
  <2>7. QED
    BY <2>5, <2>6
<1>2. BeforeKept'
  BY <1>J, <1>G DEF IInv, Known, CleanupRecord, Committed, BeforeKept, Uncommitted, Unfinished
<1>3. FinishedInv' /\ LastInv' /\ RouteInv' /\ StandsInv'
  BY RecordFrame DEF recorded, CleanupRecord
<1>4. RouteJob'
  BY <1>J, <1>G DEF IInv, Known, CleanupRecord, Committed, RouteJob, Recovering, NoJournal
<1>5. FencedInv'
  BY <1>J, <1>G DEF IInv, Known, CleanupRecord, Committed, FencedInv, Carries, Unfinished
<1>6. ServiceInv'
  BY DEF IInv, Known, ServiceInv, CleanupRecord
<1>7. QED
  BY <1>1, <1>2, <1>3, <1>4, <1>5, <1>6 DEF Known

\* last.json explains how the accepted receipt came to be.
LEMMA CleanupLastKnown ==
    ASSUME IInv, CleanupLast PROVE Known'
<1> USE DEF nodes, storage, records, journals, service, At
<1>J. prep = NoIntent /\ pending # NoIntent /\ compensating = NoIntent
  BY DEF IInv, Known, Storage, OneJournal, ControlInv, Uncommitted, CommittedNow, NoJournal,
     CleanupLast
<1>G. \/ job'.pc = "idle" /\ job'.ret = "done" /\ job'.only = "no"
      \/ /\ last' = pending /\ job'.pc = "retire" /\ job'.phase = job.phase
         /\ job'.ret = job.ret /\ job'.only = job.only /\ job'.cand = job.cand
         /\ job'.authority = job.authority
  BY JobShape, JobFields DEF CleanupLast, Steps
<1>1. ControlInv'
  <2>1. /\ At("last")
        /\ UNCHANGED <<live, before, after, rollback, prep, pending, accepted, backups>>
    BY DEF CleanupLast
  <2>2. CommittedNow /\ backups = AfterBackups(pending) /\ \A p \in pending.cover : Cleaned(p)
    BY <2>1 DEF IInv, Known, ControlInv
  <2>3. /\ CommittedNow' /\ (backups = AfterBackups(pending))' /\ \A p \in pending'.cover : Cleaned(p)'
    BY <2>1, <2>2 DEF CommittedNow, AfterBackups, Cleaned, Committed
  <2>4. QED
    BY JobShape, <1>G, <2>1, <2>3 DEF IInv, Known, ControlInv
<1>2. BeforeKept'
  <2>1. pending = NoIntent \/ accepted = pending.new
    BY <1>J DEF CommittedNow, NoJournal, IInv, Known, ControlInv, CleanupLast
  <2>2. QED
    BY <2>1 DEF BeforeKept, Uncommitted, CleanupLast
<1>3. FinishedInv'
  BY <1>J, <1>G DEF IInv, Known, CleanupLast, FinishedInv, Finished
<1>4. LastInv'
  <2>1. accepted = pending.new /\ UNCHANGED <<pending, compensating, accepted>>
    BY DEF CleanupLast, IInv, Known, ControlInv, CommittedNow
  <2>2. QED
    BY <1>J, <2>1 DEF LastInv
<1>5. RouteInv'
  BY <1>J, <1>G DEF IInv, Known, CleanupLast, RouteInv, Carries, LastExplains, NoJournal
<1>6. RouteJob'
  BY <1>J, <1>G DEF IInv, Known, CleanupLast, RouteJob, Recovering, NoJournal
<1>7. FencedInv'
  BY <1>J, <1>G DEF IInv, Known, CleanupLast, FencedInv, Carries, Unfinished
<1>8. ServiceInv'
  BY DEF IInv, Known, ServiceInv, CleanupLast
<1>9. StandsInv'
  BY <1>J, <1>G DEF IInv, Known, CleanupLast, StandsInv, Stands
<1>10. QED
  BY <1>1, <1>2, <1>3, <1>4, <1>5, <1>6, <1>7, <1>8, <1>9 DEF Known

\* A retired intent leaves what it committed, or what it undid, explained.
LEMMA CleanupPendingKnown ==
    ASSUME IInv, CleanupPending PROVE Known'
<1> USE DEF nodes, storage, records, journals, service, At
<1>J. prep = NoIntent /\ pending # NoIntent /\ compensating = NoIntent
  BY DEF IInv, Known, Storage, OneJournal, ControlInv, Uncommitted, CommittedNow, NoJournal,
     CleanupPending
<1>G. \/ job'.pc = "idle" /\ job'.ret = "done" /\ job'.only = "no"
      \/ /\ job.ret # "done" /\ job'.pc = job.ret /\ job'.phase = "main" /\ job'.ret = job.ret
         /\ job'.only = job.only /\ job'.cand = job.cand /\ job'.authority = job.authority
      \/ /\ job.phase = "recover" /\ job.only = "yes" /\ job'.pc = "compensate"
         /\ job'.phase = job.phase /\ job'.ret = job.ret /\ job'.only = job.only
         /\ job'.cand = job.cand /\ job'.authority = job.authority
  <2>1. \/ Done \/ Return
        \/ job.phase # "main" /\ job.only # "no" /\ Goto("compensate")
    BY DEF CleanupPending
  <2>2. job.phase \in {"main", "recover"} /\ job.only \in {"no", "yes"} /\ "compensate" \in Steps
    BY JobShape DEF Job, Steps
  <2>3. QED
    BY JobShape, <2>1, <2>2, JobFields
<1>1. ControlInv'
  <2>1. /\ At("retire") /\ pending' = NoIntent /\ prep' = NoIntent
        /\ UNCHANGED <<compensating, last>>
    BY <1>J DEF CleanupPending
  <2>2. CASE job'.pc # "compensate"
    BY JobShape, <1>G, <2>1, <2>2 DEF IInv, Known, ControlInv
  <2>3. CASE job'.pc = "compensate"
    <3>1. /\ CommittedNow /\ backups = AfterBackups(pending) /\ last = pending
      BY JobShape, <1>G, <2>1, <2>3 DEF IInv, Known, ControlInv
    <3>2. CompensationHoldsFor(last, TRUE)' /\ last' # NoIntent
      BY <1>J, <2>1, <3>1, CompensableAfterCleanup
    <3>3. QED
      BY JobShape, <1>G, <2>1, <2>3, <3>2 DEF IInv, Known, ControlInv
  <2>4. QED
    BY <2>2, <2>3
<1>2. BeforeKept'
  BY <1>J, <1>G DEF IInv, Known, CleanupPending, BeforeKept, Uncommitted, Unfinished
<1>3. FinishedInv'
  BY <1>J, <1>G DEF IInv, Known, CleanupPending, FinishedInv, Finished
<1>4. LastInv'
  <2>1. UNCHANGED <<compensating, last, accepted, revocation>> /\ pending' = NoIntent
    BY DEF CleanupPending
  <2>2. accepted = pending.new => last = pending
    BY DEF CleanupPending, IInv, Known, ControlInv, Uncommitted
  <2>3. QED
    BY <1>J, <2>1, <2>2 DEF IInv, Known, LastInv, FinishedInv, Finished
<1>5. RouteInv'
  <2>1. /\ UNCHANGED <<content, prep, compensating, accepted, last, revocation, outer>>
        /\ pending' = NoIntent
    BY DEF CleanupPending
  <2>2. CASE accepted = pending.new
    <3>1. last = pending
      BY <2>2 DEF CleanupPending, IInv, Known, ControlInv, Uncommitted
    <3>2. QED
      BY <1>J, <2>1, <2>2, <3>1 DEF IInv, Known, RouteInv, Carries, LastExplains, NoJournal
  <2>3. CASE accepted # pending.new
    <3>1. accepted = pending.old
      BY <1>J, <2>3 DEF IInv, Storage, PendingInv, JournalHolds
    <3>2. QED
      BY <1>J, <2>1, <3>1 DEF IInv, Known, RouteInv, Carries, LastExplains, NoJournal
  <2>4. QED
    BY <2>2, <2>3
<1>6. RouteJob'
  <2>1. /\ At("retire") /\ ~ NoJournal
        /\ UNCHANGED <<compensating, accepted, last, revocation, outer, play>>
    BY <1>J DEF CleanupPending, NoJournal
  <2>2. CASE job'.pc # "compensate"
    <3>1. job.ret # "recovered" \/ job.phase = "recover" \/ job'.pc = "idle"
      <4>1. job.phase \in {"main", "recover"}
        BY JobShape DEF Job
      <4>2. job.phase = "main" => Done
        BY DEF CleanupPending
      <4>3. QED
        BY JobShape, <4>1, <4>2, JobFields
    <3>2. QED
      BY JobShape, <1>G, <2>1, <2>2, <3>1 DEF IInv, Known, RouteJob, Recovering
  <2>3. CASE job'.pc = "compensate"
    <3>1. job.only = "yes"
      BY JobShape, <1>G, <2>1, <2>3 DEF IInv, Known, ControlInv
    <3>2. last = pending
      BY <2>1, <3>1 DEF IInv, Known, ControlInv
    <3>3. last.new # revocation.receipt
      <4>1. Done \/ Return \/ last.new # revocation.receipt
        BY DEF CleanupPending
      <4>2. QED
        BY JobShape, <2>3, <4>1, JobFields
    <3>4. outer.open = "yes" => pending.old = outer.receipt
      BY <1>J DEF IInv, Known, RouteInv
    <3>5. QED
      BY JobShape, <1>G, <2>1, <2>3, <3>1, <3>2, <3>3, <3>4 DEF IInv, Known, RouteJob, Recovering
  <2>4. QED
    BY <2>2, <2>3
<1>7. FencedInv'
  <2>1. /\ UNCHANGED <<content, prep, compensating, revocation>> /\ pending' = NoIntent
        /\ At("retire")
    BY DEF CleanupPending
  <2>2. job'.pc = "compensate" => ~ Unfinished(revocation)
    <3>1. job'.pc = "compensate" => job.only = "yes"
      BY JobShape, <1>G, <2>1 DEF IInv, Known, ControlInv
    <3>2. QED
      BY <2>1, <3>1 DEF IInv, Known, RouteJob, FencedInv, Unfinished
  <2>3. QED
    BY JobShape, <1>G, <2>1, <2>2 DEF IInv, Known, FencedInv, Carries, Unfinished
<1>8. ServiceInv'
  BY DEF IInv, Known, ServiceInv, CleanupPending
<1>9. StandsInv'
  <2>1. /\ UNCHANGED <<live, staged, prep, compensating, last, accepted, revocation>>
        /\ pending' = NoIntent
    BY DEF CleanupPending
  <2>2. accepted = pending.new => last = pending
    BY DEF CleanupPending, IInv, Known, ControlInv, Uncommitted
  <2>3. QED
    BY <1>J, <2>1, <2>2 DEF IInv, Known, StandsInv, Stands
<1>10. QED
  BY <1>1, <1>2, <1>3, <1>4, <1>5, <1>6, <1>7, <1>8, <1>9 DEF Known

\* The first receipt is adopted where nothing was accepted and nothing is fenced.
LEMMA AdoptKnown ==
    ASSUME IInv, Adopt PROVE Known'
<1> USE DEF nodes, storage, records, journals, service, At
<1>G. job'.pc = "idle" /\ job'.ret = "done" /\ job'.only = "no"
  BY JobShape, JobFields DEF Adopt, Steps
<1>1. ControlInv'
  BY <1>G DEF IInv, Known, Adopt, ControlInv, Uncommitted, CommittedNow, NoJournal, AllAt,
     Cleaned, Committed, AfterBackups, CompensatedBackups
<1>2. BeforeKept'
  BY <1>G DEF IInv, Known, Adopt, BeforeKept, Uncommitted, Unfinished
<1>3. FinishedInv'
  BY <1>G DEF IInv, Known, Adopt, FinishedInv, Finished
<1>4. LastInv'
  <2>1. UNCHANGED <<pending, compensating, last, revocation>>
    BY DEF Adopt
  <2>2. CASE UNCHANGED accepted
    BY <2>1, <2>2 DEF IInv, Known, LastInv, Finished
  <2>3. CASE accepted = NoReceipt /\ NoJournal
    <3>1. last # NoIntent => last.new # NoReceipt
      BY DEF IInv, Storage, IntentsInv, WellFormed, NoReceipt
    <3>2. last = NoIntent
      BY <2>3, <3>1 DEF IInv, Known, LastInv, NoJournal
    <3>3. QED
      BY <2>1, <2>3, <3>2 DEF LastInv, NoJournal
  <2>4. QED
    BY <2>2, <2>3 DEF Adopt
<1>5. RouteInv'
  <2>1. /\ UNCHANGED <<content, prep, pending, compensating, last, revocation, outer>>
        /\ (accepted = NoReceipt /\ ~ Unfinished(revocation)) \/ UNCHANGED accepted
    BY DEF Adopt
  <2>2. outer.open = "yes" => revocation.authority # None
    BY DEF Adopt, IInv, Known, RouteJob, RouteInv
  <2>3. outer.open = "yes" => UNCHANGED accepted
    BY <2>1, <2>2 DEF IInv, Known, FinishedInv, Finished, Unfinished
  <2>4. QED
    BY <2>1, <2>3 DEF IInv, Known, RouteInv, Carries, LastExplains, NoJournal
<1>6. RouteJob'
  <2>1. /\ UNCHANGED <<prep, pending, compensating, last, revocation, outer, play>>
        /\ (accepted = NoReceipt /\ ~ Unfinished(revocation)) \/ UNCHANGED accepted
    BY DEF Adopt
  <2>2. outer.open = "yes" => revocation.authority # None
    BY DEF Adopt, IInv, Known, RouteJob, RouteInv
  <2>3. outer.open = "yes" => UNCHANGED accepted
    BY <2>1, <2>2 DEF IInv, Known, FinishedInv, Finished, Unfinished
  <2>4. QED
    BY <1>G, <2>1, <2>3 DEF IInv, Known, RouteJob, NoJournal
<1>7. FencedInv'
  BY <1>G DEF IInv, Known, Adopt, FencedInv, Carries, Unfinished
<1>8. ServiceInv'
  BY DEF IInv, Known, ServiceInv, Adopt
<1>9. StandsInv'
  <2>1. UNCHANGED <<live, staged, prep, pending, compensating, last, revocation>>
    BY DEF Adopt
  <2>2. CASE UNCHANGED accepted
    BY <2>1, <2>2 DEF IInv, Known, StandsInv, Stands
  <2>3. CASE accepted = NoReceipt /\ NoJournal
    BY <2>1, <2>3 DEF IInv, Known, StandsInv, Stands, NoJournal
  <2>4. QED
    BY <2>2, <2>3 DEF Adopt
<1>10. QED
  BY <1>1, <1>2, <1>3, <1>4, <1>5, <1>6, <1>7, <1>8, <1>9 DEF Known

\* An aborted operation leaves its journals for the next one.
LEMMA AbortKnown ==
    ASSUME IInv, Abort PROVE Known'
<1> USE DEF nodes, storage, records, journals, service, At
<1>G. job'.pc = "idle" /\ job'.ret = "done" /\ job'.only = "no"
  BY JobShape, JobFields DEF Abort, Steps
<1>1. ControlInv'
  BY <1>G DEF IInv, Known, Abort, ControlInv, Uncommitted, CommittedNow, NoJournal, AllAt,
     Cleaned, Committed, AfterBackups, CompensatedBackups
<1>2. BeforeKept'
  BY <1>G DEF IInv, Known, Abort, BeforeKept, Uncommitted, Unfinished
<1>3. FinishedInv' /\ LastInv' /\ RouteInv' /\ StandsInv'
  BY RecordFrame DEF recorded, Abort
<1>4. RouteJob'
  BY <1>G DEF IInv, Known, Abort, RouteJob, Recovering, NoJournal
<1>5. FencedInv'
  BY <1>G DEF IInv, Known, Abort, FencedInv, Carries, Unfinished
<1>6. ServiceInv'
  BY DEF IInv, Known, ServiceInv, Abort, Halt
<1>7. QED
  BY <1>1, <1>2, <1>3, <1>4, <1>5, <1>6 DEF Known

\* apply() arms its revocation before it touches anything, and only where none is owned by another.
LEMMA ApplyStartKnown ==
    ASSUME IInv, \E c \in Candidate, a \in Authority : ApplyStart(c, a) PROVE Known'
<1> USE DEF nodes, storage, records, journals, service, At
<1>1. ControlInv'
  <2>1. PICK c \in Candidate, a \in Authority : ApplyStart(c, a)
    OBVIOUS
  <2>2. Extended(c, a) \in Candidate
    BY ExtendedShape DEF IInv, TypeInv
  <2>3. /\ job'.pc \in {"armed", "recover"} /\ job'.ret = "recovered"
        /\ job'.cand = Extended(c, a)
    BY <2>1 DEF ApplyStart, Open, Idle
  <2>4. QED
    BY <2>2, <2>3 DEF ControlInv
<1>2. BeforeKept'
  <2>1. /\ UNCHANGED <<prep, pending, before, accepted>>
        /\ job'.pc \in {"armed", "recover", "begin"}
    BY DEF ApplyStart, Open, Idle
  <2>2. Uncommitted /\ Unfinished(revocation)' => Unfinished(revocation)
    BY ArmingStep DEF Uncommitted, NoJournal, Unfinished
  <2>3. QED
    BY <2>1, <2>2 DEF IInv, Known, BeforeKept, Uncommitted
<1>3. FinishedInv'
  <2>1. UNCHANGED <<pending, compensating, accepted>>
    BY DEF ApplyStart
  <2>2. Finished' => /\ Finished /\ revocation'.receipt = revocation.receipt
                     /\ revocation'.plan # NoPlan
    BY ArmingStep DEF Finished, IInv, Known, FinishedInv
  <2>3. QED
    BY <2>1, <2>2 DEF IInv, Known, FinishedInv
<1>4. LastInv'
  <2>1. UNCHANGED <<pending, compensating, last, accepted>>
    BY DEF ApplyStart
  <2>2. Finished' => Finished /\ revocation'.receipt = revocation.receipt
    BY ArmingStep DEF Finished
  <2>3. QED
    BY <2>1, <2>2 DEF IInv, Known, LastInv
<1>5. RouteInv'
  <2>1. PICK c \in Candidate, a \in Authority : ApplyStart(c, a)
    OBVIOUS
  <2>2. /\ UNCHANGED <<content, prep, pending, compensating, accepted, last, outer>>
        /\ outer.open = "yes" => a = outer.revocation
    BY <2>1 DEF ApplyStart, MayApply, MayRecover
  <2>3. Extended(c, a) \in Candidate
    BY ExtendedShape DEF IInv, TypeInv
  <2>4. CASE outer.open = "yes" /\ outer.revocation # None
    <3>1. revocation.authority = a /\ a # None
      BY <2>2, <2>4 DEF IInv, Known, RouteInv
    <3>2. revocation'.authority = a /\ (revocation.plan # NoPlan => revocation'.plan = revocation.plan)
      BY <2>1, <2>3, <3>1, ArmedRevocation DEF ApplyStart, IInv
    <3>3. QED
      BY <2>2, <2>4, <3>1, <3>2 DEF IInv, Known, RouteInv, Carries, LastExplains, NoJournal
  <2>5. CASE outer.open # "yes" \/ outer.revocation = None
    BY <2>2, <2>5 DEF IInv, Known, RouteInv, LastExplains, NoJournal
  <2>6. QED
    BY <2>4, <2>5
<1>6. RouteJob'
  <2>1. PICK c \in Candidate, a \in Authority : ApplyStart(c, a)
    OBVIOUS
  <2>2. /\ UNCHANGED <<prep, pending, compensating, accepted, outer>> /\ play' = "no"
        /\ job'.pc \in {"armed", "recover"} /\ job'.ret = "recovered" /\ job'.only = "no"
        /\ job'.authority = a /\ job'.cand = Extended(c, a)
    BY <2>1 DEF ApplyStart, Open, Idle
  <2>3. outer.open = "yes" => a = outer.revocation /\ (a = None => play = "yes")
    BY <2>1 DEF ApplyStart, MayApply, MayRecover
  <2>4. a # None => revocation'.authority = a /\ revocation'.plan = Extended(c, a)
    <3>1. Extended(c, a) \in Candidate
      BY ExtendedShape DEF IInv, TypeInv
    <3>2. Extended(c, a) # NoPlan
      BY <3>1 DEF Candidate, NoPlan
    <3>3. QED
      BY <2>1, <3>1, <3>2, ArmedRevocation DEF ApplyStart, IInv
  <2>5. QED
    BY <2>2, <2>3, <2>4 DEF IInv, Known, RouteJob, NoJournal
<1>7. FencedInv'
  <2>1. PICK c \in Candidate, a \in Authority : ApplyStart(c, a)
    OBVIOUS
  <2>2. /\ UNCHANGED <<content, prep, pending, compensating>>
        /\ job'.pc \in {"armed", "recover"} /\ job'.ret = "recovered" /\ job'.authority = a
    BY <2>1 DEF ApplyStart, Open, Idle
  <2>3. Unfinished(revocation)' => revocation'.authority = a
    <3>1. ArmAllowed(a, Extended(c, a)) /\ revocation' = Armed(a, Extended(c, a))
      BY <2>1 DEF ApplyStart
    <3>2. Extended(c, a) \in Candidate
      BY ExtendedShape DEF IInv, TypeInv
    <3>3. a # None => revocation'.authority = a
      BY <3>1, <3>2, ArmedRevocation DEF IInv
    <3>4. a = None => revocation' = revocation /\ (Unfinished(revocation) => revocation.authority = a)
      BY <3>1 DEF Armed, ArmAllowed, OwnerOf
    <3>5. QED
      BY <3>3, <3>4 DEF Unfinished
  <2>4. \/ NoJournal
        \/ /\ Unfinished(revocation)' => Unfinished(revocation)
           /\ revocation.plan # NoPlan => revocation'.plan = revocation.plan
    BY ArmingStep DEF Unfinished
  <2>5. QED
    BY <2>2, <2>3, <2>4 DEF IInv, Known, FencedInv, Carries, NoJournal
<1>8. ServiceInv'
  BY DEF IInv, Known, ServiceInv, ApplyStart
<1>9. StandsInv'
  <2>1. UNCHANGED <<live, staged, prep, pending, compensating, last, accepted>>
    BY DEF ApplyStart
  <2>2. CASE revocation'.receipt = revocation.receipt
    BY <2>1, <2>2 DEF IInv, Known, StandsInv, Stands
  <2>3. CASE revocation'.receipt = NoReceipt
    <3>1. \A q \in Paths : revocation'.receipt.nodes[q] = Unclaimed /\ Unclaimed <= staged
      BY <2>3, NodeNumbers, ReceiptNumbers DEF IInv, Unclaimed
    <3>2. \A v \in {prep, pending, compensating, last} : v.cover \subseteq Paths
      BY StoreShapes
    <3>3. QED
      BY <2>1, <3>1, <3>2 DEF StandsInv, Stands
  <2>4. QED
    BY <2>2, <2>3, ArmingStep
<1>10. QED
  BY <1>1, <1>2, <1>3, <1>4, <1>5, <1>6, <1>7, <1>8, <1>9 DEF Known

\* A recovery is admitted for the owner of an unfinished revocation only.
LEMMA RecoverStartKnown ==
    ASSUME IInv, \E a \in Authority : RecoverStart(a) PROVE Known'
<1> USE DEF nodes, storage, records, journals, service, At
<1>1. ControlInv'
  BY DEF IInv, Known, RecoverStart, Open, Idle, ControlInv, Uncommitted, CommittedNow,
     NoJournal, AllAt, Cleaned, Committed, AfterBackups, CompensatedBackups
<1>2. BeforeKept'
  BY DEF IInv, Known, RecoverStart, Open, Idle, BeforeKept, Uncommitted, Unfinished
<1>3. FinishedInv' /\ LastInv' /\ RouteInv' /\ StandsInv'
  BY RecordFrame DEF recorded, RecoverStart
<1>4. RouteJob'
  <2>1. PICK a \in Authority : RecoverStart(a)
    OBVIOUS
  <2>2. /\ UNCHANGED <<prep, pending, compensating, accepted, outer, play>>
        /\ job'.pc = "recover" /\ job'.ret = "adopt" /\ job'.only = "no" /\ job'.authority = a
    BY <2>1 DEF RecoverStart, Open, Idle
  <2>3. outer.open = "yes" => a = outer.revocation /\ a # None
    BY <2>1 DEF RecoverStart, MayRecover
  <2>4. QED
    BY <2>2, <2>3 DEF IInv, Known, RouteJob, NoJournal
<1>5. FencedInv'
  <2>1. PICK a \in Authority : RecoverStart(a)
    OBVIOUS
  <2>2. /\ UNCHANGED <<content, prep, pending, compensating, revocation>>
        /\ job'.pc = "recover" /\ job'.ret = "adopt" /\ job'.authority = a
    BY <2>1 DEF RecoverStart, Open, Idle
  <2>3. Unfinished(revocation) => revocation.authority = a
    BY <2>1 DEF RecoverStart, OwnerOf
  <2>4. QED
    BY <2>2, <2>3 DEF IInv, Known, FencedInv, Carries, Unfinished
<1>6. ServiceInv'
  BY DEF IInv, Known, ServiceInv, RecoverStart
<1>7. QED
  BY <1>1, <1>2, <1>3, <1>4, <1>5, <1>6 DEF Known

\* A route arms its revocation on a host with no journal.
LEMMA OuterBeginKnown ==
    ASSUME IInv, \E a \in Authority : OuterBegin(a) PROVE Known'
<1> USE DEF nodes, storage, records, journals, service, At
<1>1. ControlInv'
  BY DEF IInv, Known, OuterBegin, Open, Idle, ControlInv, Uncommitted, CommittedNow, NoJournal,
     AllAt, Cleaned, Committed, AfterBackups, CompensatedBackups
<1>2. BeforeKept'
  <2>1. /\ UNCHANGED <<prep, pending, before, accepted>>
        /\ job'.pc \in {"armed", "recover", "begin"}
    BY DEF OuterBegin, Open, Idle
  <2>2. Uncommitted /\ Unfinished(revocation)' => Unfinished(revocation)
    BY ArmingStep DEF Uncommitted, NoJournal, Unfinished
  <2>3. QED
    BY <2>1, <2>2 DEF IInv, Known, BeforeKept, Uncommitted
<1>3. FinishedInv'
  <2>1. UNCHANGED <<pending, compensating, accepted>>
    BY DEF OuterBegin
  <2>2. Finished' => /\ Finished /\ revocation'.receipt = revocation.receipt
                     /\ revocation'.plan # NoPlan
    BY ArmingStep DEF Finished, IInv, Known, FinishedInv
  <2>3. QED
    BY <2>1, <2>2 DEF IInv, Known, FinishedInv
<1>4. LastInv'
  <2>1. UNCHANGED <<pending, compensating, last, accepted>>
    BY DEF OuterBegin
  <2>2. Finished' => Finished /\ revocation'.receipt = revocation.receipt
    BY ArmingStep DEF Finished
  <2>3. QED
    BY <2>1, <2>2 DEF IInv, Known, LastInv
<1>5. RouteInv'
  BY DEF IInv, Known, OuterBegin, Open, Idle, RouteInv, Carries, LastExplains, NoJournal
<1>6. RouteJob'
  <2>1. PICK a \in Authority : OuterBegin(a)
    OBVIOUS
  <2>2. /\ UNCHANGED <<prep, pending, compensating, accepted, outer, play>> /\ NoJournal
        /\ outer.open = "no"
        /\ job'.pc = "begin" /\ job'.ret = "done" /\ job'.only = "no" /\ job'.authority = a
    BY <2>1 DEF OuterBegin, Open, Idle
  <2>3. a # None => revocation'.authority = a
    BY <2>1, ArmedRevocation DEF OuterBegin, IInv
  <2>4. QED
    BY <2>2, <2>3 DEF IInv, Known, RouteJob, NoJournal
<1>7. FencedInv'
  <2>1. PICK a \in Authority : OuterBegin(a)
    OBVIOUS
  <2>2. /\ UNCHANGED <<prep, pending, compensating>> /\ NoJournal
        /\ job'.pc = "begin" /\ job'.ret = "done" /\ job'.authority = a
    BY <2>1 DEF OuterBegin, Open, Idle
  <2>3. Unfinished(revocation)' => revocation'.authority = a
    <3>1. ArmAllowed(a, NoPlan) /\ revocation' = Armed(a, NoPlan)
      BY <2>1 DEF OuterBegin
    <3>2. a # None => revocation'.authority = a
      BY <3>1, ArmedRevocation DEF IInv
    <3>3. a = None => revocation' = revocation /\ (Unfinished(revocation) => revocation.authority = a)
      BY <3>1 DEF Armed, ArmAllowed, OwnerOf
    <3>4. QED
      BY <3>2, <3>3 DEF Unfinished
  <2>4. QED
    BY <2>2, <2>3 DEF FencedInv, NoJournal
<1>8. ServiceInv'
  BY DEF IInv, Known, ServiceInv, OuterBegin
<1>9. StandsInv'
  <2>1. UNCHANGED <<live, staged, prep, pending, compensating, last, accepted>>
    BY DEF OuterBegin
  <2>2. CASE revocation'.receipt = revocation.receipt
    BY <2>1, <2>2 DEF IInv, Known, StandsInv, Stands
  <2>3. CASE revocation'.receipt = NoReceipt
    <3>1. \A q \in Paths : revocation'.receipt.nodes[q] = Unclaimed /\ Unclaimed <= staged
      BY <2>3, NodeNumbers, ReceiptNumbers DEF IInv, Unclaimed
    <3>2. \A v \in {prep, pending, compensating, last} : v.cover \subseteq Paths
      BY StoreShapes
    <3>3. QED
      BY <2>1, <3>1, <3>2 DEF StandsInv, Stands
  <2>4. QED
    BY <2>2, <2>3, ArmingStep
<1>10. QED
  BY <1>1, <1>2, <1>3, <1>4, <1>5, <1>6, <1>7, <1>8, <1>9 DEF Known

\* Finishing a route needs nothing more to be explained.
LEMMA OuterFinishKnown ==
    ASSUME IInv, \E a \in Authority : OuterFinish(a) PROVE Known'
<1> USE DEF nodes, storage, records, journals, service, At
<1>1. ControlInv'
  BY DEF IInv, Known, OuterFinish, ControlInv, Uncommitted, CommittedNow, NoJournal, AllAt,
     Cleaned, Committed, AfterBackups, CompensatedBackups
<1>2. BeforeKept'
  BY DEF IInv, Known, OuterFinish, BeforeKept, Uncommitted, Unfinished
<1>3. FinishedInv'
  BY DEF IInv, Known, OuterFinish, FinishedInv, Finished
<1>4. LastInv'
  BY DEF IInv, Known, OuterFinish, LastInv, Finished
<1>5. RouteInv'
  BY DEF RouteInv, OuterFinish, NoOuter
<1>6. RouteJob'
  <2>1. /\ At("idle") /\ UNCHANGED <<revocation, job>> /\ outer'.open = "no" /\ play' = "no"
    BY DEF OuterFinish, NoOuter
  <2>2. QED
    BY <2>1 DEF IInv, Known, RouteJob
<1>7. FencedInv'
  BY DEF IInv, Known, OuterFinish, FencedInv, Carries, Unfinished
<1>8. ServiceInv'
  BY DEF IInv, Known, ServiceInv, OuterFinish
<1>9. StandsInv'
  BY DEF IInv, Known, OuterFinish, StandsInv, Stands
<1>10. QED
  BY <1>1, <1>2, <1>3, <1>4, <1>5, <1>6, <1>7, <1>8, <1>9 DEF Known

\* A compensation is admitted outside a fence and never of an accepted revocation.
LEMMA CompensateStartKnown ==
    ASSUME IInv, CompensateStart PROVE Known'
<1> USE DEF nodes, storage, records, journals, service, At
<1>1. ControlInv'
  <2>1. /\ prep = NoIntent /\ pending = NoIntent /\ UNCHANGED stored
        /\ job'.pc = "compensate" /\ job'.ret = "done"
    BY DEF CompensateStart, MayCompensate, Open, Idle, stored
  <2>2. compensating = NoIntent => last # NoIntent /\ CompensationHoldsFor(last, TRUE)
    BY DEF CompensateStart, MayCompensate
  <2>3. compensating' = NoIntent => last' # NoIntent /\ CompensationHoldsFor(last, TRUE)'
    BY <2>1, <2>2, CompensableFrame DEF stored
  <2>4. QED
    BY <2>1, <2>3 DEF ControlInv, stored
<1>2. BeforeKept'
  BY DEF IInv, Known, CompensateStart, Open, Idle, MayCompensate, BeforeKept, Uncommitted,
     Unfinished
<1>3. FinishedInv' /\ LastInv' /\ RouteInv' /\ StandsInv'
  BY RecordFrame DEF recorded, CompensateStart
<1>4. RouteJob'
  BY DEF IInv, Known, CompensateStart, Open, Idle, MayCompensate, RouteJob, Recovering, NoJournal
<1>5. FencedInv'
  BY DEF IInv, Known, CompensateStart, Open, Idle, MayCompensate, FencedInv, Carries, Unfinished
<1>6. ServiceInv'
  BY DEF IInv, Known, ServiceInv, CompensateStart
<1>7. QED
  BY <1>1, <1>2, <1>3, <1>4, <1>5, <1>6 DEF Known

\* outer restore undoes the route's own step only.
LEMMA OuterRestoreKnown ==
    ASSUME IInv, OuterRestore PROVE Known'
<1> USE DEF nodes, storage, records, journals, service, At
<1>1. ControlInv'
  <2>1. UNCHANGED stored /\ job'.pc \in {"recover", "compensate"} /\ job'.ret = "done"
    BY DEF OuterRestore, Open, Idle, stored
  <2>2. job'.pc = "compensate" =>
          NoJournal /\ last # NoIntent /\ CompensationHoldsFor(last, TRUE)
    BY DEF OuterRestore, MayCompensate, Open, Idle, NoJournal
  <2>3. job'.pc = "compensate" => CompensationHoldsFor(last, TRUE)'
    BY <2>1, <2>2, CompensableFrame
  <2>4. QED
    BY <2>1, <2>2, <2>3 DEF ControlInv, stored, NoJournal
<1>2. BeforeKept'
  <2>1. /\ UNCHANGED <<before, prep, pending, accepted, revocation>> /\ ~ Unfinished(revocation)
        /\ job'.pc \in {"recover", "compensate"}
    BY DEF OuterRestore, OrdinaryRoute, Open, Idle
  <2>2. QED
    BY <2>1 DEF BeforeKept, Uncommitted, Unfinished
<1>3. FinishedInv' /\ LastInv' /\ RouteInv' /\ StandsInv'
  BY RecordFrame DEF recorded, OuterRestore
<1>4. RouteJob'
  <2>1. /\ UNCHANGED <<prep, pending, compensating, accepted, last, revocation, outer>>
        /\ play' = "no"
        /\ outer.open = "yes" /\ outer.revocation = None
        /\ job'.pc \in {"recover", "compensate"} /\ job'.ret = "done" /\ job'.only = "yes"
        /\ job'.authority = None
    BY DEF OuterRestore, OrdinaryRoute, Open, Idle
  <2>2. job'.pc = "compensate" => last.old = outer.receipt /\ last.new # revocation.receipt
    BY DEF OuterRestore, LastExplains, MayCompensate, Open, Idle
  <2>3. QED
    BY <2>1, <2>2 DEF RouteJob
<1>5. FencedInv'
  BY DEF IInv, Known, OuterRestore, Open, Idle, MayCompensate, OrdinaryRoute, FencedInv,
     Carries, Unfinished
<1>6. ServiceInv'
  BY DEF IInv, Known, ServiceInv, OuterRestore
<1>7. QED
  BY <1>1, <1>2, <1>3, <1>4, <1>5, <1>6 DEF Known

\* outer recover is admitted in an ordinary route with no fence.
LEMMA OuterRecoverKnown ==
    ASSUME IInv, OuterRecover PROVE Known'
<1> USE DEF nodes, storage, records, journals, service, At
<1>1. ControlInv'
  BY DEF IInv, Known, OuterRecover, Open, Idle, OrdinaryRoute, ControlInv, Uncommitted,
     CommittedNow, NoJournal, AllAt, Cleaned, Committed, AfterBackups, CompensatedBackups
<1>2. BeforeKept'
  BY DEF IInv, Known, OuterRecover, Open, Idle, OrdinaryRoute, BeforeKept, Uncommitted, Unfinished
<1>3. FinishedInv' /\ LastInv' /\ RouteInv' /\ StandsInv'
  BY RecordFrame DEF recorded, OuterRecover
<1>4. RouteJob'
  BY DEF IInv, Known, OuterRecover, Open, Idle, OrdinaryRoute, RouteJob, Recovering, NoJournal
<1>5. FencedInv'
  BY DEF IInv, Known, OuterRecover, Open, Idle, OrdinaryRoute, FencedInv, Carries, Unfinished
<1>6. ServiceInv'
  BY DEF IInv, Known, ServiceInv, OuterRecover
<1>7. QED
  BY <1>1, <1>2, <1>3, <1>4, <1>5, <1>6 DEF Known

\* A failure hands the journals to recover(), or leaves them under the fence.
LEMMA FaultKnown ==
    ASSUME IInv, Fault PROVE Known'
<1> USE DEF nodes, storage, records, journals, service, At
<1>G. \/ job'.pc = "idle" /\ job'.ret = "done" /\ job'.only = "no"
      \/ /\ job'.pc = "abort" /\ job'.phase = job.phase /\ job'.ret = job.ret
         /\ job'.only = job.only /\ job'.cand = job.cand /\ job'.authority = job.authority
      \/ job.pc \in Guarded /\ job'.pc = "recover" /\ job'.ret = "done" /\ job'.only = job.only
         /\ job'.authority = job.authority
  <2>1. \/ Done \/ Goto("abort")
        \/ job.pc \in Guarded /\ job' = [job EXCEPT !.pc = "recover", !.phase = "recover",
                                              !.ret = "done"]
    BY DEF Fault
  <2>2. "abort" \in Steps
    BY DEF Steps
  <2>3. QED
    BY JobShape, <2>1, <2>2, JobFields DEF Job
<1>1. ControlInv'
  BY <1>G DEF IInv, Known, Fault, ControlInv, Uncommitted, CommittedNow, NoJournal, AllAt,
     Cleaned, Committed, AfterBackups, CompensatedBackups
<1>2. BeforeKept'
  BY <1>G DEF IInv, Known, Fault, BeforeKept, Uncommitted, Unfinished
<1>3. FinishedInv' /\ LastInv' /\ RouteInv' /\ StandsInv'
  BY RecordFrame DEF recorded, Fault
<1>4. RouteJob'
  <2>1. /\ UNCHANGED <<prep, pending, compensating, accepted, last, revocation, outer, play>>
        /\ ~ At("idle")
    BY DEF Fault
  <2>2. QED
    BY JobShape, <1>G, <2>1 DEF IInv, Known, RouteJob, Recovering, NoJournal, Guarded
<1>5. FencedInv'
  BY <1>G DEF IInv, Known, Fault, FencedInv, Carries, Unfinished
<1>6. ServiceInv'
  BY DEF IInv, Known, ServiceInv, Fault
<1>7. QED
  BY <1>1, <1>2, <1>3, <1>4, <1>5, <1>6 DEF Known

\* A killed publisher leaves every record as it was.
LEMMA CrashKnown ==
    ASSUME IInv, Crash PROVE Known'
<1> USE DEF nodes, storage, records, journals, service, At
<1>G. job'.pc = "idle" /\ job'.ret = "done" /\ job'.only = "no"
  BY JobShape, JobFields DEF Crash, Steps
<1>1. ControlInv'
  BY <1>G DEF IInv, Known, Crash, ControlInv, Uncommitted, CommittedNow, NoJournal, AllAt,
     Cleaned, Committed, AfterBackups, CompensatedBackups
<1>2. BeforeKept'
  BY <1>G DEF IInv, Known, Crash, BeforeKept, Uncommitted, Unfinished
<1>3. FinishedInv' /\ LastInv' /\ RouteInv' /\ StandsInv'
  BY RecordFrame DEF recorded, Crash
<1>4. RouteJob'
  BY <1>G DEF IInv, Known, Crash, RouteJob, Recovering, NoJournal
<1>5. FencedInv'
  BY <1>G DEF IInv, Known, Crash, FencedInv, Carries, Unfinished
<1>6. ServiceInv'
  BY DEF IInv, Known, ServiceInv, Crash
<1>7. QED
  BY <1>1, <1>2, <1>3, <1>4, <1>5, <1>6 DEF Known

\* A reboot leaves every record as it was.
LEMMA RebootKnown ==
    ASSUME IInv, Reboot PROVE Known'
<1> USE DEF nodes, storage, records, journals, service, At
<1>G. job'.pc = "idle" /\ job'.ret = "done" /\ job'.only = "no"
  BY JobShape, JobFields DEF Reboot, Steps, Idle
<1>1. ControlInv'
  BY <1>G DEF IInv, Known, Reboot, Idle, ControlInv, Uncommitted, CommittedNow, NoJournal,
     AllAt, Cleaned, Committed, AfterBackups, CompensatedBackups
<1>2. BeforeKept'
  BY <1>G DEF IInv, Known, Reboot, Idle, BeforeKept, Uncommitted, Unfinished
<1>3. FinishedInv' /\ LastInv' /\ RouteInv' /\ StandsInv'
  BY RecordFrame DEF recorded, Reboot
<1>4. RouteJob'
  BY <1>G DEF IInv, Known, Reboot, Idle, RouteJob, Recovering, NoJournal
<1>5. FencedInv'
  BY <1>G DEF IInv, Known, Reboot, Idle, FencedInv, Carries, Unfinished
<1>6. ServiceInv'
  BY DEF IInv, Known, ServiceInv, Reboot
<1>7. QED
  BY <1>1, <1>2, <1>3, <1>4, <1>5, <1>6 DEF Known

\* The controller writes no record.
LEMMA ControllerStartKnown ==
    ASSUME IInv, ControllerStart PROVE Known'
<1> USE DEF nodes, storage, records, journals, service, At
<1>1. ControlInv'
  <2>1. UNCHANGED stored /\ UNCHANGED job
    BY DEF ControllerStart, stored
  <2>2. QED
    BY <2>1, ControlFrame DEF IInv, Known
<1>2. BeforeKept'
  BY DEF IInv, Known, ControllerStart, BeforeKept, Uncommitted, Unfinished
<1>3. FinishedInv' /\ LastInv' /\ RouteInv' /\ StandsInv'
  BY RecordFrame DEF recorded, ControllerStart
<1>4. RouteJob'
  BY DEF IInv, Known, ControllerStart, RouteJob, Recovering, NoJournal
<1>5. FencedInv'
  BY DEF IInv, Known, ControllerStart, FencedInv, Carries, Unfinished
<1>6. ServiceInv'
  BY DEF IInv, Known, ServiceInv, ControllerStart
<1>7. QED
  BY <1>1, <1>2, <1>3, <1>4, <1>5, <1>6 DEF Known

\* The controller writes no record when it stops its frontends.
LEMMA ControllerFenceKnown ==
    ASSUME IInv, ControllerFence PROVE Known'
<1> USE DEF nodes, storage, records, journals, service, At
<1>1. ControlInv'
  <2>1. UNCHANGED stored /\ UNCHANGED job
    BY DEF ControllerFence, stored
  <2>2. QED
    BY <2>1, ControlFrame DEF IInv, Known
<1>2. BeforeKept'
  BY DEF IInv, Known, ControllerFence, BeforeKept, Uncommitted, Unfinished
<1>3. FinishedInv' /\ LastInv' /\ RouteInv' /\ StandsInv'
  BY RecordFrame DEF recorded, ControllerFence
<1>4. RouteJob'
  BY DEF IInv, Known, ControllerFence, RouteJob, Recovering, NoJournal
<1>5. FencedInv'
  BY DEF IInv, Known, ControllerFence, FencedInv, Carries, Unfinished
<1>6. ServiceInv'
  BY DEF IInv, Known, ServiceInv, ControllerFence
<1>7. QED
  BY <1>1, <1>2, <1>3, <1>4, <1>5, <1>6 DEF Known

-----------------------------------------------------------------------------
(* Every step keeps the invariant                                          *)

\* The steps of an operation that only read the storage, or write the records
\* around it.
LEMMA JobStepStored ==
    ASSUME IInv, JobStep PROVE Storage'
<1>1. CASE \/ ApplyStop \/ OuterRecord \/ OuterRestart \/ OuterClosed \/ RecoverNothing
           \/ RecoverCompensation \/ RecoverCommitted \/ RecoverReady \/ RecoverUncommitted
           \/ Restore \/ CompensateStop \/ CompensateRestart \/ Forward \/ KeepSelection
           \/ KeepReady \/ Refuse \/ StopOld \/ StartNew \/ ReadyNew \/ AcceptRevocation
           \/ ConfirmOuter \/ Abort
  <2>1. UNCHANGED stored
    BY <1>1 DEF stored, nodes, storage, records, journals,
       ApplyStop, OuterRecord, OuterRestart, OuterClosed, RecoverNothing, RecoverCompensation,
          RecoverCommitted, RecoverReady, RecoverUncommitted, Restore, CompensateStop,
          CompensateRestart, Forward, KeepSelection, KeepReady, Refuse, StopOld, StartNew,
          ReadyNew, AcceptRevocation, ConfirmOuter, Abort
  <2>2. QED
    BY <2>1, StorageFrame DEF IInv
<1>2. QED
  BY <1>1, RecoverPreparationStored, RedoStored, UndoStored, CompensateRecordStored,
     CompensateEntryStored, CompensateBackupsStored, CompensateAcceptStored,
     CompensateFinishStored, StageStored, LinkNodeStored, RecordPendingStored,
     FinishPreparationStored, PublishSelectedStored, PublishDeferredStored, SealStored,
     CommitStored, CleanupEntryStored, CleanupRecordStored, CleanupLastStored,
     CleanupPendingStored, AdoptStored DEF JobStep

\* A step of an operation keeps what it and the records know.
LEMMA JobStepKnown ==
    ASSUME IInv, JobStep PROVE Known'
BY ApplyStopKnown, OuterRecordKnown, OuterRestartKnown, OuterClosedKnown,
   RecoverPreparationKnown, RecoverNothingKnown, RecoverCompensationKnown, RecoverCommittedKnown,
   RecoverReadyKnown, RecoverUncommittedKnown, RedoKnown, UndoKnown, RestoreKnown,
   CompensateRecordKnown, CompensateStopKnown, CompensateEntryKnown, CompensateBackupsKnown,
   CompensateRestartKnown, CompensateAcceptKnown, CompensateFinishKnown, ForwardKnown,
   KeepSelectionKnown, KeepReadyKnown, RefuseKnown, StageKnown, LinkNodeKnown, RecordPendingKnown,
   FinishPreparationKnown, StopOldKnown, PublishSelectedKnown, StartNewKnown, ReadyNewKnown,
   PublishDeferredKnown, SealKnown, CommitKnown, AcceptRevocationKnown, ConfirmOuterKnown,
   CleanupEntryKnown, CleanupRecordKnown, CleanupLastKnown, CleanupPendingKnown, AdoptKnown,
   AbortKnown DEF JobStep

\* Calls and the environment do not write the storage.
LEMMA CallStored ==
    ASSUME IInv, Call \/ Environment PROVE Storage'
<1>1. UNCHANGED stored
  BY DEF stored, nodes, storage, records, journals, Call, Environment, ApplyStart,
     RecoverStart, OuterBegin, OuterFinish, CompensateStart, OuterRestore, OuterRecover, Fault,
     Crash, Reboot, ControllerStart, ControllerFence
<1>2. QED
  BY <1>1, StorageFrame DEF IInv

\* They keep what is known too.
LEMMA CallKnown ==
    ASSUME IInv, Call \/ Environment PROVE Known'
BY ApplyStartKnown, RecoverStartKnown, OuterBeginKnown, OuterFinishKnown, CompensateStartKnown,
   OuterRestoreKnown, OuterRecoverKnown, FaultKnown, CrashKnown, RebootKnown,
   ControllerStartKnown, ControllerFenceKnown DEF Call, Environment

\* A fresh host satisfies the invariant.
LEMMA InitInv == Init => IInv
<1> SUFFICES ASSUME Init PROVE IInv
  OBVIOUS
<1>1. PICK n \in {Absent, 1} : /\ live = [p \in Paths |-> n] /\ staged = n
                               /\ unit = (IF n = Absent THEN "off" ELSE "on")
                               /\ running = (IF n = Absent THEN Stopped ELSE live)
  BY DEF Init
<1>2. /\ prep = NoIntent /\ pending = NoIntent /\ compensating = NoIntent /\ last = NoIntent
      /\ accepted = NoReceipt /\ backups = [p \in Paths |-> Unclaimed]
      /\ revocation = NoRevocation /\ outer = NoOuter /\ play = "no" /\ job = Idle
      /\ before = [p \in Paths |-> Absent] /\ after = [p \in Paths |-> Absent]
      /\ rollback = [p \in Paths |-> Absent] /\ undo = [p \in Paths |-> Absent]
  BY DEF Init
<1>3. TypeInv
  BY InitTyped
<1>4. /\ job.pc = "idle" /\ job.phase = "main" /\ job.ret = "done" /\ job.only = "no"
      /\ outer.open = "no" /\ revocation.authority = None /\ revocation.receipt = NoReceipt
      /\ \A p \in Paths : accepted.nodes[p] = Unclaimed
  BY <1>2 DEF Idle, NoOuter, NoRevocation, NoReceipt
<1>5. \A p \in Paths : /\ live[p] = n /\ rollback[p] = Absent /\ before[p] = Absent
                       /\ after[p] = Absent /\ undo[p] = Absent /\ backups[p] = Unclaimed
  BY <1>1, <1>2
<1>6. IntentsInv /\ OneJournal /\ LinksOwned /\ PrepInv /\ PendingInv /\ CompInv
  BY <1>2, <1>5 DEF IntentsInv, WellFormed, OneJournal, LinksOwned, PrepInv, PendingInv, CompInv
<1>7. QuietInv
  BY <1>4, <1>5 DEF QuietInv, AcceptedHolds, BackupsHold, SingleLink, Kept
<1>8. NodesInv
  <2>1. staged \in {0, 1} /\ \A p \in Paths : live[p] = staged /\ rollback[p] = 0
    BY <1>1, <1>5 DEF Absent
  <2>2. \A p \in Paths : NoIntent.was[p] = 0 /\ NoIntent.now[p] = 0
    BY DEF NoIntent, Absent
  <2>3. QED
    BY <1>2, <2>1, <2>2 DEF NodesInv, Aged
<1>9. ControlInv /\ BeforeKept /\ FinishedInv /\ LastInv /\ RouteInv
  BY <1>2, <1>4 DEF ControlInv, BeforeKept, FinishedInv, LastInv, RouteInv, At, Finished,
     Uncommitted
<1>10. RouteJob /\ FencedInv
  BY <1>2, <1>4 DEF RouteJob, FencedInv, At, Unfinished
<1>11. ServiceInv
  BY <1>1 DEF ServiceInv
<1>12. StandsInv
  <2>1. \A p \in Paths : revocation.receipt.nodes[p] = Unclaimed
    BY <1>3, <1>4, ReceiptNumbers
  <2>2. Unclaimed <= staged
    BY <1>1 DEF Unclaimed, Absent
  <2>3. QED
    BY <1>2, <2>1, <2>2 DEF StandsInv, Stands
<1>13. QED
  BY <1>3, <1>6, <1>7, <1>8, <1>9, <1>10, <1>11, <1>12 DEF IInv, Storage, Known

\* The invariant is inductive.
LEMMA StepInv == IInv /\ [Next]_vars => IInv'
<1> SUFFICES ASSUME IInv, [Next]_vars PROVE IInv'
  OBVIOUS
<1>1. CASE JobStep
  BY <1>1, JobStepTyped, JobStepStored, JobStepKnown DEF IInv
<1>2. CASE Call \/ Environment
  BY <1>2, CallTyped, EnvironmentTyped, CallStored, CallKnown DEF IInv
<1>3. CASE UNCHANGED vars
  <2> USE DEF vars, nodes, storage, records, journals, service
  <2>1. UNCHANGED stored /\ UNCHANGED recorded /\ UNCHANGED <<job, play, unit, running>>
    BY <1>3 DEF stored, recorded
  <2>2. TypeInv'
    BY <1>3 DEF IInv, TypeInv, TypeOK
  <2>3. Storage'
    BY <2>1, StorageFrame DEF IInv
  <2>4. ControlInv'
    BY <2>1, ControlFrame DEF IInv, Known
  <2>5. BeforeKept' /\ ServiceInv'
    BY <1>3 DEF IInv, Known, BeforeKept, ServiceInv, Uncommitted, Unfinished
  <2>6. RouteJob'
    BY <1>3 DEF IInv, Known, RouteJob, At, NoJournal, Recovering
  <2>7. FencedInv'
    BY <1>3 DEF IInv, Known, FencedInv, At, Carries, Unfinished
  <2>8. QED
    BY <2>1, <2>2, <2>3, <2>4, <2>5, <2>6, <2>7, RecordFrame DEF IInv, Known
<1>4. QED
  BY <1>1, <1>2, <1>3 DEF Next

\* Every reachable state satisfies the invariant.
LEMMA Invariance == Spec => []IInv
BY InitInv, StepInv, PTL DEF Spec

-----------------------------------------------------------------------------
(* What it says of the publisher                                           *)

\* NeverWedged, for any paths, bytes, revocations and number of crashes: the
\* strict inspection of journal(), preparation(), validate_compensation(),
\* accepted() and backups() accepts whatever an interrupted operation left.
THEOREM NeverWedgedAlways == Spec => []NeverWedged
<1>1. IInv => NeverWedged
  <2> SUFFICES ASSUME IInv PROVE NeverWedged
    OBVIOUS
  <2>1. Valid
    BY DEF IInv, Storage, PrepInv, PendingInv, CompInv, Valid, PreparationHolds, JournalHolds,
       CompensationHolds
  <2>2. NoJournal => NothingLeft
    BY DEF IInv, Storage, LinksOwned, NothingLeft, NoJournal
  <2>3. NoJournal => AcceptedHolds /\ BackupsHold
    BY DEF IInv, Storage, QuietInv
  <2>4. NoJournal /\ outer.open = "yes" => accepted = outer.receipt \/ LastExplains
    BY DEF IInv, Known, RouteInv
  <2>5. QED
    BY <2>1, <2>2, <2>3, <2>4 DEF NeverWedged
<1>2. QED
  BY Invariance, <1>1, PTL

\* RevocationStands in every state: on a path the accepted revocation claims,
\* recovery, compensation and the outer rollback select nothing older.
THEOREM RevocationStandsAlways == Spec => []RevocationStands
<1>1. IInv => RevocationStands
  BY DEF IInv, Known, StandsInv, Stands, RevocationStands
<1>2. QED
  BY Invariance, <1>1, PTL

\* With no operation in progress only the controller starts a generation, and
\* only an accepted one.
LEMMA IdleStart ==
    ASSUME IInv, Next, At("idle"), running' # running, running' # Stopped
    PROVE  \A p \in Paths : accepted.nodes[p] # Unclaimed => running'[p] = accepted.nodes[p]
<1> USE DEF At
<1>1. ~ JobStep
  BY DEF JobStep, Publish, ApplyStop, OuterRecord, OuterRestart, OuterClosed,
     RecoverPreparation, RecoverNothing, RecoverCompensation, RecoverCommitted, RecoverReady,
     RecoverUncommitted, Redo, Undo, Restore, CompensateRecord, CompensateStop, CompensateEntry,
     CompensateBackups, CompensateRestart, CompensateAccept, CompensateFinish, Forward,
     KeepSelection, KeepReady, Refuse, Stage, LinkNode, RecordPending, FinishPreparation, StopOld,
     PublishSelected, StartNew, ReadyNew, PublishDeferred, Seal, Commit, AcceptRevocation,
     ConfirmOuter, CleanupEntry, CleanupRecord, CleanupLast, CleanupPending, Adopt, Abort
<1>2. ~ Call
  BY DEF Call, service, ApplyStart, RecoverStart, OuterBegin, OuterFinish, CompensateStart,
     OuterRestore, OuterRecover
<1>3. ControllerStart
  BY <1>1, <1>2 DEF Next, Environment, Fault, Crash, Reboot, ControllerFence
<1>4. NoJournal /\ running' = live
  BY <1>3 DEF ControllerStart, Admitted
<1>5. QED
  BY <1>4 DEF IInv, Storage, QuietInv, AcceptedHolds

\* From a stopped controller only these steps of the publisher start anything,
\* and they start what is selected.
LEMMA ColdStart ==
    ASSUME IInv, Next, unit = "off", running' # Stopped
    PROVE  /\ running' = live
           /\ \/ OuterRestart \/ RecoverCommitted \/ Restore \/ CompensateRestart \/ KeepSelection
              \/ StartNew
<1>1. running' # running
  BY DEF IInv, Known, ServiceInv
<1>2. JobStep
  BY <1>1 DEF Next, Call, Environment, service, ControllerStart, Reboot, Fault, Crash,
     ControllerFence, ApplyStart, RecoverStart, OuterBegin, OuterFinish, CompensateStart,
        OuterRestore, OuterRecover
<1>3. \/ OuterRestart \/ RecoverCommitted \/ Restore \/ CompensateRestart \/ KeepSelection
      \/ StartNew
  BY <1>1, <1>2 DEF JobStep, service, Halt, Publish, ApplyStop, OuterRecord, OuterClosed,
     RecoverPreparation, RecoverNothing, RecoverCompensation, RecoverReady, RecoverUncommitted,
     Redo, Undo, CompensateRecord, CompensateStop, CompensateEntry, CompensateBackups,
     CompensateAccept, CompensateFinish, Forward, KeepReady, Refuse, Stage, LinkNode,
     RecordPending, FinishPreparation, StopOld, PublishSelected, ReadyNew, PublishDeferred, Seal,
     Commit, AcceptRevocation, ConfirmOuter, CleanupEntry, CleanupRecord, CleanupLast,
     CleanupPending, Adopt, Abort
<1>4. running' = live
  BY <1>1, <1>3 DEF OuterRestart, RecoverCommitted, Restore, CompensateRestart, KeepSelection,
     StartNew, service, Halt, Launch, Ensure
<1>5. QED
  BY <1>3, <1>4

\* What is started under an unfinished revocation is the candidate it plans.
LEMMA FencedStart ==
    ASSUME IInv, Next, Unfinished(revocation), unit = "off", running' # Stopped
    PROVE  revocation.plan # NoPlan /\ CarriesPlan(running')
<1>1. /\ running' = live
      /\ \/ OuterRestart \/ RecoverCommitted \/ Restore \/ CompensateRestart \/ KeepSelection
         \/ StartNew
  BY ColdStart
<1>2. ASSUME NEW v, Carries(v), \A p \in v.cover \ Deferred : live[p] = v.now[p]
      PROVE  revocation.plan # NoPlan /\ CarriesPlan(running')
  BY <1>1, <1>2 DEF Carries, CarriesPlan
<1>3. CASE OuterRestart
  BY <1>3 DEF OuterRestart, IInv, Known, FencedInv, At, Unfinished
<1>4. CASE RecoverCommitted
  <2>1. pending # NoIntent /\ accepted = pending.new
    BY <1>4 DEF RecoverCommitted
  <2>2. Carries(pending) /\ AllAt(pending, pending.now)
    BY <2>1 DEF IInv, Known, FencedInv, Storage, PendingInv
  <2>3. QED
    BY <1>2, <2>2 DEF AllAt
<1>5. CASE Restore
  BY <1>5 DEF Restore, IInv, Known, ControlInv, BeforeKept, At
<1>6. CASE CompensateRestart
  BY <1>6 DEF CompensateRestart, IInv, Known, ControlInv, FencedInv, At
<1>7. CASE KeepSelection
  <2>1. At("recovered") /\ Same(job.cand)
    BY <1>7 DEF KeepSelection
  <2>2. job.ret = "recovered" /\ job.authority # None
    BY <2>1 DEF IInv, Known, ControlInv, FencedInv, At, Unfinished
  <2>3. revocation.plan = job.cand
    BY <2>2 DEF IInv, Known, RouteJob
  <2>4. job.cand.cover # {}
    BY <2>1, CandidateOf
  <2>5. QED
    BY <1>1, <2>1, <2>3, <2>4 DEF Same, CarriesPlan, NoPlan
<1>8. CASE StartNew
  <2>1. pending # NoIntent /\ \A p \in pending.cover \ Deferred : live[p] = pending.now[p]
    BY <1>8 DEF StartNew, IInv, Known, ControlInv, At, Uncommitted
  <2>2. Carries(pending)
    BY <2>1 DEF IInv, Known, FencedInv
  <2>3. QED
    BY <1>2, <2>1, <2>2
<1>9. QED
  BY <1>1, <1>3, <1>4, <1>5, <1>6, <1>7, <1>8

\* OnlyAcceptedStarts of every step: generation.py starts the accepted nodes and
\* nothing a dead publisher left half selected, and from a stopped controller
\* nothing but the candidate of an unfinished revocation is started.
THEOREM OnlyAcceptedStartsAlways == Spec => OnlyAcceptedStarts
<1>1. IInv /\ [Next]_vars =>
        [ /\ At("idle") /\ running' # running /\ running' # Stopped /\ accepted # NoReceipt =>
               \A p \in Paths : accepted.nodes[p] # Unclaimed => running'[p] = accepted.nodes[p]
          /\ Unfinished(revocation) /\ unit = "off" /\ running' # Stopped =>
               revocation.plan # NoPlan /\ CarriesPlan(running') ]_vars
  BY IdleStart, FencedStart
<1>2. QED
  BY Invariance, <1>1, PTL DEF Spec, OnlyAcceptedStarts

=============================================================================
