--------------------------- MODULE WatchdogProofs ---------------------------
(***************************************************************************)
(* Machine-checked proofs about Watchdog, for every set of runners and     *)
(* units, every threshold and every budget.                                *)
(***************************************************************************)
EXTENDS Watchdog, TLAPS

-----------------------------------------------------------------------------
(* The inductive invariant.                                                *)

\* Past admission a run holds the lock, and nobody else does.
Locked(r) == run[r].pc \notin {"idle", "admit"}
LockInv == \A r \in Runners : Locked(r) => lock = r

\* What a run has read under the lock.
Reading == {"idle", "admit", "reread"}
\* The window of its counters has begun but is not recorded yet.
Opening(r) == run[r].fresh /\ old

\* Every restart of the recorded window is counted on disk before it happens,
\* and a run in progress never counts fewer than there were.
KickInv ==
    /\ kicks <= disk.kicks
    /\ \A r \in Runners :
          /\ run[r].pc \notin Reading /\ ~Opening(r) => kicks <= run[r].mem.kicks
          /\ run[r].pc \in {"reserve", "restart"} /\ ~Opening(r) => kicks < run[r].mem.kicks
          /\ run[r].pc = "reserve" => 0 < run[r].mem.kicks
          /\ run[r].pc = "restart" => kicks < disk.kicks

\* The same for the alerts.
AlertInv ==
    /\ alerts <= disk.alerts
    /\ \A r \in Runners :
          /\ run[r].pc \notin Reading /\ ~Opening(r) => alerts <= run[r].mem.alerts
          /\ run[r].pc \in {"saveAlert", "notify"} /\ ~Opening(r) => alerts < run[r].mem.alerts
          /\ run[r].pc = "saveAlert" => 0 < run[r].mem.alerts
          /\ run[r].pc = "notify" => alerts < disk.alerts

\* A recorded streak is never longer than the true one; a run that found no
\* failure records none, and only a due run restarts.
StreakInv ==
    /\ disk.fails <= streak
    /\ \A r \in Runners :
          /\ run[r].pc \notin Reading => run[r].mem.fails <= streak
          /\ run[r].pc \notin Reading \cup {"probe", "count"} /\ ~run[r].bad => run[r].mem.fails = 0
          /\ run[r].pc \in {"reserve", "restart"} => Due(r)

IInv == TypeOK /\ LockInv /\ KickInv /\ AlertInv /\ StreakInv

-----------------------------------------------------------------------------
(* Types.                                                                  *)

RunType == [pc : Pcs, mem : Budget, fresh : BOOLEAN, bad : BOOLEAN,
            failed : SUBSET Units, invalid : SUBSET Units,
            soft : BOOLEAN, class : BOOLEAN, unit : Units \cup {Nobody}]

LEMMA NoRunTyped ==
    ASSUME WatchdogAssumption
    PROVE  NoRun \in RunType /\ Blank \in Budget /\ NoRun.pc = "idle" /\ NoRun.fresh = FALSE
  BY DEF WatchdogAssumption, NoRun, Blank, Budget, RunType, Pcs

\* The state variables have their types exactly if the runs and the rest do.
LEMMA TypeParts ==
    TypeOK <=> /\ disk \in Budget /\ run \in [Runners -> RunType]
               /\ lock \in Runners \cup {Nobody}
               /\ up \in [Units -> BOOLEAN] /\ old \in BOOLEAN /\ streak \in 0..MaxFails
               /\ kicks \in Nat /\ alerts \in Nat /\ faults \in 0..MaxFaults
  BY DEF TypeOK, RunType

LEMMA TypedAfter ==
    ASSUME disk' \in Budget, run' \in [Runners -> RunType], lock' \in Runners \cup {Nobody},
           up' \in [Units -> BOOLEAN], old' \in BOOLEAN, streak' \in 0..MaxFails,
           kicks' \in Nat, alerts' \in Nat, faults' \in 0..MaxFaults
    PROVE  TypeOK'
  BY DEF TypeOK, RunType

\* A run that moves on keeps everything else.
LEMMA GoFields ==
    ASSUME run \in [Runners -> RunType], NEW r \in Runners, NEW pc \in Pcs, Go(r, pc)
    PROVE  /\ run' \in [Runners -> RunType]
           /\ \A s \in Runners \ {r} : run'[s] = run[s]
           /\ run'[r].pc = pc /\ run'[r].mem = run[r].mem /\ run'[r].fresh = run[r].fresh
           /\ run'[r].bad = run[r].bad /\ run'[r].unit = run[r].unit
  BY DEF RunType, Go

LEMMA EndFields ==
    ASSUME WatchdogAssumption, run \in [Runners -> RunType], NEW r \in Runners, End(r),
           lock \in Runners \cup {Nobody}
    PROVE  /\ run' \in [Runners -> RunType]
           /\ \A s \in Runners \ {r} : run'[s] = run[s]
           /\ run'[r] = NoRun /\ run'[r].pc = "idle" /\ run'[r].fresh = FALSE
           /\ lock' \in Runners \cup {Nobody}
           /\ \A s \in Runners \ {r} : lock = s => lock' = s
  BY NoRunTyped DEF End

LEMMA CountedTyped ==
    ASSUME WatchdogAssumption, old \in BOOLEAN, NEW m \in Budget, NEW failing \in BOOLEAN
    PROVE  /\ Counted(m, failing) \in Budget
           /\ ~failing => Counted(m, failing).fails = 0
           /\ failing => Counted(m, failing).fails \in 0 .. m.fails + 1
           /\ ~old => Counted(m, failing).kicks = m.kicks /\ Counted(m, failing).alerts = m.alerts
<1> DEFINE n == IF failing THEN (IF m.fails < MaxFails THEN m.fails + 1 ELSE MaxFails) ELSE 0
<1>1. Counted(m, failing) = IF old THEN [Blank EXCEPT !.fails = n] ELSE [m EXCEPT !.fails = n]
  BY DEF Counted
<1>2. n \in 0 .. MaxFails /\ n <= m.fails + 1
  BY DEF WatchdogAssumption, Budget
<1>3. ~failing => n = 0
  OBVIOUS
<1> HIDE DEF n
<1>4. CASE old = TRUE
  BY <1>1, <1>2, <1>3, <1>4 DEF Budget, Blank, WatchdogAssumption
<1>5. CASE old = FALSE
  BY <1>1, <1>2, <1>3, <1>5 DEF Budget
<1>6. QED
  BY <1>4, <1>5

LEMMA StartFields ==
    ASSUME WatchdogAssumption, TypeOK, NEW r \in Runners, Start(r)
    PROVE  /\ run' \in [Runners -> RunType]
           /\ \A s \in Runners \ {r} : run'[s] = run[s]
           /\ run'[r].pc = "admit" /\ run'[r].fresh = FALSE
<1> DEFINE started == [NoRun EXCEPT !.pc = "admit", !.mem = disk]
<1>1. NoRun \in RunType /\ disk \in Budget
  BY NoRunTyped, TypeParts
<1>2. started \in RunType /\ started.pc = "admit" /\ started.fresh = NoRun.fresh
  BY <1>1 DEF RunType, Pcs
<1>3. run' = [run EXCEPT ![r] = started]
  BY DEF Start
<1> HIDE DEF started
<1>4. QED
  BY <1>2, <1>3, NoRunTyped, TypeParts

LEMMA RereadFields ==
    ASSUME WatchdogAssumption, TypeOK, NEW r \in Runners, Reread(r)
    PROVE  /\ run' \in [Runners -> RunType]
           /\ \A s \in Runners \ {r} : run'[s] = run[s]
           /\ run'[r].pc = "probe" /\ run'[r].mem = disk /\ run'[r].fresh = run[r].fresh
<1> DEFINE moved == [run[r] EXCEPT !.pc = "probe", !.mem = disk]
<1>1. run[r] \in RunType /\ run \in [Runners -> RunType]
  BY TypeParts
<1>2. run' = [run EXCEPT ![r] = moved]
  BY <1>1 DEF Reread
<1>3. moved \in RunType
  BY <1>1, TypeParts DEF RunType, Pcs
<1>4. run'[r] = moved
  BY <1>1, <1>2
<1>5. QED
  BY <1>1, <1>2, <1>3, <1>4, TypeParts DEF RunType

LEMMA ProbeFields ==
    ASSUME WatchdogAssumption, TypeOK, NEW r \in Runners, NEW invalid \in Outcomes,
           NEW soft \in BOOLEAN, NEW class \in BOOLEAN, Probe(r, invalid, soft, class)
    PROVE  /\ run' \in [Runners -> RunType]
           /\ \A s \in Runners \ {r} : run'[s] = run[s]
           /\ run'[r].pc = "count" /\ run'[r].mem = run[r].mem /\ run'[r].fresh = run[r].fresh
<1>0. {u \in Units : ~up[u]} \cup invalid \in SUBSET Units /\ invalid \in SUBSET Units
  BY DEF WatchdogAssumption
<1> DEFINE moved == [run[r] EXCEPT !.pc = "count", !.soft = soft, !.class = class, !.invalid = invalid,
                            !.failed = {u \in Units : ~up[u]} \cup invalid]
<1>1. run[r] \in RunType /\ run \in [Runners -> RunType]
  BY TypeParts
<1>2. run' = [run EXCEPT ![r] = moved]
  BY <1>1 DEF Probe
<1>3. moved \in RunType
  BY <1>1, <1>0 DEF RunType, Pcs
<1>4. run'[r] = moved
  BY <1>1, <1>2
<1>5. QED
  BY <1>1, <1>2, <1>3, <1>4, <1>0 DEF RunType

LEMMA CountFields ==
    ASSUME WatchdogAssumption, TypeOK, NEW r \in Runners, Count(r)
    PROVE  /\ run' \in [Runners -> RunType]
           /\ \A s \in Runners \ {r} : run'[s] = run[s]
           /\ run'[r].pc = "kick" /\ run'[r].fresh = old
           /\ run'[r].mem = Counted(run[r].mem, Failing(r)) /\ run'[r].bad = Failing(r)
<1>0. /\ Failing(r) \in BOOLEAN /\ old \in BOOLEAN
      /\ Counted(run[r].mem, Failing(r)) \in Budget
  <2>1. Failing(r) \in BOOLEAN
    BY DEF Failing, TypeOK
  <2>2. run[r].mem \in Budget /\ old \in BOOLEAN
    BY TypeParts DEF RunType
  <2>3. QED
    BY <2>1, <2>2, CountedTyped
<1> DEFINE moved == [run[r] EXCEPT !.pc = "kick", !.fresh = old, !.bad = Failing(r), !.soft = FALSE,
                            !.mem = Counted(run[r].mem, Failing(r))]
<1>1. run[r] \in RunType /\ run \in [Runners -> RunType]
  BY TypeParts
<1>2. run' = [run EXCEPT ![r] = moved]
  BY <1>1 DEF Count
<1>3. moved \in RunType
  BY <1>1, <1>0 DEF RunType, Pcs
<1>4. run'[r] = moved
  BY <1>1, <1>2
<1>5. QED
  BY <1>1, <1>2, <1>3, <1>4, <1>0 DEF RunType

LEMMA ReserveFields ==
    ASSUME WatchdogAssumption, TypeOK, NEW r \in Runners, NEW u \in Units, Reserve(r, u)
    PROVE  /\ run' \in [Runners -> RunType]
           /\ \A s \in Runners \ {r} : run'[s] = run[s]
           /\ run'[r].pc = "reserve" /\ run'[r].fresh = run[r].fresh /\ run'[r].bad = run[r].bad
           /\ run'[r].mem.kicks = run[r].mem.kicks + 1
           /\ run'[r].mem.alerts = run[r].mem.alerts /\ run'[r].mem.fails = run[r].mem.fails
<1> DEFINE moved == [run[r] EXCEPT !.pc = "reserve", !.unit = u, !.mem.kicks = @ + 1, !.failed = @ \ {u}]
<1>1. run[r] \in RunType /\ run \in [Runners -> RunType]
  BY TypeParts
<1>2. run' = [run EXCEPT ![r] = moved]
  BY <1>1 DEF Reserve
<1>3. moved \in RunType
  BY <1>1 DEF RunType, Pcs, Budget, Reserve, WatchdogAssumption
<1>4. run'[r] = moved
  BY <1>1, <1>2
<1>5. QED
  BY <1>1, <1>2, <1>3, <1>4 DEF RunType, Budget

LEMMA RestartFields ==
    ASSUME WatchdogAssumption, TypeOK, NEW r \in Runners, Restart(r)
    PROVE  /\ run' \in [Runners -> RunType]
           /\ \A s \in Runners \ {r} : run'[s] = run[s]
           /\ run'[r].pc = "kick" /\ run'[r].fresh = run[r].fresh /\ run'[r].bad = run[r].bad
           /\ run'[r].mem = run[r].mem
<1> DEFINE moved == [run[r] EXCEPT !.pc = "kick", !.unit = Nobody]
<1>1. run[r] \in RunType /\ run \in [Runners -> RunType]
  BY TypeParts
<1>2. run' = [run EXCEPT ![r] = moved]
  BY <1>1 DEF Restart
<1>3. moved \in RunType
  BY <1>1 DEF RunType, Pcs
<1>4. run'[r] = moved
  BY <1>1, <1>2
<1>5. QED
  BY <1>1, <1>2, <1>3, <1>4 DEF RunType

LEMMA ReserveAlertFields ==
    ASSUME WatchdogAssumption, TypeOK, NEW r \in Runners, ReserveAlert(r)
    PROVE  /\ run' \in [Runners -> RunType]
           /\ \A s \in Runners \ {r} : run'[s] = run[s]
           /\ run'[r].pc = "saveAlert" /\ run'[r].fresh = run[r].fresh /\ run'[r].bad = run[r].bad
           /\ run'[r].mem.alerts = run[r].mem.alerts + 1
           /\ run'[r].mem.kicks = run[r].mem.kicks /\ run'[r].mem.fails = run[r].mem.fails
<1> DEFINE moved == [run[r] EXCEPT !.pc = "saveAlert",
                            !.mem.alerts = IF @ < AlertsMax THEN @ + 1 ELSE @]
<1>1. run[r] \in RunType /\ run \in [Runners -> RunType]
  BY TypeParts
<1>2. run' = [run EXCEPT ![r] = moved]
  BY <1>1 DEF ReserveAlert
<1>3. moved \in RunType
  BY <1>1 DEF RunType, Pcs, Budget, ReserveAlert, ShouldAlert, WatchdogAssumption
<1>4. run'[r] = moved
  BY <1>1, <1>2
<1>5. QED
  BY <1>1, <1>2, <1>3, <1>4 DEF RunType, Budget, ReserveAlert, ShouldAlert


-----------------------------------------------------------------------------
(* A step of one run.  The others are idle or at admission, or the run is. *)

\* What the counters of a run may be once it has read them under the lock.
CountersOK(r) ==
    /\ run[r].pc \notin Reading =>
          /\ ~Opening(r) => kicks <= run[r].mem.kicks /\ alerts <= run[r].mem.alerts
          /\ run[r].mem.fails <= streak
    /\ run[r].pc \notin Reading \cup {"probe", "count"} /\ ~run[r].bad => run[r].mem.fails = 0
    /\ run[r].pc \in {"reserve", "restart"} =>
          Due(r) /\ (~Opening(r) => kicks < run[r].mem.kicks)
    /\ run[r].pc = "reserve" => 0 < run[r].mem.kicks
    /\ run[r].pc = "restart" => kicks < disk.kicks
    /\ run[r].pc \in {"saveAlert", "notify"} /\ ~Opening(r) => alerts < run[r].mem.alerts
    /\ run[r].pc = "saveAlert" => 0 < run[r].mem.alerts
    /\ run[r].pc = "notify" => alerts < disk.alerts

DiskOK == kicks <= disk.kicks /\ alerts <= disk.alerts /\ disk.fails <= streak

LEMMA IInvParts ==
    IInv <=> TypeOK /\ LockInv /\ DiskOK /\ \A r \in Runners : CountersOK(r)
  BY DEF IInv, KickInv, AlertInv, StreakInv, DiskOK, CountersOK

\* A run that has not read its counters under the lock claims nothing.
LEMMA ReadingOK ==
    ASSUME NEW r \in Runners, run[r].pc \in Reading
    PROVE  CountersOK(r)
  BY DEF CountersOK, Reading

\* A step of the lock holder, or of a run that is not admitted, leaves the
\* invariant of the other runs alone.
LEMMA OneRun ==
    ASSUME IInv, NEW r \in Runners, TypeOK',
           \A s \in Runners \ {r} : run'[s] = run[s],
           \/ lock = r
           \/ UNCHANGED <<disk, old, streak, kicks, alerts>>,
           \A s \in Runners \ {r} : lock = s => lock' = s,
           run'[r].pc \in {"idle", "admit"} \/ lock' = r,
           DiskOK', CountersOK(r)'
    PROVE  IInv'
<1>1. LockInv'
  BY DEF LockInv, Locked, IInv
<1>2. ASSUME NEW s \in Runners, s # r PROVE CountersOK(s)'
  <2>1. CASE lock = r
    <3>1. run[s].pc \in Reading
      BY <1>2, <2>1 DEF IInv, LockInv, Locked, Reading
    <3>2. QED
      BY <1>2, <3>1 DEF CountersOK, Reading
  <2>2. CASE UNCHANGED <<disk, old, streak, kicks, alerts>>
    <3>1. CountersOK(s) /\ run'[s] = run[s]
      BY <1>2, IInvParts
    <3>2. QED
      BY <2>2, <3>1 DEF CountersOK, Reading, Opening, Due
  <2>3. QED
    BY <2>1, <2>2
<1>3. QED
  BY <1>1, <1>2, IInvParts DEF IInv, KickInv, AlertInv, StreakInv, DiskOK, CountersOK

-----------------------------------------------------------------------------
(* The steps of a run.                                                     *)

LEMMA StartKeeps ==
    ASSUME WatchdogAssumption, IInv, NEW r \in Runners, Start(r)
    PROVE  IInv'
<1> USE DEF Start, At
<1>1. TypeOK
  BY DEF IInv
<1>2. CountersOK(r) /\ DiskOK
  BY IInvParts
<1>3. /\ run' \in [Runners -> RunType]
      /\ \A s \in Runners \ {r} : run'[s] = run[s]
      /\ run'[r].pc = "admit" /\ run'[r].fresh = FALSE
  BY <1>1, StartFields
<1>4. TypeOK'
  BY <1>1, <1>3, TypeParts, TypedAfter
<1>5. DiskOK' /\ CountersOK(r)'
  BY <1>1, <1>2, <1>3, TypeParts DEF DiskOK, CountersOK, Reading, Opening, Due, RunType, Budget
<1>6. QED
  BY <1>2, <1>3, <1>4, <1>5, OneRun

\* The lock is free, so no other run has counters.
LEMMA AdmitKeeps ==
    ASSUME WatchdogAssumption, IInv, NEW r \in Runners, Admit(r)
    PROVE  IInv'
<1> USE DEF Admit, At
<1>1. TypeOK
  BY DEF IInv
<1>2. CountersOK(r) /\ DiskOK
  BY IInvParts
<1>3. /\ run' \in [Runners -> RunType]
      /\ \A s \in Runners \ {r} : run'[s] = run[s]
      /\ run'[r].pc = "reread" /\ run'[r].mem = run[r].mem /\ run'[r].fresh = run[r].fresh
      /\ run'[r].bad = run[r].bad
  BY <1>1, TypeParts, GoFields DEF Pcs
<1>4. TypeOK'
  BY <1>1, <1>3, TypeParts, TypedAfter
<1>5. DiskOK' /\ CountersOK(r)'
  BY <1>1, <1>2, <1>3, TypeParts DEF DiskOK, CountersOK, Reading, Opening, Due, RunType, Budget
<1>6. \A s \in Runners \ {r} : lock = s => lock' = s
  BY DEF WatchdogAssumption
<1>7. QED
  BY <1>3, <1>4, <1>5, <1>6, OneRun

LEMMA RereadKeeps ==
    ASSUME WatchdogAssumption, IInv, NEW r \in Runners, Reread(r)
    PROVE  IInv'
<1> USE DEF Reread, At
<1>1. TypeOK
  BY DEF IInv
<1>2. lock = r /\ CountersOK(r) /\ DiskOK
  BY IInvParts DEF IInv, LockInv, Locked, Reread, At
<1>3. /\ run' \in [Runners -> RunType]
      /\ \A s \in Runners \ {r} : run'[s] = run[s]
      /\ run'[r].pc = "probe" /\ run'[r].mem = disk /\ run'[r].fresh = run[r].fresh
  BY <1>1, RereadFields
<1>4. TypeOK'
  BY <1>1, <1>3, TypeParts, TypedAfter
<1>5. DiskOK' /\ CountersOK(r)'
  BY <1>1, <1>2, <1>3, TypeParts DEF DiskOK, CountersOK, Reading, Opening, Due, RunType, Budget
<1>6. QED
  BY <1>2, <1>3, <1>4, <1>5, OneRun

LEMMA ProbeKeeps ==
    ASSUME WatchdogAssumption, IInv, NEW r \in Runners, NEW invalid \in Outcomes, NEW soft \in BOOLEAN,
           NEW class \in BOOLEAN, Probe(r, invalid, soft, class)
    PROVE  IInv'
<1> USE DEF Probe, At
<1>1. TypeOK
  BY DEF IInv
<1>2. lock = r /\ CountersOK(r) /\ DiskOK
  BY IInvParts DEF IInv, LockInv, Locked, Probe, At
<1>3. /\ run' \in [Runners -> RunType]
      /\ \A s \in Runners \ {r} : run'[s] = run[s]
      /\ run'[r].pc = "count" /\ run'[r].mem = run[r].mem /\ run'[r].fresh = run[r].fresh
  BY <1>1, ProbeFields
<1>4. TypeOK'
  BY <1>1, <1>3, TypeParts, TypedAfter
<1>5. DiskOK' /\ CountersOK(r)'
  BY <1>1, <1>2, <1>3, TypeParts DEF DiskOK, CountersOK, Reading, Opening, Due, RunType, Budget
<1>6. QED
  BY <1>2, <1>3, <1>4, <1>5, OneRun

LEMMA KicksDoneKeeps ==
    ASSUME WatchdogAssumption, IInv, NEW r \in Runners, KicksDone(r)
    PROVE  IInv'
<1> USE DEF KicksDone, At
<1>1. TypeOK
  BY DEF IInv
<1>2. lock = r /\ CountersOK(r) /\ DiskOK
  BY IInvParts DEF IInv, LockInv, Locked, KicksDone, At
<1>3. /\ run' \in [Runners -> RunType]
      /\ \A s \in Runners \ {r} : run'[s] = run[s]
      /\ run'[r].pc = "alert" /\ run'[r].mem = run[r].mem /\ run'[r].fresh = run[r].fresh
      /\ run'[r].bad = run[r].bad
  BY <1>1, TypeParts, GoFields DEF Pcs
<1>4. TypeOK'
  BY <1>1, <1>3, TypeParts, TypedAfter
<1>5. DiskOK' /\ CountersOK(r)'
  BY <1>1, <1>2, <1>3, TypeParts DEF DiskOK, CountersOK, Reading, Opening, Due, RunType, Budget
<1>6. QED
  BY <1>2, <1>3, <1>4, <1>5, OneRun

LEMMA NoAlertKeeps ==
    ASSUME WatchdogAssumption, IInv, NEW r \in Runners, NoAlert(r)
    PROVE  IInv'
<1> USE DEF NoAlert, At
<1>1. TypeOK
  BY DEF IInv
<1>2. lock = r /\ CountersOK(r) /\ DiskOK
  BY IInvParts DEF IInv, LockInv, Locked, NoAlert, At
<1>3. /\ run' \in [Runners -> RunType]
      /\ \A s \in Runners \ {r} : run'[s] = run[s]
      /\ run'[r].pc = "save" /\ run'[r].mem = run[r].mem /\ run'[r].fresh = run[r].fresh
      /\ run'[r].bad = run[r].bad
  BY <1>1, TypeParts, GoFields DEF Pcs
<1>4. TypeOK'
  BY <1>1, <1>3, TypeParts, TypedAfter
<1>5. DiskOK' /\ CountersOK(r)'
  BY <1>1, <1>2, <1>3, TypeParts DEF DiskOK, CountersOK, Reading, Opening, Due, RunType, Budget
<1>6. QED
  BY <1>2, <1>3, <1>4, <1>5, OneRun

LEMMA NotifyKeeps ==
    ASSUME WatchdogAssumption, IInv, NEW r \in Runners, Notify(r)
    PROVE  IInv'
<1> USE DEF Notify, At
<1>1. TypeOK
  BY DEF IInv
<1>2. lock = r /\ CountersOK(r) /\ DiskOK
  BY IInvParts DEF IInv, LockInv, Locked, Notify, At
<1>3. /\ run' \in [Runners -> RunType]
      /\ \A s \in Runners \ {r} : run'[s] = run[s]
      /\ run'[r].pc = "save" /\ run'[r].mem = run[r].mem /\ run'[r].fresh = run[r].fresh
      /\ run'[r].bad = run[r].bad
  BY <1>1, TypeParts, GoFields DEF Pcs
<1>4. TypeOK'
  BY <1>1, <1>3, TypeParts, TypedAfter
<1>5. DiskOK' /\ CountersOK(r)'
  BY <1>1, <1>2, <1>3, TypeParts DEF DiskOK, CountersOK, Reading, Opening, Due, RunType, Budget
<1>6. QED
  BY <1>2, <1>3, <1>4, <1>5, OneRun

LEMMA RestartKeeps ==
    ASSUME WatchdogAssumption, IInv, NEW r \in Runners, Restart(r)
    PROVE  IInv'
<1> USE DEF Restart, At
<1>1. TypeOK
  BY DEF IInv
<1>2. lock = r /\ CountersOK(r) /\ DiskOK
  BY IInvParts DEF IInv, LockInv, Locked, Restart, At
<1>3. /\ run' \in [Runners -> RunType]
      /\ \A s \in Runners \ {r} : run'[s] = run[s]
      /\ run'[r].pc = "kick" /\ run'[r].fresh = run[r].fresh /\ run'[r].bad = run[r].bad
      /\ run'[r].mem = run[r].mem
  BY <1>1, RestartFields
<1>4. TypeOK'
  <2>1. PICK ok \in BOOLEAN : up' = [up EXCEPT ![run[r].unit] = ok]
    OBVIOUS
  <2>2. up' \in [Units -> BOOLEAN]
    BY <1>1, <2>1, TypeParts
  <2>3. kicks' \in Nat
    BY <1>1, TypeParts
  <2>4. QED
    BY <1>1, <1>3, <2>2, <2>3, TypeParts, TypedAfter
<1>5. DiskOK' /\ CountersOK(r)'
  BY <1>1, <1>2, <1>3, TypeParts DEF DiskOK, CountersOK, Reading, Opening, Due, RunType, Budget
<1>6. QED
  BY <1>2, <1>3, <1>4, <1>5, OneRun

LEMMA ReserveKeeps ==
    ASSUME WatchdogAssumption, IInv, NEW r \in Runners, NEW u \in Units, Reserve(r, u)
    PROVE  IInv'
<1> USE DEF Reserve, At
<1>1. TypeOK
  BY DEF IInv
<1>2. lock = r /\ CountersOK(r) /\ DiskOK
  BY IInvParts DEF IInv, LockInv, Locked, Reserve, At
<1>3. /\ run' \in [Runners -> RunType]
      /\ \A s \in Runners \ {r} : run'[s] = run[s]
      /\ run'[r].pc = "reserve" /\ run'[r].fresh = run[r].fresh /\ run'[r].bad = run[r].bad
      /\ run'[r].mem.kicks = run[r].mem.kicks + 1
      /\ run'[r].mem.alerts = run[r].mem.alerts /\ run'[r].mem.fails = run[r].mem.fails
  BY <1>1, ReserveFields
<1>4. TypeOK'
  BY <1>1, <1>3, TypeParts, TypedAfter
<1>5. DiskOK' /\ CountersOK(r)'
  <2>1. /\ run[r] \in RunType /\ kicks \in Nat /\ alerts \in Nat /\ streak \in Nat
        /\ run[r].mem.kicks \in Nat /\ run[r].mem.alerts \in Nat /\ run[r].mem.fails \in Nat
    BY <1>1, TypeParts DEF RunType, Budget, WatchdogAssumption
  <2>2. /\ ~Opening(r) => kicks <= run[r].mem.kicks /\ alerts <= run[r].mem.alerts
        /\ run[r].mem.fails <= streak /\ (~run[r].bad => run[r].mem.fails = 0) /\ Due(r)
    BY <1>2 DEF CountersOK, Reading
  <2>3. Opening(r)' = Opening(r) /\ Due(r)' = Due(r)
    BY <1>3 DEF Opening, Due
  <2>4. DiskOK'
    BY <1>2 DEF DiskOK
  <2>5. QED
    BY <1>3, <2>1, <2>2, <2>3, <2>4 DEF CountersOK
<1>6. QED
  BY <1>2, <1>3, <1>4, <1>5, OneRun

LEMMA ReserveAlertKeeps ==
    ASSUME WatchdogAssumption, IInv, NEW r \in Runners, ReserveAlert(r)
    PROVE  IInv'
<1> USE DEF ReserveAlert, At
<1>1. TypeOK
  BY DEF IInv
<1>2. lock = r /\ CountersOK(r) /\ DiskOK
  BY IInvParts DEF IInv, LockInv, Locked, ReserveAlert, At
<1>3. /\ run' \in [Runners -> RunType]
      /\ \A s \in Runners \ {r} : run'[s] = run[s]
      /\ run'[r].pc = "saveAlert" /\ run'[r].fresh = run[r].fresh /\ run'[r].bad = run[r].bad
      /\ run'[r].mem.alerts = run[r].mem.alerts + 1
      /\ run'[r].mem.kicks = run[r].mem.kicks /\ run'[r].mem.fails = run[r].mem.fails
  BY <1>1, ReserveAlertFields
<1>4. TypeOK'
  BY <1>1, <1>3, TypeParts, TypedAfter
<1>5. DiskOK' /\ CountersOK(r)'
  BY <1>1, <1>2, <1>3, TypeParts DEF DiskOK, CountersOK, Reading, Opening, Due, RunType, Budget
<1>6. QED
  BY <1>2, <1>3, <1>4, <1>5, OneRun

LEMMA SaveReservedKeeps ==
    ASSUME WatchdogAssumption, IInv, NEW r \in Runners, SaveReserved(r)
    PROVE  IInv'
<1> USE DEF SaveReserved, At
<1>1. TypeOK
  BY DEF IInv
<1>2. lock = r /\ CountersOK(r) /\ DiskOK
  BY IInvParts DEF IInv, LockInv, Locked, SaveReserved, At
<1>3. /\ run' \in [Runners -> RunType]
      /\ \A s \in Runners \ {r} : run'[s] = run[s]
      /\ run'[r].pc = "restart" /\ run'[r].mem = run[r].mem /\ run'[r].fresh = run[r].fresh
      /\ run'[r].bad = run[r].bad
  BY <1>1, TypeParts, GoFields DEF Pcs
<1>4. TypeOK'
  BY <1>1, <1>3, TypeParts, TypedAfter DEF Persist, RunType
<1>5. DiskOK' /\ CountersOK(r)'
  BY <1>1, <1>2, <1>3, TypeParts DEF DiskOK, CountersOK, Reading, Opening, Due, RunType, Budget, Persist
<1>6. QED
  BY <1>2, <1>3, <1>4, <1>5, OneRun

LEMMA SaveAlertKeeps ==
    ASSUME WatchdogAssumption, IInv, NEW r \in Runners, SaveAlert(r)
    PROVE  IInv'
<1> USE DEF SaveAlert, At
<1>1. TypeOK
  BY DEF IInv
<1>2. lock = r /\ CountersOK(r) /\ DiskOK
  BY IInvParts DEF IInv, LockInv, Locked, SaveAlert, At
<1>3. /\ run' \in [Runners -> RunType]
      /\ \A s \in Runners \ {r} : run'[s] = run[s]
      /\ run'[r].pc = "notify" /\ run'[r].mem = run[r].mem /\ run'[r].fresh = run[r].fresh
      /\ run'[r].bad = run[r].bad
  BY <1>1, TypeParts, GoFields DEF Pcs
<1>4. TypeOK'
  BY <1>1, <1>3, TypeParts, TypedAfter DEF Persist, RunType
<1>5. DiskOK' /\ CountersOK(r)'
  BY <1>1, <1>2, <1>3, TypeParts DEF DiskOK, CountersOK, Reading, Opening, Due, RunType, Budget, Persist
<1>6. QED
  BY <1>2, <1>3, <1>4, <1>5, OneRun

\* The counters start anew with the hour, and the streak grows with them.
LEMMA CountKeeps ==
    ASSUME WatchdogAssumption, IInv, NEW r \in Runners, Count(r)
    PROVE  IInv'
<1> USE DEF Count, At
<1>1. TypeOK
  BY DEF IInv
<1>2. lock = r /\ CountersOK(r) /\ DiskOK
  BY IInvParts DEF IInv, LockInv, Locked, Count, At
<1>3. /\ run' \in [Runners -> RunType]
      /\ \A s \in Runners \ {r} : run'[s] = run[s]
      /\ run'[r].pc = "kick" /\ run'[r].fresh = old
      /\ run'[r].mem = Counted(run[r].mem, Failing(r)) /\ run'[r].bad = Failing(r)
  BY <1>1, CountFields
<1>4. /\ Failing(r) \in BOOLEAN /\ run[r].mem \in Budget /\ old \in BOOLEAN
      /\ streak \in 0 .. MaxFails /\ disk \in Budget /\ kicks \in Nat /\ alerts \in Nat
  BY <1>1, TypeParts DEF Failing, RunType
<1>5. /\ run'[r].mem \in Budget
      /\ ~Failing(r) => run'[r].mem.fails = 0
      /\ Failing(r) => run'[r].mem.fails \in 0 .. run[r].mem.fails + 1
      /\ ~old => run'[r].mem.kicks = run[r].mem.kicks /\ run'[r].mem.alerts = run[r].mem.alerts
  BY <1>3, <1>4, CountedTyped
<1>6. streak' \in 0 .. MaxFails /\ streak <= streak'
  BY <1>4 DEF WatchdogAssumption
<1>7. TypeOK'
  BY <1>1, <1>3, <1>6, TypeParts, TypedAfter
<1>8. DiskOK'
  BY <1>2, <1>4, <1>6 DEF DiskOK, Budget, WatchdogAssumption
<1>9. run'[r].mem.fails <= streak'
  <2>1. run[r].mem.fails <= streak
    BY <1>2 DEF CountersOK, Reading
  <2>2. CASE Failing(r) = TRUE
    <3>1. run'[r].mem.fails \in Nat /\ run'[r].mem.fails <= MaxFails /\ MaxFails \in Nat
      BY <1>5 DEF Budget, WatchdogAssumption
    <3>2. run[r].mem.fails \in Nat /\ run'[r].mem.fails <= run[r].mem.fails + 1
      <4>1. run[r].mem.fails \in Nat
        BY <1>4, <3>1 DEF Budget
      <4>2. run'[r].mem.fails \in 0 .. run[r].mem.fails + 1
        BY <1>5, <2>2
      <4>3. QED
        BY <4>1, <4>2
    <3>3. streak' = IF streak < MaxFails THEN streak + 1 ELSE streak
      BY <2>2
    <3>4. QED
      BY <1>4, <2>1, <3>1, <3>2, <3>3
  <2>3. CASE Failing(r) = FALSE
    BY <1>5, <1>6, <2>3
  <2>4. QED
    BY <1>4, <2>2, <2>3
<1>10. ~Opening(r)' => kicks' <= run'[r].mem.kicks /\ alerts' <= run'[r].mem.alerts
  BY <1>2, <1>3, <1>5 DEF CountersOK, Reading, Opening
<1>11. CountersOK(r)'
  BY <1>3, <1>5, <1>9, <1>10 DEF CountersOK
<1>12. QED
  BY <1>2, <1>3, <1>7, <1>8, <1>11, OneRun

LEMMA SaveKeeps ==
    ASSUME WatchdogAssumption, IInv, NEW r \in Runners, Save(r)
    PROVE  IInv'
<1> USE DEF Save, At
<1>1. TypeOK
  BY DEF IInv
<1>2. lock = r /\ CountersOK(r) /\ DiskOK
  BY IInvParts DEF IInv, LockInv, Locked, Save, At
<1>3. /\ run' \in [Runners -> RunType]
      /\ \A s \in Runners \ {r} : run'[s] = run[s]
      /\ run'[r].pc = "idle"
      /\ lock' \in Runners \cup {Nobody}
      /\ \A s \in Runners \ {r} : lock = s => lock' = s
  BY <1>1, TypeParts, EndFields
<1>4. TypeOK'
  BY <1>1, <1>3, TypeParts, TypedAfter DEF Persist, RunType, WatchdogAssumption
<1>5. DiskOK'
  BY <1>1, <1>2, TypeParts DEF DiskOK, CountersOK, Reading, Opening, RunType, Budget, Persist
<1>6. CountersOK(r)'
  BY <1>3 DEF CountersOK, Reading
<1>7. QED
  BY <1>2, <1>3, <1>4, <1>5, <1>6, OneRun

\* A run that is refused, or that dies, leaves disk and history alone.
LEMMA EndKeeps ==
    ASSUME WatchdogAssumption, IInv, NEW r \in Runners, End(r),
           UNCHANGED <<disk, up, old, streak, kicks, alerts>>, faults' \in 0 .. MaxFaults
    PROVE  IInv'
<1>1. TypeOK /\ DiskOK
  BY IInvParts
<1>2. /\ run' \in [Runners -> RunType]
      /\ \A s \in Runners \ {r} : run'[s] = run[s]
      /\ run'[r].pc = "idle"
      /\ lock' \in Runners \cup {Nobody}
      /\ \A s \in Runners \ {r} : lock = s => lock' = s
  BY <1>1, TypeParts, EndFields
<1>3. TypeOK'
  BY <1>1, <1>2, TypeParts, TypedAfter
<1>4. DiskOK' /\ CountersOK(r)'
  BY <1>1, <1>2 DEF DiskOK, CountersOK, Reading
<1>5. QED
  BY <1>2, <1>3, <1>4, OneRun

-----------------------------------------------------------------------------
(* The steps of the environment, and the theorems.                         *)

LEMMA HourKeeps ==
    ASSUME IInv, HourPasses
    PROVE  IInv'
<1>1. TypeOK /\ LockInv /\ DiskOK /\ \A r \in Runners : CountersOK(r)
  BY IInvParts
<1>2. TypeOK'
  BY <1>1, TypeParts, TypedAfter DEF HourPasses
<1>3. LockInv' /\ DiskOK'
  BY <1>1 DEF HourPasses, LockInv, Locked, DiskOK
<1>4. ASSUME NEW r \in Runners PROVE CountersOK(r)'
  <2>1. ~Opening(r) /\ ~Opening(r)' /\ (Due(r)' <=> Due(r)) /\ CountersOK(r)
    BY <1>1, <1>4 DEF HourPasses, Opening, Due
  <2>2. QED
    BY <1>4, <2>1 DEF CountersOK, HourPasses
<1>5. QED
  BY <1>2, <1>3, <1>4 DEF IInv, KickInv, AlertInv, StreakInv, DiskOK, CountersOK

\* The invariant does not read which units serve.
LEMMA UnreadKeeps ==
    ASSUME IInv, UNCHANGED <<disk, run, lock, old, streak, kicks, alerts, faults>>,
           up' \in [Units -> BOOLEAN]
    PROVE  IInv'
<1>1. TypeOK /\ LockInv /\ DiskOK /\ \A r \in Runners : CountersOK(r)
  BY IInvParts
<1>2. TypeOK'
  BY <1>1, TypeParts, TypedAfter
<1>3. LockInv' /\ DiskOK'
  BY <1>1 DEF LockInv, Locked, DiskOK
<1>4. ASSUME NEW r \in Runners PROVE CountersOK(r)'
  BY <1>1, <1>4 DEF CountersOK, Opening, Due
<1>5. QED
  BY <1>2, <1>3, <1>4 DEF IInv, KickInv, AlertInv, StreakInv, DiskOK, CountersOK

LEMMA InitIInv ==
    ASSUME WatchdogAssumption, Init
    PROVE  IInv
<1>1. TypeOK
  <2>1. run \in [Runners -> RunType] /\ disk \in Budget
    BY NoRunTyped DEF Init
  <2>2. streak \in 0 .. MaxFails /\ faults \in 0 .. MaxFaults /\ kicks \in Nat /\ alerts \in Nat
    BY DEF Init, WatchdogAssumption
  <2>3. up \in [Units -> BOOLEAN] /\ old \in BOOLEAN /\ lock \in Runners \cup {Nobody}
    BY DEF Init
  <2>4. QED
    BY <2>1, <2>2, <2>3, TypeParts
<1>2. \A r \in Runners : run[r].pc = "idle"
  BY NoRunTyped DEF Init
<1>3. LockInv /\ DiskOK
  BY <1>2 DEF Init, LockInv, Locked, DiskOK, Blank
<1>4. QED
  BY <1>1, <1>2, <1>3, IInvParts, ReadingOK DEF Reading

LEMMA NextIInv ==
    ASSUME WatchdogAssumption, IInv, [Next]_vars
    PROVE  IInv'
<1>1. ASSUME NEW r \in Runners, Start(r) \/ Go_on(r) \/ Dies(r) PROVE IInv'
  <2>1. CASE Start(r)
    BY <2>1, <1>1, StartKeeps
  <2>2. CASE Refused(r)
    BY <2>2, <1>1, EndKeeps DEF Refused, IInv, TypeOK
  <2>3. CASE Admit(r)
    BY <2>3, <1>1, AdmitKeeps
  <2>4. CASE Reread(r)
    BY <2>4, <1>1, RereadKeeps
  <2>5. CASE Count(r)
    BY <2>5, <1>1, CountKeeps
  <2>6. CASE \E invalid \in Outcomes, soft, class \in BOOLEAN : Probe(r, invalid, soft, class)
    BY <2>6, <1>1, ProbeKeeps
  <2>7. CASE \E u \in Units : Reserve(r, u)
    BY <2>7, <1>1, ReserveKeeps
  <2>8. CASE SaveReserved(r)
    BY <2>8, <1>1, SaveReservedKeeps
  <2>9. CASE Restart(r)
    BY <2>9, <1>1, RestartKeeps
  <2>10. CASE KicksDone(r)
    BY <2>10, <1>1, KicksDoneKeeps
  <2>11. CASE ReserveAlert(r)
    BY <2>11, <1>1, ReserveAlertKeeps
  <2>12. CASE SaveAlert(r)
    BY <2>12, <1>1, SaveAlertKeeps
  <2>13. CASE Notify(r)
    BY <2>13, <1>1, NotifyKeeps
  <2>14. CASE NoAlert(r)
    BY <2>14, <1>1, NoAlertKeeps
  <2>15. CASE Save(r)
    BY <2>15, <1>1, SaveKeeps
  <2>16. CASE Dies(r)
    BY <2>16, <1>1, EndKeeps DEF Dies, IInv, TypeOK, WatchdogAssumption
  <2>17. QED
    BY <1>1, <2>1, <2>2, <2>3, <2>4, <2>5, <2>6, <2>7, <2>8, <2>9, <2>10, <2>11, <2>12, <2>13,
       <2>14, <2>15, <2>16 DEF Go_on
<1>2. ASSUME NEW u \in Units, UnitFails(u) PROVE IInv'
  BY <1>2, UnreadKeeps DEF UnitFails, IInv, TypeOK
<1>3. CASE HourPasses
  BY <1>3, HourKeeps
<1>4. CASE UNCHANGED vars
  BY <1>4, UnreadKeeps DEF vars, IInv, TypeOK
<1>5. QED
  BY <1>1, <1>2, <1>3, <1>4 DEF Next

\* The invariant holds throughout, whoever runs, whatever is killed.
THEOREM Invariant == Spec => []IInv
<1> USE WatchdogConstants
<1>1. Init => IInv
  BY InitIInv
<1>2. IInv /\ [Next]_vars => IInv'
  BY NextIInv
<1>3. QED
  BY <1>1, <1>2, PTL DEF Spec

\* Every counter the state file and the runs keep stays within its bounds.
THEOREM Typed == Spec => []TypeOK
<1> USE WatchdogConstants
<1>1. IInv => TypeOK
  BY DEF IInv
<1>2. QED
  BY <1>1, Invariant, PTL

\* KICKS_PER_HOUR_MAX bounds the restarts of a window for any number of
\* overlapping, killed or failing runs of vpn-watchdog.sh.
THEOREM KicksBounded == Spec => []KickBudget
<1> USE WatchdogConstants
<1>1. IInv => KickBudget
  BY DEF IInv, KickInv, TypeOK, Budget, KickBudget, WatchdogAssumption
<1>2. QED
  BY <1>1, Invariant, PTL

\* ALERTS_PER_HOUR_MAX bounds the notifications of a window likewise.
THEOREM AlertsBounded == Spec => []AlertBudget
<1> USE WatchdogConstants
<1>1. IInv => AlertBudget
  BY DEF IInv, AlertInv, TypeOK, Budget, AlertBudget, WatchdogAssumption
<1>2. QED
  BY <1>1, Invariant, PTL

\* No unit is restarted before FAIL_THRESHOLD failing runs in a row.
THEOREM ThresholdKept == Spec => ThresholdHonoured
<1> USE WatchdogConstants
<1>1. ASSUME IInv PROVE \A r \in Runners : Restart(r) => streak >= FailThreshold
  <2>1. SUFFICES ASSUME NEW r \in Runners, Restart(r) PROVE streak >= FailThreshold
    OBVIOUS
  <2>2. run[r].mem.fails <= streak /\ Due(r)
    BY <1>1, <2>1 DEF IInv, StreakInv, Restart, At, Reading
  <2>3. run[r].mem.fails \in Nat /\ streak \in Nat /\ FailThreshold \in Nat
    BY <1>1 DEF IInv, TypeOK, Budget, WatchdogAssumption
  <2>4. QED
    BY <2>2, <2>3 DEF Due
<1>2. IInv /\ [Next]_vars =>
        [\A r \in Runners : Restart(r) => streak >= FailThreshold]_vars
  BY <1>1
<1>3. QED
  BY <1>2, Invariant, PTL DEF Spec, ThresholdHonoured

=============================================================================
