------------------------- MODULE StagingAcceptance -------------------------
(***************************************************************************)
(* The resumable acceptance sequence of the disposable observability       *)
(* staging (scripts/observability-staging-acceptance.py).  Each invocation *)
(* of `advance` takes one row of a fixed sequence: it records the row in a *)
(* private journal, lets the executor inject the row's fault, collect      *)
(* evidence and repair the fault, publishes a receipt, and records the row *)
(* as completed once the owner's observation is bound to that receipt.     *)
(* A failed row is restored and retried by a later invocation; a row left  *)
(* in the journal by a killed invocation is reconciled with its receipt or *)
(* restored first.                                                         *)
(*                                                                         *)
(* The rows fall into kinds by what they leave behind:                     *)
(*   check       nothing (queries, refusals, transactional rotations);     *)
(*   queue       ingestion stopped, and started again whatever happens;    *)
(*   producer    a producer held stale and restored, then the agent        *)
(*               stopped and started, each whatever happens;               *)
(*   alerts      staged alerts, resolved by the same program;              *)
(*   silence     a silence that names its approval, removed the same way;  *)
(*   units       services stopped, and started again on success only;      *)
(*   host        the provider host powered off, and on whatever happens;   *)
(*   authority   a token the owner revokes, which the row replaces;        *)
(*   refusal     an invalid candidate that the role guard must refuse;     *)
(*   activation  the control plane moves to the candidate generation;      *)
(*   rollback    the control plane moves back to the retained generation;  *)
(*   removal     the components are removed.                               *)
(***************************************************************************)
EXTENDS Integers, Sequences, FiniteSets, TLC

CONSTANTS
    STEPS,          \* the rows in their order
    Kind,           \* the kind of each row
    OBSERVED,       \* the rows that need a human observation (STEP_OBSERVATIONS)
    MaxKills,       \* invocations that are killed
    MaxFails        \* remote or evidence failures

Rows == {STEPS[i] : i \in 1 .. Len(STEPS)}
Guarded == {"queue", "producer", "host", "alerts", "silence"}
Faulty == Guarded \cup {"units", "authority"}
Kinds == Faulty \cup {"check", "refusal", "activation", "rollback", "removal"}

\* A silence whose approval record was replaced: no later row knows it.
Orphan == "orphan"

\* The generations of the control plane: the one the rollback manifest
\* retains, the candidate, and whatever preceded them.
Generations == {"older", "known", "candidate"}
Components == {"agent", "control-plane", "deadman"}

RowsAssumption ==
    /\ STEPS \in Seq(Rows) /\ Len(STEPS) = Cardinality(Rows)
    /\ Kind \in [Rows -> Kinds]
    /\ OBSERVED \subseteq Rows
    /\ MaxKills \in Nat /\ MaxFails \in Nat

None == "none"

VARIABLES
    journal,    \* the private journal file
    receipts,   \* row -> the run its receipt describes, 0 without a receipt
    observed,   \* row -> the owner's observation record
    approved,   \* the approval of the row in hand is valid now
    held,       \* rows whose fault is in place on the hosts
    gen,        \* current.yml and previous.yml of the control plane
    removed,    \* components removed from their hosts
    ctl,        \* the running invocation
    proved,     \* history: row -> the run whose executor returned "observed"
    kills, fails

vars == <<journal, receipts, observed, approved, held, gen, removed, ctl,
          proved, kills, fails>>

Idle == [pc |-> "idle", row |-> None]
NoObservation == [run |-> 0, bound |-> FALSE]

TypeOK ==
    /\ journal \in [status : {"active", "incomplete", "ready-for-cleanup"},
                    done : SUBSET Rows, current : Rows \cup {None}, run : 0 .. 3]
    /\ receipts \in [Rows -> 0 .. 3] /\ proved \in [Rows -> 0 .. 3]
    /\ observed \in [Rows -> [run : 0 .. 3, bound : BOOLEAN]]
    /\ approved \in BOOLEAN
    /\ held \subseteq Rows \cup {Orphan}
    /\ gen \in [current : Generations, previous : Generations]
    /\ removed \subseteq Components
    /\ ctl \in [pc : {"idle", "run", "producer", "agent", "held", "switch",
                      "verify", "done", "observe", "restore", "forget"},
                row : Rows \cup {None}]
    /\ kills \in 0 .. MaxKills /\ fails \in 0 .. MaxFails

\* new_journal, and hosts deployed on the retained generation.
Init ==
    /\ journal = [status |-> "active", done |-> {}, current |-> None, run |-> 0]
    /\ receipts = [r \in Rows |-> 0]
    /\ observed = [r \in Rows |-> NoObservation]
    /\ proved = [r \in Rows |-> 0]
    /\ approved = FALSE /\ held = {} /\ removed = {}
    /\ gen = [current |-> "known", previous |-> "older"]
    /\ ctl = Idle
    /\ kills = 0 /\ fails = 0

\* The first row that is not completed; None once every row is.
NextRow ==
    LET open == {i \in 1 .. Len(STEPS) : STEPS[i] \notin journal.done}
    IN  IF open = {} THEN None
        ELSE STEPS[CHOOSE i \in open : \A j \in open : i <= j]

\* _approval: the private record of the row is approved and its window is open.
ApprovalValid == approved

\* _existing_receipt
HasReceipt(r) == receipts[r] # 0

Running(pc) == ctl.pc = pc
Goto(pc) == ctl' = [ctl EXCEPT !.pc = pc]
Fault == fails < MaxFails /\ fails' = fails + 1

----------------------------------------------------------------------------
(* The rollback verb of observability-operator.py: the retained generation *)
(* must be the one previous.yml names; the control-plane role then keeps   *)
(* the current generation as the previous one.                             *)
Retained == gen.previous = "known"
RolledBack ==
    IF gen.current = "known" THEN gen
    ELSE [current |-> "known", previous |-> gen.current]

\* _default_restore: a fault is repaired, an activation is rolled back, a
\* refusal only if another generation became current; every other row has
\* nothing to restore.
RollsBack(r) == Kind[r] = "activation" \/ (Kind[r] = "refusal" /\ gen.current # "known")

CanRestore(r) == RollsBack(r) => Retained

RestoreHosts(r) ==
    /\ CanRestore(r)
    /\ held' = held \ {r}
    /\ gen' = IF RollsBack(r) THEN RolledBack ELSE gen
    /\ UNCHANGED removed

\* A restorer that fails changes nothing, or stops after the role has already
\* made the active generation the previous one.
RestoreFails(r) ==
    /\ \/ ~CanRestore(r) /\ UNCHANGED <<gen, fails>>
       \/ Fault /\ UNCHANGED gen
       \/ /\ Fault /\ CanRestore(r) /\ RollsBack(r)
          /\ gen.current # "known"
          /\ gen' = [gen EXCEPT !.previous = gen.current]
    /\ UNCHANGED <<held, removed>>

\* _silence_binding: a restorer or executor that was given a newer approval
\* finds no silence of its own and leaves the one that is there.
Orphaned(r) == Kind[r] = "silence" /\ r \in held

----------------------------------------------------------------------------
(* One invocation of advance.                                              *)

\* A run is named by its start time, of which only equality matters: the least
\* stamp that neither the receipt nor the observation of the row refers to.
FreshRun(r) ==
    CHOOSE n \in 1 .. 3 : /\ n \notin {observed[r].run, receipts[r]}
                         /\ \A m \in 1 .. n - 1 : m \in {observed[r].run, receipts[r]}

\* No row is in flight: the approval of the next row is checked and the row
\* is recorded in the journal before anything is touched.
Begin ==
    /\ Running("idle")
    /\ journal.status # "ready-for-cleanup" /\ journal.current = None
    /\ NextRow # None /\ ApprovalValid
    /\ journal' = [journal EXCEPT !.status = "active", !.current = NextRow,
                                  !.run = FreshRun(NextRow)]
    /\ ctl' = [pc |-> "run", row |-> NextRow]
    /\ UNCHANGED <<receipts, observed, approved, held, gen, removed, proved,
                   kills, fails>>

\* The executor of a row that leaves nothing behind.
Check ==
    /\ Running("run") /\ Kind[ctl.row] = "check"
    /\ Goto("done")
    /\ UNCHANGED <<journal, receipts, observed, approved, held, gen, removed,
                   proved, kills, fails>>

\* The executor's first look: a component that is still down fails a row that
\* requires healthy components, the authority row needs the revocation the
\* owner made, the rows about generations need the right one.
Baseline(r) ==
    CASE Kind[r] \in {"queue", "producer", "units", "host"} -> r \notin held
      [] Kind[r] = "authority" -> r \in held
      [] Kind[r] \in {"refusal", "activation"} -> gen.current = "known"
      [] Kind[r] = "rollback" -> gen.current # "known" /\ gen.previous = "known"
      [] OTHER -> TRUE

BaselineRejected ==
    /\ Running("run") /\ ~Baseline(ctl.row)
    /\ Goto("restore")
    /\ UNCHANGED <<journal, receipts, observed, approved, held, gen, removed,
                   proved, kills, fails>>

\* The fault of the row is put in place.
Inject(kind, to) ==
    /\ Running("run") /\ Kind[ctl.row] = kind /\ Baseline(ctl.row)
    /\ held' = held \cup {ctl.row}
    /\ Goto(to)
    /\ UNCHANGED <<journal, receipts, observed, approved, gen, removed, proved,
                   kills, fails>>

StopIngress == Inject("queue", "held")
HoldProducer == Inject("producer", "producer")
RaiseAlerts == Inject("alerts", "held")
Silence == Inject("silence", "held")
StopUnits == Inject("units", "held")
PowerOff == Inject("host", "held")
AuthorityLost == Inject("authority", "held")

\* An earlier run's silence is not removed first if the approval is a new one.
SilenceAgain ==
    /\ Running("run") /\ Orphaned(ctl.row)
    /\ held' = held \cup {Orphan}
    /\ Goto("held")
    /\ UNCHANGED <<journal, receipts, observed, approved, gen, removed, proved,
                   kills, fails>>

\* The role guard refused the candidate and nothing changed.
Refused ==
    /\ Running("run") /\ Kind[ctl.row] = "refusal" /\ Baseline(ctl.row)
    /\ Goto("verify")
    /\ UNCHANGED <<journal, receipts, observed, approved, held, gen, removed,
                   proved, kills, fails>>

\* It accepted it: the row fails with the other generation current.
Accepted ==
    /\ Running("run") /\ Kind[ctl.row] = "refusal" /\ Baseline(ctl.row)
    /\ Fault
    /\ gen' = [current |-> "candidate", previous |-> gen.current]
    /\ Goto("restore")
    /\ UNCHANGED <<journal, receipts, observed, approved, held, removed, proved,
                   kills>>

\* Evidence of the stale producer is there: it is restored, then the agent of
\* the same row is stopped.
RestoreProducer ==
    /\ Running("producer")
    /\ held' = held \ {ctl.row}
    /\ Goto("agent")
    /\ UNCHANGED <<journal, receipts, observed, approved, gen, removed, proved,
                   kills, fails>>

StopAgent ==
    /\ Running("agent")
    /\ held' = held \cup {ctl.row}
    /\ Goto("held")
    /\ UNCHANGED <<journal, receipts, observed, approved, gen, removed, proved,
                   kills, fails>>

\* The evidence of the fault is there, and the executor repairs it.
Repair(kind) ==
    /\ Running("held") /\ Kind[ctl.row] = kind
    /\ held' = held \ {ctl.row}
    /\ Goto("verify")
    /\ UNCHANGED <<journal, receipts, observed, approved, gen, removed, proved,
                   kills, fails>>

StartIngress == Repair("queue")
StartAgent == Repair("producer")
ResolveAlerts == Repair("alerts")
DeleteSilence == Repair("silence")
PowerOn == Repair("host")
ReplaceAuthority == Repair("authority")

StartUnits == Repair("units")

\* The control-plane role: previous.yml keeps the current generation, then
\* current.yml is pointed at the other one.
Target(r) == IF Kind[r] = "activation" THEN "candidate" ELSE "known"

Preserve ==
    /\ Running("run") /\ Kind[ctl.row] \in {"activation", "rollback"}
    /\ Baseline(ctl.row)
    /\ gen' = [gen EXCEPT !.previous =
                  IF gen.current = Target(ctl.row) THEN @ ELSE gen.current]
    /\ Goto("switch")
    /\ UNCHANGED <<journal, receipts, observed, approved, held, removed, proved,
                   kills, fails>>

Switch ==
    /\ Running("switch")
    /\ gen' = [gen EXCEPT !.current = Target(ctl.row)]
    /\ Goto("verify")
    /\ UNCHANGED <<journal, receipts, observed, approved, held, removed, proved,
                   kills, fails>>

\* The fresh evidence that the components recovered.
Verify ==
    /\ Running("verify")
    /\ Goto("done")
    /\ UNCHANGED <<journal, receipts, observed, approved, held, gen, removed,
                   proved, kills, fails>>

\* component-removal: the operator removes one component after the other; the
\* removal of a component that is already gone changes nothing.
Remove(c) ==
    /\ Running("run") /\ Kind[ctl.row] = "removal"
    /\ c \notin removed
    /\ removed' = removed \cup {c}
    /\ IF removed' = Components THEN Goto("done") ELSE UNCHANGED ctl
    /\ UNCHANGED <<journal, receipts, observed, approved, held, gen, proved,
                   kills, fails>>

RemovedAlready ==
    /\ Running("run") /\ Kind[ctl.row] = "removal" /\ removed = Components
    /\ Goto("done")
    /\ UNCHANGED <<journal, receipts, observed, approved, held, gen, removed,
                   proved, kills, fails>>

\* A remote action, a query or an evidence deadline fails.  The command that
\* failed may have had its effect; a guarded fault is repaired on the way out,
\* unless that fails too.
ExecutorFails ==
    /\ ctl.pc \in {"run", "producer", "agent", "held", "switch", "verify"} /\ Fault
    /\ \/ UNCHANGED held
       \/ /\ ctl.pc \in {"producer", "held"} /\ Kind[ctl.row] \in Guarded
          /\ held' = held \ {ctl.row}
       \/ /\ ctl.pc \in {"run", "agent"} /\ Kind[ctl.row] \in Faulty
          /\ held' = held \cup {ctl.row}
    /\ Goto("restore")
    /\ UNCHANGED <<journal, receipts, observed, approved, gen, removed, proved,
                   kills>>

\* The receipt of the run, published before the observation is looked at.
\* A receipt of another run is a conflict.
Publish ==
    /\ Running("done")
    /\ receipts[ctl.row] \in {0, journal.run}
    /\ receipts' = [receipts EXCEPT ![ctl.row] = journal.run]
    /\ proved' = [proved EXCEPT ![ctl.row] = journal.run]
    /\ Goto("observe")
    /\ UNCHANGED <<journal, observed, approved, held, gen, removed, kills, fails>>

\* _observations: the record names this run and the digest of its receipt, and
\* was made after the run completed.
ObservationBound(r) ==
    r \in OBSERVED => observed[r] = [run |-> journal.run, bound |-> TRUE]

\* _record_completion; the journal takes its terminal form when every row is
\* completed and every observation is there.
Record(r) ==
    LET done == journal.done \cup {r} IN
    /\ ObservationBound(r)
    /\ journal' = [journal EXCEPT !.done = done, !.current = None, !.run = 0,
           !.status = IF done = Rows /\ \A o \in OBSERVED : observed[o].run # 0
                      THEN "ready-for-cleanup" ELSE @]
    /\ approved' = FALSE

Complete ==
    /\ Running("observe")
    /\ Record(ctl.row)
    /\ ctl' = Idle
    /\ UNCHANGED <<receipts, observed, held, gen, removed, proved, kills, fails>>

\* "human observation required": the row and its receipt stay current.
AwaitObservation ==
    /\ Running("observe") /\ ~ObservationBound(ctl.row)
    /\ ctl' = Idle
    /\ UNCHANGED <<journal, receipts, observed, approved, held, gen, removed,
                   proved, kills, fails>>

\* The restorer of a failed run; whether it succeeds or not, the journal then
\* forgets the row ("bounded restore failed" is only reported).
Restore ==
    /\ Running("restore")
    /\ \/ RestoreHosts(ctl.row) /\ UNCHANGED fails
       \/ RestoreFails(ctl.row)
    /\ Goto("forget")
    /\ UNCHANGED <<journal, receipts, observed, approved, proved, kills>>

Forget ==
    /\ Running("forget")
    /\ journal' = [journal EXCEPT !.current = None, !.run = 0,
                                  !.status = "incomplete"]
    /\ ctl' = Idle
    /\ UNCHANGED <<receipts, observed, approved, held, gen, removed, proved,
                   kills, fails>>

\* An interrupted row with a receipt is completed without repeating it.
Reconcile ==
    /\ Running("idle") /\ journal.current # None
    /\ HasReceipt(journal.current)
    /\ Record(journal.current)
    /\ UNCHANGED <<receipts, observed, held, gen, removed, ctl, proved, kills, fails>>

\* Mutation: an interrupted row is restored although its receipt is there.
Interrupted_anyway ==
    /\ Running("idle") /\ journal.current # None /\ ApprovalValid
    /\ RestoreHosts(journal.current)
    /\ ctl' = [pc |-> "forget", row |-> journal.current]
    /\ UNCHANGED <<journal, receipts, observed, approved, proved, kills, fails>>

\* One without a receipt is restored; a restorer that fails leaves the journal
\* as it is.
Interrupted ==
    /\ Running("idle") /\ journal.current # None
    /\ ~HasReceipt(journal.current) /\ ApprovalValid
    /\ \/ /\ RestoreHosts(journal.current) /\ UNCHANGED fails
          /\ ctl' = [pc |-> "forget", row |-> journal.current]
       \/ RestoreFails(journal.current) /\ UNCHANGED ctl
       \/ /\ Orphaned(journal.current)
          /\ held' = (held \ {journal.current}) \cup {Orphan}
          /\ ctl' = [pc |-> "forget", row |-> journal.current]
          /\ UNCHANGED <<gen, removed, fails>>
    /\ UNCHANGED <<journal, receipts, observed, approved, proved, kills>>

\* The invocation is interrupted, with the commands it runs.
Kill ==
    /\ ~Running("idle") /\ kills < MaxKills
    /\ kills' = kills + 1
    /\ ctl' = Idle
    /\ UNCHANGED <<journal, receipts, observed, approved, held, gen, removed,
                   proved, fails>>

----------------------------------------------------------------------------
(* The owner.                                                              *)

Approve ==
    /\ ~approved /\ journal.status # "ready-for-cleanup"
    /\ approved' = TRUE
    /\ UNCHANGED <<journal, receipts, observed, held, gen, removed, ctl, proved,
                   kills, fails>>

Expire ==
    /\ approved
    /\ approved' = FALSE
    /\ UNCHANGED <<journal, receipts, observed, held, gen, removed, ctl, proved,
                   kills, fails>>

\* The owner records what was seen of the row in flight: before its receipt
\* exists the record cannot bind it.
Observe ==
    LET r == journal.current IN
    /\ r \in OBSERVED
    /\ LET record == [run |-> journal.run, bound |-> receipts[r] = journal.run]
       IN  /\ observed[r] # record
           /\ observed' = [observed EXCEPT ![r] = record]
    /\ UNCHANGED <<journal, receipts, approved, held, gen, removed, ctl, proved,
                   kills, fails>>

\* The owner revokes the primary authority for the row that needs it.
Revoke ==
    /\ Running("idle") /\ journal.current = None /\ NextRow # None
    /\ Kind[NextRow] = "authority" /\ NextRow \notin held
    /\ held' = held \cup {NextRow}
    /\ UNCHANGED <<journal, receipts, observed, approved, gen, removed, ctl,
                   proved, kills, fails>>

\* A silence is finite.
SilenceEnds ==
    /\ Orphan \in held
    /\ held' = held \ {Orphan}
    /\ UNCHANGED <<journal, receipts, observed, approved, gen, removed, ctl,
                   proved, kills, fails>>

\* The sequence is over: nothing but the cleanup controller follows.
Finished ==
    /\ journal.status = "ready-for-cleanup"
    /\ UNCHANGED vars

Controller ==
    \/ Begin \/ Check \/ BaselineRejected
    \/ StopIngress \/ HoldProducer \/ RaiseAlerts \/ Silence \/ SilenceAgain
    \/ StopUnits \/ PowerOff \/ Refused
    \/ AuthorityLost \/ RestoreProducer \/ StopAgent
    \/ StartIngress \/ StartAgent \/ ResolveAlerts \/ DeleteSilence
    \/ StartUnits \/ PowerOn
    \/ ReplaceAuthority \/ Preserve \/ Switch
    \/ Verify \/ (\E c \in Components : Remove(c)) \/ RemovedAlready
    \/ Publish \/ Complete \/ AwaitObservation \/ Restore \/ Forget
    \/ Reconcile \/ Interrupted

Next ==
    \/ Controller \/ ExecutorFails \/ Accepted \/ Kill
    \/ Approve \/ Expire \/ Observe \/ Revoke \/ SilenceEnds \/ Finished

Spec == Init /\ [][Next]_vars

----------------------------------------------------------------------------
(* Properties.                                                             *)

\* Every fault on the hosts, and the candidate generation, belongs to the row
\* the journal will run or restore next: no later row ever starts on hosts an
\* earlier row left broken, whatever failed or was killed (the restores of
\* advance, _default_execute and _default_restore).  One fault escapes them: a
\* silence left by a killed row whose approval was written anew, which only its
\* own expiry ends.
FaultAccounted ==
    /\ \A r \in held \ {Orphan} : r = NextRow
    /\ gen.current = "candidate" =>
           NextRow # None /\ Kind[NextRow] \in {"refusal", "activation", "rollback"}

\* A completed row was carried out by the run its receipt describes, and its
\* observation is the owner's about that very run; the terminal journal stands
\* for all rows, with nothing broken and every component gone (the bindings of
\* _observations, _existing_receipt and _record_completion).
CompletedIsProven ==
    /\ \A r \in journal.done :
          /\ receipts[r] # 0 /\ receipts[r] = proved[r]
          /\ r \in OBSERVED => observed[r] = [run |-> receipts[r], bound |-> TRUE]
    /\ journal.status = "ready-for-cleanup" =>
          journal.done = Rows /\ held \subseteq {Orphan} /\ gen.current # "candidate"

\* A row that has a receipt is never started again, so a fault is not injected
\* twice for one observation (the comment at the end of advance).
NeverRepeated ==
    \A r \in Rows : journal.current = None /\ journal'.current = r
         => receipts[r] = 0 /\ r \notin journal.done

=============================================================================
