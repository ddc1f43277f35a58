-------------------------- MODULE FleetMaintenance --------------------------
(***************************************************************************)
(* Maintenance of existing nodes by detached workers (fleet-maintenance.py *)
(* over the journal of recovery_io.py).  A plan names its nodes in order.  *)
(* prepare, preview, start and resume are admitted under one lock per      *)
(* resource; a worker decrypts into a private directory it has claimed in  *)
(* the journal, runs the stages of one node after the other, and removes   *)
(* the plaintext after success and failure alike.  A worker's death takes  *)
(* its commands with it (their supervisor polls every 10 ms) and frees its *)
(* locks; the journal, the directory and a half deployed node stay.        *)
(***************************************************************************)
EXTENDS Sequences, Integers, FiniteSets, TLAPS

CONSTANTS Plans,      \* maintenance plans, each with its own state directory
          Node,       \* the nodes of the fleet
          NodesOf,    \* the ordered nodes of each plan
          Dirs,       \* names of temporary directories
          None,
          MaxAdverse  \* bound on deaths, failing steps and foreign files

PlansAssumption ==
    /\ NodesOf \in [Plans -> Seq(Node)]
    /\ \A p \in Plans : Len(NodesOf[p]) > 0
    /\ None \notin Plans \cup Node \cup Dirs
AdverseAssumption == MaxAdverse \in Nat

Actions == {"preview", "start", "resume"}
\* The digest of a preview's logs: a new one differs from those known so far
Reviews == 1 .. 3
Material == {"inputs", "secret", "foreign"}
Goals == {"decrypt", "dry-run", "deploy", "verify"}
Statuses == {"none", "prepared", "running", "previewed", "failed", "complete"}

Journal == [status : Statuses, accepted : SUBSET Node, review : Reviews \cup {0},
            cleanup : {"absent", "after-failure", "failed"}, runtime : Dirs \cup {None}]
Pcs == {"idle", "list", "sweep", "swept", "recheck", "node", "claim", "attempt", "stage",
        "command", "gate", "clean", "cleaned", "dirty"}
Worker == [at : Pcs, action : Actions, k : Nat, goal : Goals, dir : Dirs \cup {None},
           ret : {"start", "clean", "again"}, failed : {"no", "yes"}]

VARIABLES
    journal,   \* journal.json of each plan
    made,      \* the temporary directories of each plan that exist
    room,      \* what is in them
    worker,    \* the worker of each plan; it holds the plan's locks
    deployed,  \* what each node runs: a plan's source, or a mix
    valid,     \* source, inputs and deadline of a plan are as prepared
    approved,  \* the review digest the operator last authorized
    adverse

vars == <<journal, made, room, worker, deployed, valid, approved, adverse>>

Idle == [at |-> "idle", action |-> "preview", k |-> 1, goal |-> "decrypt", dir |-> None,
         ret |-> "start", failed |-> "no"]
NoJournal == [status |-> "none", accepted |-> {}, review |-> 0, cleanup |-> "absent",
              runtime |-> None]

Range(s) == {s[i] : i \in DOMAIN s}
\* resource_lock: every run locks the address of each of its nodes
Resources(p) == Range(NodesOf[p])
At(p, pc) == worker[p].at = pc
NodeOf(p) == NodesOf[p][worker[p].k]
Goto(p, pc) == worker' = [worker EXCEPT ![p].at = pc]
Exit(p) == worker' = [worker EXCEPT ![p] = Idle]
Save(p, j) == journal' = [journal EXCEPT ![p] = j]
Disk == <<made, room>>

Init ==
    /\ journal = [p \in Plans |-> NoJournal]
    /\ made = [p \in Plans |-> {}]
    /\ room = [p \in Plans |-> [d \in Dirs |-> {}]]
    /\ worker = [p \in Plans |-> Idle]
    /\ deployed = [n \in Node |-> None]
    /\ valid = [p \in Plans |-> "yes"]
    /\ approved = [p \in Plans |-> 0]
    /\ adverse = 0

-----------------------------------------------------------------------------
(* The operator's commands                                                 *)

\* A second prepare of the very same plan starts the operation anew; what the
\* journal says of a retained directory stays.
Prepare(p) ==
    /\ At(p, "idle") /\ valid[p] = "yes"
    /\ Save(p, [NoJournal EXCEPT !.status = "prepared", !.runtime = journal[p].runtime])
    /\ UNCHANGED <<Disk, worker, deployed, valid, approved, adverse>>

\* The operator decrypts the logs of the last complete preview and approves.
Approve(p) ==
    /\ journal[p].review # 0
    /\ approved' = [approved EXCEPT ![p] = journal[p].review]
    /\ UNCHANGED <<journal, Disk, worker, deployed, valid, adverse>>

Locks(p) == \A q \in Plans : At(q, "idle") \/ (q # p /\ Resources(q) \cap Resources(p) = {})

\* Mutation: any approval given so far is accepted.
AdmitsAnyApproval(p, action) ==
    /\ journal[p].status \notin {"none", "complete"}
    /\ action # "preview" => journal[p].review # 0 /\ approved[p] # 0
    /\ action = "start" => journal[p].status = "previewed"

Admits(p, action) ==
    /\ journal[p].status \notin {"none", "complete"}
    /\ action # "preview" => journal[p].review # 0 /\ approved[p] = journal[p].review
    /\ action = "start" => journal[p].status = "previewed"

Launch(p, action) ==
    /\ Locks(p) /\ Admits(p, action)
    /\ worker' = [worker EXCEPT ![p] = [Idle EXCEPT !.at = "list", !.action = action]]
    /\ UNCHANGED <<journal, Disk, deployed, valid, approved, adverse>>

-----------------------------------------------------------------------------
(* cleanup_retained: nothing is unlinked from a directory with a foreign   *)
(* file; the claim is dropped last.                                        *)

\* where a cleanup that raises leads, by its caller
Refused(p) ==
    CASE worker[p].ret = "start" -> Exit(p)
      [] worker[p].ret = "clean" -> worker' = [worker EXCEPT ![p].at = "list", ![p].ret = "again"]
      [] worker[p].ret = "again" -> Goto(p, "dirty")

List(p) ==
    /\ At(p, "list")
    /\ LET d == journal[p].runtime
       IN  IF d = None \/ d \notin made[p] THEN Goto(p, "swept")
           ELSE IF "foreign" \in room[p][d] THEN Refused(p)
           ELSE Goto(p, "sweep")
    /\ UNCHANGED <<journal, Disk, deployed, valid, approved, adverse>>

Unlink(p) ==
    /\ At(p, "sweep")
    /\ \E m \in room[p][journal[p].runtime] \ {"foreign"} :
          room' = [room EXCEPT ![p][journal[p].runtime] = @ \ {m}]
    /\ UNCHANGED <<journal, made, worker, deployed, valid, approved, adverse>>

Rmdir(p) ==
    /\ At(p, "sweep")
    /\ LET d == journal[p].runtime
       IN  \/ /\ room[p][d] = {}
              /\ made' = [made EXCEPT ![p] = @ \ {d}]
              /\ Goto(p, "swept")
           \/ /\ room[p][d] = {"foreign"}
              /\ Refused(p)
              /\ UNCHANGED made
    /\ UNCHANGED <<journal, room, deployed, valid, approved, adverse>>

\* what follows a complete cleanup, by its caller
AfterSweep == [start |-> "recheck", clean |-> "cleaned", again |-> "dirty"]

Swept(p) ==
    /\ At(p, "swept")
    /\ Save(p, [journal[p] EXCEPT !.runtime = None])
    /\ Goto(p, AfterSweep[worker[p].ret])
    /\ UNCHANGED <<Disk, deployed, valid, approved, adverse>>

-----------------------------------------------------------------------------
(* execute                                                                 *)

Recheck(p) ==
    /\ At(p, "recheck")
    /\ IF valid[p] = "yes"
       THEN /\ Save(p, [journal[p] EXCEPT !.status = "running"])
            /\ Goto(p, "node")
       ELSE Exit(p) /\ UNCHANGED journal
    /\ UNCHANGED <<Disk, deployed, valid, approved, adverse>>

Skipped(p) == worker[p].action # "preview" /\ NodeOf(p) \in journal[p].accepted

\* Accepted nodes are passed over, the next one gets a directory of its own.
NextNode(p) ==
    /\ At(p, "node") /\ worker[p].k <= Len(NodesOf[p])
    /\ \/ /\ Skipped(p)
          /\ worker' = [worker EXCEPT ![p].k = @ + 1]
          /\ UNCHANGED made
       \/ /\ ~Skipped(p)
          /\ \E d \in Dirs \ made[p] :
                /\ made' = [made EXCEPT ![p] = @ \cup {d}]
                /\ worker' = [worker EXCEPT ![p].at = "claim", ![p].dir = d]
    /\ UNCHANGED <<journal, room, deployed, valid, approved, adverse>>

Claim(p) ==
    /\ At(p, "claim")
    /\ Save(p, [journal[p] EXCEPT !.runtime = worker[p].dir])
    /\ Goto(p, "attempt")
    /\ UNCHANGED <<Disk, deployed, valid, approved, adverse>>

\* an exception inside the try block: canonical cleanup, then 'failed'
Raise(p) == worker' = [worker EXCEPT ![p].at = "clean", ![p].failed = "yes"]

\* prepare_attempt copies the encrypted secrets and the age identity.
Attempt(p) ==
    /\ At(p, "attempt")
    /\ room' = [room EXCEPT ![p][worker[p].dir] = @ \cup {"inputs"}]
    /\ IF valid[p] = "yes" THEN worker' = [worker EXCEPT ![p].at = "stage", ![p].goal = "decrypt"]
       ELSE Raise(p)
    /\ UNCHANGED <<journal, made, deployed, valid, approved, adverse>>

\* The frozen inputs are checked again and the command runs (the intent the
\* journal keeps of it is information for the operator only):
\* decrypt writes plaintext, deploy leaves the node between two sources.
StageBegin(p) ==
    /\ At(p, "stage")
    /\ IF valid[p] = "no" THEN Raise(p) /\ UNCHANGED <<room, deployed>>
       ELSE /\ Goto(p, "command")
            /\ room' = IF worker[p].goal = "decrypt"
                       THEN [room EXCEPT ![p][worker[p].dir] = @ \cup {"secret"}] ELSE room
            /\ deployed' = IF worker[p].goal = "deploy"
                           THEN [deployed EXCEPT ![NodeOf(p)] = None] ELSE deployed
    /\ UNCHANGED <<journal, made, valid, approved, adverse>>

\* verify, security-verify and smoke-test read only and are one stage.
GoalAfter == [g \in Goals |-> CASE g = "decrypt" -> "dry-run" [] g = "dry-run" -> "deploy"
                                [] OTHER -> "verify"]
LastGoal(p) == IF worker[p].action = "preview" THEN "dry-run" ELSE "verify"

StageEnd(p) ==
    /\ At(p, "command")
    /\ deployed' = IF worker[p].goal = "deploy"
                   THEN [deployed EXCEPT ![NodeOf(p)] = p] ELSE deployed
    /\ IF worker[p].goal # LastGoal(p)
       THEN worker' = [worker EXCEPT ![p].at = "stage", ![p].goal = GoalAfter[@]]
       ELSE Goto(p, IF worker[p].action = "preview" THEN "clean" ELSE "gate")
    /\ UNCHANGED <<journal, Disk, valid, approved, adverse>>

Adverse == adverse < MaxAdverse /\ adverse' = adverse + 1

\* The command fails, is cancelled or times out.
StageFail(p) ==
    /\ At(p, "command") /\ Adverse
    /\ Raise(p)
    /\ UNCHANGED <<journal, Disk, deployed, valid, approved>>

\* protocol_gate: the node reports this plan's source and serves its protocols.
GatePass(p) ==
    /\ At(p, "gate") /\ valid[p] = "yes" /\ deployed[NodeOf(p)] = p
    /\ Goto(p, "clean")
    /\ UNCHANGED <<journal, Disk, deployed, valid, approved, adverse>>

GateFail(p) ==
    /\ At(p, "gate")
    /\ \/ (valid[p] = "no" \/ deployed[NodeOf(p)] # p) /\ UNCHANGED adverse
       \/ Adverse
    /\ Raise(p)
    /\ UNCHANGED <<journal, Disk, deployed, valid, approved>>

\* make clean removes the decrypted file, the copies are left to the sweep.
Clean(p) ==
    /\ At(p, "clean")
    /\ room' = [room EXCEPT ![p][worker[p].dir] = @ \ {"secret"}]
    /\ worker' = [worker EXCEPT ![p].at = "list", ![p].ret = "clean"]
    /\ UNCHANGED <<journal, made, deployed, valid, approved, adverse>>

CleanFail(p) ==
    /\ At(p, "clean") /\ Adverse
    /\ worker' = [worker EXCEPT ![p].at = "list", ![p].ret = "again"]
    /\ UNCHANGED <<journal, Disk, deployed, valid, approved>>

\* Canonical cleanup failed: the second sweep decides what is reported.
Dirty(p) ==
    /\ At(p, "dirty")
    /\ Save(p, [journal[p] EXCEPT !.status = "failed",
                   !.cleanup = IF journal[p].runtime = None THEN "after-failure" ELSE "failed"])
    /\ Exit(p)
    /\ UNCHANGED <<Disk, deployed, valid, approved, adverse>>

Cleaned(p) ==
    /\ At(p, "cleaned")
    /\ IF worker[p].failed = "yes"
       THEN /\ Save(p, [journal[p] EXCEPT !.cleanup = "absent", !.status = "failed"])
            /\ Exit(p)
       ELSE /\ Save(p, [journal[p] EXCEPT !.cleanup = "absent",
                           !.accepted = IF worker[p].action = "preview" THEN @ ELSE @ \cup {NodeOf(p)}])
            /\ worker' = [worker EXCEPT ![p].at = "node", ![p].k = @ + 1, ![p].dir = None]
    /\ UNCHANGED <<Disk, deployed, valid, approved, adverse>>

Finish(p) ==
    /\ At(p, "node") /\ worker[p].k > Len(NodesOf[p])
    /\ IF worker[p].action = "preview"
       THEN \E r \in Reviews \ {journal[p].review, approved[p]} :
               Save(p, [journal[p] EXCEPT !.status = "previewed", !.review = r])
       ELSE Save(p, [journal[p] EXCEPT !.status = "complete"])
    /\ Exit(p)
    /\ UNCHANGED <<Disk, deployed, valid, approved, adverse>>

-----------------------------------------------------------------------------
(* The environment                                                         *)

Die(p) ==
    /\ ~At(p, "idle") /\ Adverse
    /\ Exit(p)
    /\ UNCHANGED <<journal, Disk, deployed, valid, approved>>

\* The source, an input or the clock moves past what was prepared.
Outdate(p) ==
    /\ valid[p] = "yes"
    /\ valid' = [valid EXCEPT ![p] = "no"]
    /\ UNCHANGED <<journal, Disk, worker, deployed, approved, adverse>>

\* Somebody leaves a file of his own in a runtime directory, or removes it.
Intrude(p) ==
    /\ Adverse
    /\ \E d \in made[p] : room' = [room EXCEPT ![p][d] = @ \cup {"foreign"}]
    /\ UNCHANGED <<journal, made, worker, deployed, valid, approved>>

Withdraw(p) ==
    /\ \E d \in made[p] : "foreign" \in room[p][d] /\ room' = [room EXCEPT ![p][d] = @ \ {"foreign"}]
    /\ UNCHANGED <<journal, made, worker, deployed, valid, approved, adverse>>

Work(p) ==
    \/ List(p) \/ Unlink(p) \/ Rmdir(p) \/ Swept(p) \/ Recheck(p) \/ NextNode(p) \/ Claim(p)
    \/ Attempt(p) \/ StageBegin(p) \/ StageEnd(p) \/ GatePass(p) \/ GateFail(p) \/ Clean(p)
    \/ Dirty(p) \/ Cleaned(p) \/ Finish(p)

Next == \E p \in Plans :
    \/ Prepare(p) \/ Approve(p) \/ (\E a \in Actions : Launch(p, a))
    \/ Work(p) \/ StageFail(p) \/ CleanFail(p)
    \/ Die(p) \/ Outdate(p) \/ Intrude(p) \/ Withdraw(p)

Spec == Init /\ [][Next]_vars

-----------------------------------------------------------------------------
(* Properties                                                              *)

\* The journal, the directories and the workers have the shape the code writes.
TypeOK ==
    /\ journal \in [Plans -> Journal]
    /\ made \in [Plans -> SUBSET Dirs]
    /\ room \in [Plans -> [Dirs -> SUBSET Material]]
    /\ worker \in [Plans -> Worker]
    /\ deployed \in [Node -> Plans \cup {None}]
    /\ valid \in [Plans -> {"yes", "no"}]
    /\ approved \in [Plans -> Reviews \cup {0}]
    /\ adverse \in 0 .. MaxAdverse

Owned == {"inputs", "secret"}

\* Whenever a worker dies, credentials on disk are in the one directory the
\* journal names, so that the next admitted run finds and removes them.
PlaintextClaimed ==
    \A p \in Plans, d \in Dirs :
        room[p][d] \cap Owned # {} => d \in made[p] /\ journal[p].runtime = d

\* A verdict that reports the plaintext as removed is true, also after a second
\* prepare, a failed stage, a failed make clean or a foreign file.
VerdictClean ==
    \A p \in Plans :
        \/ journal[p].status \notin {"previewed", "complete", "failed"}
        \/ journal[p].cleanup = "failed"
        \/ \A d \in Dirs : room[p][d] \cap Owned = {}

\* A node is accepted only while it runs exactly the source of the plan: no
\* other plan, from whatever worktree, deploys to it between its first stage
\* and its acceptance, and no failed or skipped stage is taken for a success.
AcceptsWhatRuns ==
    \A p \in Plans, n \in Node :
       n \in journal'[p].accepted \ journal[p].accepted => deployed[n] = p

\* A node changes only when every earlier node of the plan has been accepted,
\* and under the review the operator approved and that no later preview replaced.
SerialAndApproved ==
    \A p \in Plans :
       (At(p, "stage") /\ worker'[p].at = "command" /\ worker[p].goal = "deploy") =>
          /\ \A i \in 1 .. (worker[p].k - 1) : NodesOf[p][i] \in journal[p].accepted
          /\ worker[p].action # "preview"
          /\ journal[p].review # 0 /\ approved[p] = journal[p].review

-----------------------------------------------------------------------------
(* The inductive invariant                                                 *)

Sweeping(p) == worker[p].at \in {"list", "sweep", "swept"}

\* The places between the recheck of the inputs and the end of a node.
InNode(p) ==
    \/ worker[p].at \in {"claim", "attempt", "stage", "command", "gate", "clean", "cleaned", "dirty"}
    \/ Sweeping(p) /\ worker[p].ret # "start"

\* Runs that are under way at the same time have no node in common.
LocksInv ==
    \A p, q \in Plans :
        p = q \/ At(p, "idle") \/ At(q, "idle") \/ Resources(p) \cap Resources(q) = {}

\* Credentials are in the one directory the journal names.
ClaimInv(p) ==
    \A d \in Dirs : room[p][d] \cap Owned # {} => d \in made[p] /\ journal[p].runtime = d

\* What the journal says of the directory at each place; a new one is claimed
\* only after the last one is gone.
DirInv(p) ==
    /\ worker[p].at \in {"recheck", "node", "claim", "cleaned"} => journal[p].runtime = None
    /\ worker[p].at \in {"claim", "attempt", "stage", "command", "gate", "clean"} =>
           worker[p].dir \in made[p]
    /\ worker[p].at \in {"attempt", "stage", "command", "gate", "clean"} =>
           journal[p].runtime = worker[p].dir
    /\ worker[p].at = "sweep" => journal[p].runtime \in made[p]
    /\ worker[p].at = "swept" => journal[p].runtime \notin made[p]

\* No verdict stands while a worker may write plaintext.
VerdictInv(p) ==
    /\ \/ journal[p].status \notin {"previewed", "complete", "failed"}
       \/ journal[p].cleanup = "failed"
       \/ \A d \in Dirs : room[p][d] \cap Owned = {}
    /\ InNode(p) \/ At(p, "node") => journal[p].status = "running"

\* From the gate to the acceptance the node runs the source of the plan.
RunsInv(p) ==
    /\ worker[p].k >= 1
    /\ InNode(p) => worker[p].k <= Len(NodesOf[p])
    /\ /\ worker[p].at \in {"clean", "cleaned"} \/ (Sweeping(p) /\ worker[p].ret = "clean")
       /\ worker[p].failed = "no" /\ worker[p].action # "preview"
       => deployed[NodeOf(p)] = p

\* Earlier nodes are accepted, and the review is the approved one.
OrderInv(p) ==
    /\ worker[p].action = "preview" => worker[p].goal \in {"decrypt", "dry-run"}
    /\ ~At(p, "idle") /\ worker[p].action # "preview" =>
           /\ journal[p].review # 0 /\ approved[p] = journal[p].review
           /\ \A i \in 1 .. (worker[p].k - 1) : NodesOf[p][i] \in journal[p].accepted

PlanInv(p) == ClaimInv(p) /\ DirInv(p) /\ VerdictInv(p) /\ RunsInv(p) /\ OrderInv(p)

PlansInv == \A p \in Plans : PlanInv(p)

IInv == TypeOK /\ LocksInv /\ PlansInv

-----------------------------------------------------------------------------
(* One plan works at a time                                                *)

\* What the step of one plan leaves alone of another, and of the nodes.
Untouched(q) ==
    /\ journal'[q] = journal[q] /\ made'[q] = made[q] /\ room'[q] = room[q]
    /\ worker'[q] = worker[q] /\ approved'[q] = approved[q]
OnOwnNode(p) ==
    \/ UNCHANGED deployed
    \/ /\ ~At(p, "idle") /\ NodeOf(p) \in Resources(p)
       /\ \A n \in Node \ {NodeOf(p)} : deployed'[n] = deployed[n]

LEMMA Shape ==
    ASSUME TypeOK, NEW p \in Plans
    PROVE  /\ worker[p] \in Worker /\ journal[p] \in Journal /\ made[p] \subseteq Dirs
           /\ room[p] \in [Dirs -> SUBSET Material] /\ approved[p] \in Reviews \cup {0}
BY DEF TypeOK

\* A worker inside a node works on a node of its plan.
LEMMA OwnNode ==
    ASSUME PlansAssumption, NEW p \in Plans, worker[p].k \in Nat, worker[p].k >= 1,
           worker[p].k <= Len(NodesOf[p])
    PROVE  NodeOf(p) \in Node /\ NodeOf(p) \in Resources(p)
<1>1. NodesOf[p] \in Seq(Node)
  BY DEF PlansAssumption
<1>2. worker[p].k \in DOMAIN NodesOf[p]
  BY <1>1
<1>3. QED
  BY <1>1, <1>2 DEF NodeOf, Resources, Range

\* The nodes of two plans that work at the same time are different, so the step
\* of one keeps what the other knows of its node.
LEMMA Others ==
    ASSUME PlansAssumption, IInv, NEW p \in Plans, NEW q \in Plans \ {p}, Untouched(q),
           OnOwnNode(p)
    PROVE  PlanInv(q)'
<1>1. PlanInv(q) /\ worker[q] \in Worker
  BY Shape DEF IInv, PlansInv
<1>2. ClaimInv(q)' /\ DirInv(q)'
  BY <1>1 DEF PlanInv, ClaimInv, DirInv, Untouched
<1>3. VerdictInv(q)'
  BY <1>1 DEF PlanInv, VerdictInv, InNode, Sweeping, At, Untouched
<1>4. OrderInv(q)'
  BY <1>1 DEF PlanInv, OrderInv, At, Untouched
<1>5. NodeOf(q)' = NodeOf(q)
  BY DEF NodeOf, Untouched
<1>6. InNode(q) => deployed'[NodeOf(q)] = deployed[NodeOf(q)]
  <2>1. SUFFICES ASSUME InNode(q) PROVE deployed'[NodeOf(q)] = deployed[NodeOf(q)]
    OBVIOUS
  <2>2. NodeOf(q) \in Node /\ NodeOf(q) \in Resources(q)
    BY <1>1, <2>1, OwnNode DEF PlanInv, RunsInv, Worker
  <2>3. CASE UNCHANGED deployed
    BY <2>3
  <2>4. CASE ~ UNCHANGED deployed
    <3>1. ~At(p, "idle") /\ NodeOf(p) \in Resources(p)
      BY <2>4 DEF OnOwnNode
    <3>2. ~At(q, "idle")
      BY <2>1 DEF InNode, Sweeping, At
    <3>3. NodeOf(p) # NodeOf(q)
      BY <2>2, <3>1, <3>2 DEF IInv, LocksInv
    <3>4. QED
      BY <2>2, <2>4, <3>3 DEF OnOwnNode
  <2>5. QED
    BY <2>3, <2>4
<1>7. RunsInv(q)'
  BY <1>1, <1>5, <1>6 DEF PlanInv, RunsInv, InNode, Sweeping, Untouched
<1>8. QED
  BY <1>2, <1>3, <1>4, <1>7 DEF PlanInv

LEMMA LocksKept ==
    ASSUME IInv, NEW p \in Plans, \A q \in Plans \ {p} : worker'[q] = worker[q],
           worker'[p].at = "idle" \/ worker[p].at # "idle"
    PROVE  LocksInv'
BY DEF IInv, LocksInv, At, Resources

LEMMA Together ==
    ASSUME PlansAssumption, IInv, NEW p \in Plans, TypeOK', LocksInv',
           \A q \in Plans \ {p} : Untouched(q), OnOwnNode(p), PlanInv(p)'
    PROVE  IInv'
BY Others DEF IInv, PlansInv

\* How a worker goes on, and how it ends.
LEMMA GotoWorker ==
    ASSUME TypeOK, NEW p \in Plans, NEW pc \in Pcs, Goto(p, pc)
    PROVE  /\ worker' \in [Plans -> Worker] /\ \A q \in Plans \ {p} : worker'[q] = worker[q]
           /\ worker'[p].at = pc /\ worker'[p].action = worker[p].action
           /\ worker'[p].k = worker[p].k /\ worker'[p].goal = worker[p].goal
           /\ worker'[p].dir = worker[p].dir /\ worker'[p].ret = worker[p].ret
           /\ worker'[p].failed = worker[p].failed
BY DEF TypeOK, Goto, Worker

LEMMA IdleWorker == Idle \in Worker
BY DEF Idle, Worker, Pcs, Actions, Goals

LEMMA ExitWorker ==
    ASSUME TypeOK, NEW p \in Plans, Exit(p)
    PROVE  /\ worker' \in [Plans -> Worker] /\ \A q \in Plans \ {p} : worker'[q] = worker[q]
           /\ worker'[p] = Idle
BY IdleWorker DEF TypeOK, Exit

LEMMA RaiseWorker ==
    ASSUME TypeOK, NEW p \in Plans, Raise(p)
    PROVE  /\ worker' \in [Plans -> Worker] /\ \A q \in Plans \ {p} : worker'[q] = worker[q]
           /\ worker'[p].at = "clean" /\ worker'[p].action = worker[p].action
           /\ worker'[p].k = worker[p].k /\ worker'[p].goal = worker[p].goal
           /\ worker'[p].dir = worker[p].dir /\ worker'[p].ret = worker[p].ret
           /\ worker'[p].failed = "yes"
<1>1. worker[p] \in Worker
  BY DEF TypeOK
<1>2. worker' = [worker EXCEPT ![p] = [worker[p] EXCEPT !.at = "clean", !.failed = "yes"]]
  BY <1>1 DEF TypeOK, Raise, Worker
<1>3. worker'[p] = [worker[p] EXCEPT !.at = "clean", !.failed = "yes"]
  BY <1>2 DEF TypeOK
<1>4. [worker[p] EXCEPT !.at = "clean", !.failed = "yes"] \in Worker
  BY <1>1 DEF Worker, Pcs
<1>5. worker' \in [Plans -> Worker] /\ \A q \in Plans \ {p} : worker'[q] = worker[q]
  BY <1>2, <1>4 DEF TypeOK
<1>6. QED
  BY <1>1, <1>3, <1>5 DEF Worker

LEMMA SaveJournal ==
    ASSUME TypeOK, NEW p \in Plans, NEW j \in Journal, Save(p, j)
    PROVE  /\ journal' \in [Plans -> Journal] /\ \A q \in Plans \ {p} : journal'[q] = journal[q]
           /\ journal'[p] = j
BY DEF TypeOK, Save

-----------------------------------------------------------------------------
(* Every step keeps the invariant                                          *)

\* A worker that ends, or dies, leaves everything as it is.
LEMMA ExitStep ==
    ASSUME PlansAssumption, AdverseAssumption, IInv, NEW p \in Plans, Exit(p),
           UNCHANGED <<journal, Disk, deployed, valid, approved>>, adverse' \in 0 .. MaxAdverse
    PROVE  IInv'
<1>1. /\ TypeOK /\ PlanInv(p) /\ worker[p] \in Worker /\ journal[p] \in Journal
      /\ made[p] \subseteq Dirs /\ room[p] \in [Dirs -> SUBSET Material]
  BY Shape DEF IInv, PlansInv
<1>2. TRUE
  BY <1>1 DEF Disk, At
<1>3. /\ worker' \in [Plans -> Worker] /\ \A q \in Plans \ {p} : worker'[q] = worker[q]
      /\ worker'[p].at = "idle" /\ worker'[p].action = "preview"
      /\ worker'[p].k = 1 /\ worker'[p].goal = "decrypt"
      /\ worker'[p].dir = None /\ worker'[p].ret = "start"
      /\ worker'[p].failed = "no"
  BY <1>1, ExitWorker DEF Idle
<1>4. UNCHANGED journal
  BY DEF Disk
<1>5. /\ UNCHANGED made
      /\ UNCHANGED room
      /\ UNCHANGED deployed
      /\ UNCHANGED approved
  BY <1>1, <1>2 DEF TypeOK, Disk, Disk
<1>6. TypeOK'
  BY <1>1, <1>3, <1>4, <1>5 DEF TypeOK, Adverse, AdverseAssumption, Disk
<1>7. LocksInv'
  BY <1>2, <1>3, LocksKept
<1>8. (\A q \in Plans \ {p} : Untouched(q)) /\ OnOwnNode(p)
  BY <1>3, <1>4, <1>5 DEF Untouched, OnOwnNode
<1>9. ClaimInv(p)'
  BY <1>1, <1>2, <1>3, <1>4, <1>5 DEF PlanInv, ClaimInv, DirInv, Owned
<1>10. DirInv(p)'
  BY <1>1, <1>2, <1>3, <1>4, <1>5 DEF PlanInv, DirInv, PlansAssumption, Journal
<1>11. VerdictInv(p)'
  BY <1>1, <1>2, <1>3, <1>4, <1>5 DEF PlanInv, VerdictInv, InNode, Sweeping, At
<1>12. RunsInv(p)'
  BY <1>1, <1>2, <1>3, <1>4, <1>5 DEF PlanInv, RunsInv, InNode, Sweeping, NodeOf, Worker
<1>13. OrderInv(p)'
  BY <1>1, <1>2, <1>3, <1>4, <1>5 DEF PlanInv, OrderInv, At
<1>14. QED
  BY <1>6, <1>7, <1>8, <1>9, <1>10, <1>11, <1>12, <1>13, Together DEF PlanInv

\* A failing stage leads to the cleanup.
LEMMA RaiseStep ==
    ASSUME PlansAssumption, AdverseAssumption, IInv, NEW p \in Plans, Raise(p),
           worker[p].at \in {"stage", "command", "gate"},
           UNCHANGED <<journal, Disk, deployed, valid, approved>>, adverse' \in 0 .. MaxAdverse
    PROVE  IInv'
<1>1. /\ TypeOK /\ PlanInv(p) /\ worker[p] \in Worker /\ journal[p] \in Journal
      /\ made[p] \subseteq Dirs /\ room[p] \in [Dirs -> SUBSET Material]
  BY Shape DEF IInv, PlansInv
<1>2. worker[p].at \in {"stage", "command", "gate"}
  BY <1>1 DEF Disk, At
<1>3. /\ worker' \in [Plans -> Worker] /\ \A q \in Plans \ {p} : worker'[q] = worker[q]
      /\ worker'[p].at = "clean" /\ worker'[p].action = worker[p].action
      /\ worker'[p].k = worker[p].k /\ worker'[p].goal = worker[p].goal
      /\ worker'[p].dir = worker[p].dir /\ worker'[p].ret = worker[p].ret
      /\ worker'[p].failed = "yes"
  BY <1>1, RaiseWorker
<1>4. UNCHANGED journal
  BY DEF Disk
<1>5. /\ UNCHANGED made
      /\ UNCHANGED room
      /\ UNCHANGED deployed
      /\ UNCHANGED approved
  BY <1>1, <1>2 DEF TypeOK, Disk, Disk
<1>6. TypeOK'
  BY <1>1, <1>3, <1>4, <1>5 DEF TypeOK, Adverse, AdverseAssumption, Disk
<1>7. LocksInv'
  BY <1>2, <1>3, LocksKept
<1>8. (\A q \in Plans \ {p} : Untouched(q)) /\ OnOwnNode(p)
  BY <1>3, <1>4, <1>5 DEF Untouched, OnOwnNode
<1>9. ClaimInv(p)'
  BY <1>1, <1>2, <1>3, <1>4, <1>5 DEF PlanInv, ClaimInv, DirInv, Owned
<1>10. DirInv(p)'
  BY <1>1, <1>2, <1>3, <1>4, <1>5 DEF PlanInv, DirInv, PlansAssumption, Journal
<1>11. VerdictInv(p)'
  BY <1>1, <1>2, <1>3, <1>4, <1>5 DEF PlanInv, VerdictInv, InNode, Sweeping, At
<1>12. RunsInv(p)'
  BY <1>1, <1>2, <1>3, <1>4, <1>5 DEF PlanInv, RunsInv, InNode, Sweeping, NodeOf, Worker
<1>13. OrderInv(p)'
  BY <1>1, <1>2, <1>3, <1>4, <1>5 DEF PlanInv, OrderInv, At
<1>14. QED
  BY <1>6, <1>7, <1>8, <1>9, <1>10, <1>11, <1>12, <1>13, Together DEF PlanInv

\* A cleanup that fails is tried once more.
LEMMA AgainStep ==
    ASSUME PlansAssumption, AdverseAssumption, IInv, NEW p \in Plans, 
           worker' = [worker EXCEPT ![p].at = "list", ![p].ret = "again"],
           worker[p].at = "clean" \/ (worker[p].at \in {"list", "sweep"} /\ worker[p].ret = "clean"),
           UNCHANGED <<journal, Disk, deployed, valid, approved>>, adverse' \in 0 .. MaxAdverse
    PROVE  IInv'
<1>1. /\ TypeOK /\ PlanInv(p) /\ worker[p] \in Worker /\ journal[p] \in Journal
      /\ made[p] \subseteq Dirs /\ room[p] \in [Dirs -> SUBSET Material]
  BY Shape DEF IInv, PlansInv
<1>2. worker[p].at = "clean" \/ (worker[p].at \in {"list", "sweep"} /\ worker[p].ret = "clean")
  BY <1>1 DEF Disk, At
<1>3. /\ worker' \in [Plans -> Worker] /\ \A q \in Plans \ {p} : worker'[q] = worker[q]
      /\ worker'[p].at = "list" /\ worker'[p].action = worker[p].action
      /\ worker'[p].k = worker[p].k /\ worker'[p].goal = worker[p].goal
      /\ worker'[p].dir = worker[p].dir /\ worker'[p].ret = "again"
      /\ worker'[p].failed = worker[p].failed
  <2>1. [worker[p] EXCEPT !.at = "list", !.ret = "again"] \in Worker
    BY <1>1 DEF Worker, Pcs
  <2>2. worker' = [worker EXCEPT ![p] = [worker[p] EXCEPT !.at = "list", !.ret = "again"]]
    BY <1>1 DEF TypeOK, Worker
  <2>3. worker'[p] = [worker[p] EXCEPT !.at = "list", !.ret = "again"]
    BY <1>1, <2>2 DEF TypeOK
  <2>4. worker' \in [Plans -> Worker] /\ \A q \in Plans \ {p} : worker'[q] = worker[q]
    BY <1>1, <2>1, <2>2 DEF TypeOK
  <2>5. QED
    BY <1>1, <2>3, <2>4 DEF Worker
<1>4. UNCHANGED journal
  BY DEF Disk
<1>5. /\ UNCHANGED made
      /\ UNCHANGED room
      /\ UNCHANGED deployed
      /\ UNCHANGED approved
  BY <1>1, <1>2 DEF TypeOK, Disk, Disk
<1>6. TypeOK'
  BY <1>1, <1>3, <1>4, <1>5 DEF TypeOK, Adverse, AdverseAssumption, Disk
<1>7. LocksInv'
  BY <1>2, <1>3, LocksKept
<1>8. (\A q \in Plans \ {p} : Untouched(q)) /\ OnOwnNode(p)
  BY <1>3, <1>4, <1>5 DEF Untouched, OnOwnNode
<1>9. ClaimInv(p)'
  BY <1>1, <1>2, <1>3, <1>4, <1>5 DEF PlanInv, ClaimInv, DirInv, Owned
<1>10. DirInv(p)'
  BY <1>1, <1>2, <1>3, <1>4, <1>5 DEF PlanInv, DirInv, PlansAssumption, Journal
<1>11. VerdictInv(p)'
  BY <1>1, <1>2, <1>3, <1>4, <1>5 DEF PlanInv, VerdictInv, InNode, Sweeping, At
<1>12. RunsInv(p)'
  BY <1>1, <1>2, <1>3, <1>4, <1>5 DEF PlanInv, RunsInv, InNode, Sweeping, NodeOf, Worker
<1>13. OrderInv(p)'
  BY <1>1, <1>2, <1>3, <1>4, <1>5 DEF PlanInv, OrderInv, At
<1>14. QED
  BY <1>6, <1>7, <1>8, <1>9, <1>10, <1>11, <1>12, <1>13, Together DEF PlanInv

\* A second cleanup that fails is reported.
LEMMA DirtyNextStep ==
    ASSUME PlansAssumption, AdverseAssumption, IInv, NEW p \in Plans, Goto(p, "dirty"),
           worker[p].at \in {"list", "sweep"} /\ worker[p].ret = "again",
           UNCHANGED <<journal, Disk, deployed, valid, approved, adverse>>
    PROVE  IInv'
<1>1. /\ TypeOK /\ PlanInv(p) /\ worker[p] \in Worker /\ journal[p] \in Journal
      /\ made[p] \subseteq Dirs /\ room[p] \in [Dirs -> SUBSET Material]
  BY Shape DEF IInv, PlansInv
<1>2. worker[p].at \in {"list", "sweep"} /\ worker[p].ret = "again"
  BY <1>1 DEF Disk, At
<1>3. /\ worker' \in [Plans -> Worker] /\ \A q \in Plans \ {p} : worker'[q] = worker[q]
      /\ worker'[p].at = "dirty" /\ worker'[p].action = worker[p].action
      /\ worker'[p].k = worker[p].k /\ worker'[p].goal = worker[p].goal
      /\ worker'[p].dir = worker[p].dir /\ worker'[p].ret = worker[p].ret
      /\ worker'[p].failed = worker[p].failed
  BY <1>1, GotoWorker DEF Pcs
<1>4. UNCHANGED journal
  BY DEF Disk
<1>5. /\ UNCHANGED made
      /\ UNCHANGED room
      /\ UNCHANGED deployed
      /\ UNCHANGED approved
  BY <1>1, <1>2 DEF TypeOK, Disk, Disk
<1>6. TypeOK'
  BY <1>1, <1>3, <1>4, <1>5 DEF TypeOK, Adverse, AdverseAssumption, Disk
<1>7. LocksInv'
  BY <1>2, <1>3, LocksKept
<1>8. (\A q \in Plans \ {p} : Untouched(q)) /\ OnOwnNode(p)
  BY <1>3, <1>4, <1>5 DEF Untouched, OnOwnNode
<1>9. ClaimInv(p)'
  BY <1>1, <1>2, <1>3, <1>4, <1>5 DEF PlanInv, ClaimInv, DirInv, Owned
<1>10. DirInv(p)'
  BY <1>1, <1>2, <1>3, <1>4, <1>5 DEF PlanInv, DirInv, PlansAssumption, Journal
<1>11. VerdictInv(p)'
  BY <1>1, <1>2, <1>3, <1>4, <1>5 DEF PlanInv, VerdictInv, InNode, Sweeping, At
<1>12. RunsInv(p)'
  BY <1>1, <1>2, <1>3, <1>4, <1>5 DEF PlanInv, RunsInv, InNode, Sweeping, NodeOf, Worker
<1>13. OrderInv(p)'
  BY <1>1, <1>2, <1>3, <1>4, <1>5 DEF PlanInv, OrderInv, At
<1>14. QED
  BY <1>6, <1>7, <1>8, <1>9, <1>10, <1>11, <1>12, <1>13, Together DEF PlanInv

LEMMA RefusedStep ==
    ASSUME PlansAssumption, AdverseAssumption, IInv, NEW p \in Plans, Refused(p),
           worker[p].at \in {"list", "sweep"},
           UNCHANGED <<journal, Disk, deployed, valid, approved, adverse>>
    PROVE  IInv'
<1>1. worker[p].ret \in {"start", "clean", "again"} /\ adverse' \in 0 .. MaxAdverse
  BY Shape DEF IInv, Worker, TypeOK
<1>2. \/ worker[p].ret = "start" /\ Exit(p)
      \/ worker[p].ret = "clean" /\ worker' = [worker EXCEPT ![p].at = "list", ![p].ret = "again"]
      \/ worker[p].ret = "again" /\ Goto(p, "dirty")
  BY <1>1 DEF Refused
<1>3. QED
  BY <1>1, <1>2, ExitStep, AgainStep, DirtyNextStep

\* prepare keeps what the journal says of a retained directory.
LEMMA PrepareStep ==
    ASSUME PlansAssumption, AdverseAssumption, IInv, NEW p \in Plans, Prepare(p)
    PROVE  IInv'
<1>1. /\ TypeOK /\ PlanInv(p) /\ worker[p] \in Worker /\ journal[p] \in Journal
      /\ made[p] \subseteq Dirs /\ room[p] \in [Dirs -> SUBSET Material]
  BY Shape DEF IInv, PlansInv
<1>2. worker[p].at = "idle"
  BY <1>1 DEF Prepare, At
<1>3. UNCHANGED worker
  BY DEF Prepare
<1>4. /\ journal' \in [Plans -> Journal] /\ \A q \in Plans \ {p} : journal'[q] = journal[q]
      /\ journal'[p].status = "prepared" /\ journal'[p].accepted = {}
      /\ journal'[p].review = 0 /\ journal'[p].cleanup = "absent"
      /\ journal'[p].runtime = journal[p].runtime
  <2>1. [NoJournal EXCEPT !.status = "prepared", !.runtime = journal[p].runtime] \in Journal
    BY <1>1 DEF NoJournal, Journal, Statuses
  <2>2. /\ journal' \in [Plans -> Journal] /\ \A q \in Plans \ {p} : journal'[q] = journal[q]
        /\ journal'[p] = [NoJournal EXCEPT !.status = "prepared", !.runtime = journal[p].runtime]
    BY <1>1, <2>1, SaveJournal DEF Prepare
  <2>3. QED
    BY <1>1, <2>2 DEF NoJournal
<1>5. /\ UNCHANGED made
      /\ UNCHANGED room
      /\ UNCHANGED deployed
      /\ UNCHANGED approved
  BY <1>1, <1>2 DEF TypeOK, Disk, Prepare
<1>6. TypeOK'
  BY <1>1, <1>3, <1>4, <1>5 DEF TypeOK, Adverse, AdverseAssumption, Prepare
<1>7. LocksInv'
  BY <1>2, <1>3, LocksKept
<1>8. (\A q \in Plans \ {p} : Untouched(q)) /\ OnOwnNode(p)
  BY <1>3, <1>4, <1>5 DEF Untouched, OnOwnNode
<1>9. ClaimInv(p)'
  BY <1>1, <1>2, <1>3, <1>4, <1>5 DEF PlanInv, ClaimInv, DirInv, Owned
<1>10. DirInv(p)'
  BY <1>1, <1>2, <1>3, <1>4, <1>5 DEF PlanInv, DirInv, PlansAssumption, Journal
<1>11. VerdictInv(p)'
  BY <1>1, <1>2, <1>3, <1>4, <1>5 DEF PlanInv, VerdictInv, InNode, Sweeping, At
<1>12. RunsInv(p)'
  BY <1>1, <1>2, <1>3, <1>4, <1>5 DEF PlanInv, RunsInv, InNode, Sweeping, NodeOf, Worker
<1>13. OrderInv(p)'
  BY <1>1, <1>2, <1>3, <1>4, <1>5 DEF PlanInv, OrderInv, At
<1>14. QED
  BY <1>6, <1>7, <1>8, <1>9, <1>10, <1>11, <1>12, <1>13, Together DEF PlanInv

\* Only the review of the last complete preview can be approved.
LEMMA ApproveStep ==
    ASSUME PlansAssumption, AdverseAssumption, IInv, NEW p \in Plans, Approve(p)
    PROVE  IInv'
<1>1. /\ TypeOK /\ PlanInv(p) /\ worker[p] \in Worker /\ journal[p] \in Journal
      /\ made[p] \subseteq Dirs /\ room[p] \in [Dirs -> SUBSET Material]
  BY Shape DEF IInv, PlansInv
<1>2. journal[p].review # 0
  BY <1>1 DEF Approve, At
<1>3. UNCHANGED worker
  BY DEF Approve
<1>4. UNCHANGED journal
  BY DEF Approve
<1>5. /\ UNCHANGED made
      /\ UNCHANGED room
      /\ UNCHANGED deployed
      /\ approved' \in [Plans -> Reviews \cup {0}] /\ (\A q \in Plans \ {p} : approved'[q] = approved[q])
      /\ approved'[p] = journal[p].review
  BY <1>1, <1>2 DEF TypeOK, Disk, Journal, Approve
<1>6. TypeOK'
  BY <1>1, <1>3, <1>4, <1>5 DEF TypeOK, Adverse, AdverseAssumption, Approve
<1>7. LocksInv'
  BY <1>3 DEF IInv, LocksInv, At
<1>8. (\A q \in Plans \ {p} : Untouched(q)) /\ OnOwnNode(p)
  BY <1>3, <1>4, <1>5 DEF Untouched, OnOwnNode
<1>9. ClaimInv(p)'
  BY <1>1, <1>2, <1>3, <1>4, <1>5 DEF PlanInv, ClaimInv, DirInv, Owned
<1>10. DirInv(p)'
  BY <1>1, <1>2, <1>3, <1>4, <1>5 DEF PlanInv, DirInv, PlansAssumption, Journal
<1>11. VerdictInv(p)'
  BY <1>1, <1>2, <1>3, <1>4, <1>5 DEF PlanInv, VerdictInv, InNode, Sweeping, At
<1>12. RunsInv(p)'
  BY <1>1, <1>2, <1>3, <1>4, <1>5 DEF PlanInv, RunsInv, InNode, Sweeping, NodeOf, Worker
<1>13. OrderInv(p)'
  BY <1>1, <1>2, <1>3, <1>4, <1>5 DEF PlanInv, OrderInv, At
<1>14. QED
  BY <1>6, <1>7, <1>8, <1>9, <1>10, <1>11, <1>12, <1>13, Together DEF PlanInv

\* A run is admitted under the locks of all its nodes.
LEMMA LaunchStep ==
    ASSUME PlansAssumption, AdverseAssumption, IInv, NEW p \in Plans, NEW a \in Actions, Launch(p, a)
    PROVE  IInv'
<1>1. /\ TypeOK /\ PlanInv(p) /\ worker[p] \in Worker /\ journal[p] \in Journal
      /\ made[p] \subseteq Dirs /\ room[p] \in [Dirs -> SUBSET Material]
  BY Shape DEF IInv, PlansInv
<1>2. worker[p].at = "idle" /\ Admits(p, a)
  BY <1>1 DEF Launch, Locks, At
<1>3. /\ worker' \in [Plans -> Worker] /\ \A q \in Plans \ {p} : worker'[q] = worker[q]
      /\ worker'[p].at = "list" /\ worker'[p].action = a
      /\ worker'[p].k = 1 /\ worker'[p].goal = "decrypt"
      /\ worker'[p].dir = None /\ worker'[p].ret = "start"
      /\ worker'[p].failed = "no"
  <2>1. [Idle EXCEPT !.at = "list", !.action = a] \in Worker
    BY DEF Idle, Worker, Pcs, Goals
  <2>2. QED
    BY <1>1, <2>1 DEF TypeOK, Launch, Idle
<1>4. UNCHANGED journal
  BY DEF Launch, Locks
<1>5. /\ UNCHANGED made
      /\ UNCHANGED room
      /\ UNCHANGED deployed
      /\ UNCHANGED approved
  BY <1>1, <1>2 DEF TypeOK, Disk, Launch, Locks
<1>6. TypeOK'
  BY <1>1, <1>3, <1>4, <1>5 DEF TypeOK, Adverse, AdverseAssumption, Launch, Locks
<1>7. LocksInv'
  BY <1>3 DEF IInv, LocksInv, Launch, Locks, At, Resources
<1>8. (\A q \in Plans \ {p} : Untouched(q)) /\ OnOwnNode(p)
  BY <1>3, <1>4, <1>5 DEF Untouched, OnOwnNode
<1>9. ClaimInv(p)'
  BY <1>1, <1>2, <1>3, <1>4, <1>5 DEF PlanInv, ClaimInv, DirInv, Owned
<1>10. DirInv(p)'
  BY <1>1, <1>2, <1>3, <1>4, <1>5 DEF PlanInv, DirInv, PlansAssumption, Journal
<1>11. VerdictInv(p)'
  BY <1>1, <1>2, <1>3, <1>4, <1>5 DEF PlanInv, VerdictInv, InNode, Sweeping, At
<1>12. RunsInv(p)'
  BY <1>1, <1>2, <1>3, <1>4, <1>5 DEF PlanInv, RunsInv, InNode, Sweeping, NodeOf, Worker
<1>13. OrderInv(p)'
  BY <1>1, <1>2, <1>3, <1>4, <1>5 DEF Admits, OrderInv, At
<1>14. QED
  BY <1>6, <1>7, <1>8, <1>9, <1>10, <1>11, <1>12, <1>13, Together DEF PlanInv

LEMMA ListSweptStep ==
    ASSUME PlansAssumption, AdverseAssumption, IInv, NEW p \in Plans, At(p, "list"), Goto(p, "swept"),
           journal[p].runtime \notin made[p],
           UNCHANGED <<journal, Disk, deployed, valid, approved, adverse>>
    PROVE  IInv'
<1>1. /\ TypeOK /\ PlanInv(p) /\ worker[p] \in Worker /\ journal[p] \in Journal
      /\ made[p] \subseteq Dirs /\ room[p] \in [Dirs -> SUBSET Material]
  BY Shape DEF IInv, PlansInv
<1>2. worker[p].at = "list"
  BY <1>1 DEF Disk, At
<1>3. /\ worker' \in [Plans -> Worker] /\ \A q \in Plans \ {p} : worker'[q] = worker[q]
      /\ worker'[p].at = "swept" /\ worker'[p].action = worker[p].action
      /\ worker'[p].k = worker[p].k /\ worker'[p].goal = worker[p].goal
      /\ worker'[p].dir = worker[p].dir /\ worker'[p].ret = worker[p].ret
      /\ worker'[p].failed = worker[p].failed
  BY <1>1, GotoWorker DEF Pcs
<1>4. UNCHANGED journal
  BY DEF Disk
<1>5. /\ UNCHANGED made
      /\ UNCHANGED room
      /\ UNCHANGED deployed
      /\ UNCHANGED approved
  BY <1>1, <1>2 DEF TypeOK, Disk, Disk
<1>6. TypeOK'
  BY <1>1, <1>3, <1>4, <1>5 DEF TypeOK, Adverse, AdverseAssumption, Disk
<1>7. LocksInv'
  BY <1>2, <1>3, LocksKept
<1>8. (\A q \in Plans \ {p} : Untouched(q)) /\ OnOwnNode(p)
  BY <1>3, <1>4, <1>5 DEF Untouched, OnOwnNode
<1>9. ClaimInv(p)'
  BY <1>1, <1>2, <1>3, <1>4, <1>5 DEF PlanInv, ClaimInv, DirInv, Owned
<1>10. DirInv(p)'
  BY <1>1, <1>2, <1>3, <1>4, <1>5 DEF PlanInv, DirInv, PlansAssumption, Journal
<1>11. VerdictInv(p)'
  BY <1>1, <1>2, <1>3, <1>4, <1>5 DEF PlanInv, VerdictInv, InNode, Sweeping, At
<1>12. RunsInv(p)'
  BY <1>1, <1>2, <1>3, <1>4, <1>5 DEF PlanInv, RunsInv, InNode, Sweeping, NodeOf, Worker
<1>13. OrderInv(p)'
  BY <1>1, <1>2, <1>3, <1>4, <1>5 DEF PlanInv, OrderInv, At
<1>14. QED
  BY <1>6, <1>7, <1>8, <1>9, <1>10, <1>11, <1>12, <1>13, Together DEF PlanInv

LEMMA ListSweepStep ==
    ASSUME PlansAssumption, AdverseAssumption, IInv, NEW p \in Plans, At(p, "list"), Goto(p, "sweep"),
           journal[p].runtime \in made[p],
           UNCHANGED <<journal, Disk, deployed, valid, approved, adverse>>
    PROVE  IInv'
<1>1. /\ TypeOK /\ PlanInv(p) /\ worker[p] \in Worker /\ journal[p] \in Journal
      /\ made[p] \subseteq Dirs /\ room[p] \in [Dirs -> SUBSET Material]
  BY Shape DEF IInv, PlansInv
<1>2. worker[p].at = "list"
  BY <1>1 DEF Disk, At
<1>3. /\ worker' \in [Plans -> Worker] /\ \A q \in Plans \ {p} : worker'[q] = worker[q]
      /\ worker'[p].at = "sweep" /\ worker'[p].action = worker[p].action
      /\ worker'[p].k = worker[p].k /\ worker'[p].goal = worker[p].goal
      /\ worker'[p].dir = worker[p].dir /\ worker'[p].ret = worker[p].ret
      /\ worker'[p].failed = worker[p].failed
  BY <1>1, GotoWorker DEF Pcs
<1>4. UNCHANGED journal
  BY DEF Disk
<1>5. /\ UNCHANGED made
      /\ UNCHANGED room
      /\ UNCHANGED deployed
      /\ UNCHANGED approved
  BY <1>1, <1>2 DEF TypeOK, Disk, Disk
<1>6. TypeOK'
  BY <1>1, <1>3, <1>4, <1>5 DEF TypeOK, Adverse, AdverseAssumption, Disk
<1>7. LocksInv'
  BY <1>2, <1>3, LocksKept
<1>8. (\A q \in Plans \ {p} : Untouched(q)) /\ OnOwnNode(p)
  BY <1>3, <1>4, <1>5 DEF Untouched, OnOwnNode
<1>9. ClaimInv(p)'
  BY <1>1, <1>2, <1>3, <1>4, <1>5 DEF PlanInv, ClaimInv, DirInv, Owned
<1>10. DirInv(p)'
  BY <1>1, <1>2, <1>3, <1>4, <1>5 DEF PlanInv, DirInv, PlansAssumption, Journal
<1>11. VerdictInv(p)'
  BY <1>1, <1>2, <1>3, <1>4, <1>5 DEF PlanInv, VerdictInv, InNode, Sweeping, At
<1>12. RunsInv(p)'
  BY <1>1, <1>2, <1>3, <1>4, <1>5 DEF PlanInv, RunsInv, InNode, Sweeping, NodeOf, Worker
<1>13. OrderInv(p)'
  BY <1>1, <1>2, <1>3, <1>4, <1>5 DEF PlanInv, OrderInv, At
<1>14. QED
  BY <1>6, <1>7, <1>8, <1>9, <1>10, <1>11, <1>12, <1>13, Together DEF PlanInv

\* Nothing is removed before the whole directory is known.
LEMMA ListStep ==
    ASSUME PlansAssumption, AdverseAssumption, IInv, NEW p \in Plans, List(p)
    PROVE  IInv'
<1>1. made[p] \subseteq Dirs /\ None \notin Dirs
  BY Shape DEF IInv, PlansAssumption
<1>2. UNCHANGED <<journal, Disk, deployed, valid, approved, adverse>> /\ At(p, "list")
  BY DEF List
<1>3. \/ journal[p].runtime \notin made[p] /\ Goto(p, "swept")
      \/ journal[p].runtime \in made[p] /\ Goto(p, "sweep")
      \/ Refused(p)
  BY <1>1 DEF List
<1>4. QED
  BY <1>2, <1>3, ListSweptStep, ListSweepStep, RefusedStep DEF At

\* A file of the run is removed.
LEMMA UnlinkStep ==
    ASSUME PlansAssumption, AdverseAssumption, IInv, NEW p \in Plans, Unlink(p)
    PROVE  IInv'
<1>1. /\ TypeOK /\ PlanInv(p) /\ worker[p] \in Worker /\ journal[p] \in Journal
      /\ made[p] \subseteq Dirs /\ room[p] \in [Dirs -> SUBSET Material]
  BY Shape DEF IInv, PlansInv
<1>2. worker[p].at = "sweep"
  BY <1>1 DEF Unlink, At
<1>3. UNCHANGED worker
  BY DEF Unlink
<1>4. UNCHANGED journal
  BY DEF Unlink
<1>5. /\ UNCHANGED made
      /\ room' \in [Plans -> [Dirs -> SUBSET Material]]
      /\ (\A q \in Plans \ {p} : room'[q] = room[q])
      /\ \A d \in Dirs : room'[p][d] \subseteq room[p][d]
      /\ UNCHANGED deployed
      /\ UNCHANGED approved
  <2>1. PICK m : room' = [room EXCEPT ![p][journal[p].runtime] = @ \ {m}]
    BY DEF Unlink
  <2>2. room' = [room EXCEPT ![p] = [room[p] EXCEPT ![journal[p].runtime] = @ \ {m}]]
    BY <1>1, <2>1 DEF TypeOK
  <2>3. /\ [room[p] EXCEPT ![journal[p].runtime] = @ \ {m}] \in [Dirs -> SUBSET Material]
        /\ \A d \in Dirs : [room[p] EXCEPT ![journal[p].runtime] = @ \ {m}][d] \subseteq room[p][d]
    BY <1>1
  <2>4. QED
    BY <1>1, <2>2, <2>3 DEF TypeOK, Unlink
<1>6. TypeOK'
  BY <1>1, <1>3, <1>4, <1>5 DEF TypeOK, Adverse, AdverseAssumption, Unlink
<1>7. LocksInv'
  BY <1>2, <1>3, LocksKept
<1>8. (\A q \in Plans \ {p} : Untouched(q)) /\ OnOwnNode(p)
  BY <1>3, <1>4, <1>5 DEF Untouched, OnOwnNode
<1>9. ClaimInv(p)'
  BY <1>1, <1>2, <1>3, <1>4, <1>5 DEF PlanInv, ClaimInv, DirInv, Owned
<1>10. DirInv(p)'
  BY <1>1, <1>2, <1>3, <1>4, <1>5 DEF PlanInv, DirInv, PlansAssumption, Journal
<1>11. VerdictInv(p)'
  BY <1>1, <1>2, <1>3, <1>4, <1>5 DEF PlanInv, VerdictInv, InNode, Sweeping, At
<1>12. RunsInv(p)'
  BY <1>1, <1>2, <1>3, <1>4, <1>5 DEF PlanInv, RunsInv, InNode, Sweeping, NodeOf, Worker
<1>13. OrderInv(p)'
  BY <1>1, <1>2, <1>3, <1>4, <1>5 DEF PlanInv, OrderInv, At
<1>14. QED
  BY <1>6, <1>7, <1>8, <1>9, <1>10, <1>11, <1>12, <1>13, Together DEF PlanInv

\* The empty directory is removed.
LEMMA RmdirSweptStep ==
    ASSUME PlansAssumption, AdverseAssumption, IInv, NEW p \in Plans, At(p, "sweep"), Goto(p, "swept"),
           room[p][journal[p].runtime] = {},
           made' = [made EXCEPT ![p] = @ \ {journal[p].runtime}],
           UNCHANGED <<journal, room, deployed, valid, approved, adverse>>
    PROVE  IInv'
<1>1. /\ TypeOK /\ PlanInv(p) /\ worker[p] \in Worker /\ journal[p] \in Journal
      /\ made[p] \subseteq Dirs /\ room[p] \in [Dirs -> SUBSET Material]
  BY Shape DEF IInv, PlansInv
<1>2. worker[p].at = "sweep"
  BY <1>1 DEF Disk, At
<1>3. /\ worker' \in [Plans -> Worker] /\ \A q \in Plans \ {p} : worker'[q] = worker[q]
      /\ worker'[p].at = "swept" /\ worker'[p].action = worker[p].action
      /\ worker'[p].k = worker[p].k /\ worker'[p].goal = worker[p].goal
      /\ worker'[p].dir = worker[p].dir /\ worker'[p].ret = worker[p].ret
      /\ worker'[p].failed = worker[p].failed
  BY <1>1, GotoWorker DEF Pcs
<1>4. UNCHANGED journal
  BY DEF Disk
<1>5. /\ made' \in [Plans -> SUBSET Dirs] /\ (\A q \in Plans \ {p} : made'[q] = made[q])
      /\ made'[p] = made[p] \ {journal[p].runtime}
      /\ UNCHANGED room
      /\ UNCHANGED deployed
      /\ UNCHANGED approved
  BY <1>1, <1>2 DEF TypeOK, Disk, Disk
<1>6. TypeOK'
  BY <1>1, <1>3, <1>4, <1>5 DEF TypeOK, Adverse, AdverseAssumption, Disk
<1>7. LocksInv'
  BY <1>2, <1>3, LocksKept
<1>8. (\A q \in Plans \ {p} : Untouched(q)) /\ OnOwnNode(p)
  BY <1>3, <1>4, <1>5 DEF Untouched, OnOwnNode
<1>9. ClaimInv(p)'
  BY <1>1, <1>2, <1>3, <1>4, <1>5 DEF PlanInv, ClaimInv, DirInv, Owned
<1>10. DirInv(p)'
  BY <1>1, <1>2, <1>3, <1>4, <1>5 DEF PlanInv, DirInv, PlansAssumption, Journal
<1>11. VerdictInv(p)'
  BY <1>1, <1>2, <1>3, <1>4, <1>5 DEF PlanInv, VerdictInv, InNode, Sweeping, At
<1>12. RunsInv(p)'
  BY <1>1, <1>2, <1>3, <1>4, <1>5 DEF PlanInv, RunsInv, InNode, Sweeping, NodeOf, Worker
<1>13. OrderInv(p)'
  BY <1>1, <1>2, <1>3, <1>4, <1>5 DEF PlanInv, OrderInv, At
<1>14. QED
  BY <1>6, <1>7, <1>8, <1>9, <1>10, <1>11, <1>12, <1>13, Together DEF PlanInv

LEMMA RmdirStep ==
    ASSUME PlansAssumption, AdverseAssumption, IInv, NEW p \in Plans, Rmdir(p)
    PROVE  IInv'
<1>1. At(p, "sweep") /\ UNCHANGED <<journal, room, deployed, valid, approved, adverse>>
  BY DEF Rmdir
<1>2. \/ /\ room[p][journal[p].runtime] = {} /\ Goto(p, "swept")
         /\ made' = [made EXCEPT ![p] = @ \ {journal[p].runtime}]
      \/ Refused(p) /\ UNCHANGED made
  BY DEF Rmdir
<1>3. QED
  BY <1>1, <1>2, RmdirSweptStep, RefusedStep DEF At, Disk

\* The claim is dropped last.
LEMMA SweptStep ==
    ASSUME PlansAssumption, AdverseAssumption, IInv, NEW p \in Plans, Swept(p)
    PROVE  IInv'
<1>1. /\ TypeOK /\ PlanInv(p) /\ worker[p] \in Worker /\ journal[p] \in Journal
      /\ made[p] \subseteq Dirs /\ room[p] \in [Dirs -> SUBSET Material]
  BY Shape DEF IInv, PlansInv
<1>2. worker[p].at = "swept"
  BY <1>1 DEF Swept, At
<1>3. /\ worker' \in [Plans -> Worker] /\ \A q \in Plans \ {p} : worker'[q] = worker[q]
      /\ worker'[p].at = AfterSweep[worker[p].ret] /\ worker'[p].action = worker[p].action
      /\ worker'[p].k = worker[p].k /\ worker'[p].goal = worker[p].goal
      /\ worker'[p].dir = worker[p].dir /\ worker'[p].ret = worker[p].ret
      /\ worker'[p].failed = worker[p].failed
  <2>1. AfterSweep[worker[p].ret] \in Pcs
    BY <1>1 DEF AfterSweep, Pcs, Worker
  <2>2. QED
    BY <1>1, <2>1, GotoWorker DEF Swept
<1>4. /\ journal' \in [Plans -> Journal] /\ \A q \in Plans \ {p} : journal'[q] = journal[q]
      /\ journal'[p].status = journal[p].status /\ journal'[p].accepted = journal[p].accepted
      /\ journal'[p].review = journal[p].review /\ journal'[p].cleanup = journal[p].cleanup
      /\ journal'[p].runtime = None
  <2>1. [journal[p] EXCEPT !.runtime = None] \in Journal
    BY <1>1 DEF Journal
  <2>2. QED
    BY <1>1, <2>1, SaveJournal DEF Swept, Journal
<1>5. /\ UNCHANGED made
      /\ UNCHANGED room
      /\ UNCHANGED deployed
      /\ UNCHANGED approved
  BY <1>1, <1>2 DEF TypeOK, Disk, Swept
<1>6. TypeOK'
  BY <1>1, <1>3, <1>4, <1>5 DEF TypeOK, Adverse, AdverseAssumption, Swept
<1>7. LocksInv'
  BY <1>2, <1>3, LocksKept
<1>8. (\A q \in Plans \ {p} : Untouched(q)) /\ OnOwnNode(p)
  BY <1>3, <1>4, <1>5 DEF Untouched, OnOwnNode
<1>9. ClaimInv(p)'
  <2>1. \A d \in Dirs : room[p][d] \cap Owned = {}
    BY <1>1, <1>2 DEF PlanInv, ClaimInv, DirInv
  <2>2. QED
    BY <1>5, <2>1 DEF ClaimInv
<1>10. DirInv(p)'
  BY <1>1, <1>2, <1>3, <1>4, <1>5 DEF PlanInv, DirInv, AfterSweep, Worker
<1>11. VerdictInv(p)'
  BY <1>1, <1>2, <1>3, <1>4, <1>5 DEF PlanInv, VerdictInv, InNode, Sweeping, At, AfterSweep, Worker
<1>12. RunsInv(p)'
  BY <1>1, <1>2, <1>3, <1>4, <1>5 DEF PlanInv, RunsInv, InNode, Sweeping, NodeOf, AfterSweep, Worker
<1>13. OrderInv(p)'
  BY <1>1, <1>2, <1>3, <1>4, <1>5 DEF PlanInv, OrderInv, At
<1>14. QED
  BY <1>6, <1>7, <1>8, <1>9, <1>10, <1>11, <1>12, <1>13, Together DEF PlanInv

LEMMA RecheckedStep ==
    ASSUME PlansAssumption, AdverseAssumption, IInv, NEW p \in Plans, At(p, "recheck"), Goto(p, "node"),
           Save(p, [journal[p] EXCEPT !.status = "running"]),
           UNCHANGED <<Disk, deployed, valid, approved, adverse>>
    PROVE  IInv'
<1>1. /\ TypeOK /\ PlanInv(p) /\ worker[p] \in Worker /\ journal[p] \in Journal
      /\ made[p] \subseteq Dirs /\ room[p] \in [Dirs -> SUBSET Material]
  BY Shape DEF IInv, PlansInv
<1>2. worker[p].at = "recheck"
  BY <1>1 DEF Disk, At
<1>3. /\ worker' \in [Plans -> Worker] /\ \A q \in Plans \ {p} : worker'[q] = worker[q]
      /\ worker'[p].at = "node" /\ worker'[p].action = worker[p].action
      /\ worker'[p].k = worker[p].k /\ worker'[p].goal = worker[p].goal
      /\ worker'[p].dir = worker[p].dir /\ worker'[p].ret = worker[p].ret
      /\ worker'[p].failed = worker[p].failed
  BY <1>1, GotoWorker DEF Pcs
<1>4. /\ journal' \in [Plans -> Journal] /\ \A q \in Plans \ {p} : journal'[q] = journal[q]
      /\ journal'[p].status = "running" /\ journal'[p].accepted = journal[p].accepted
      /\ journal'[p].review = journal[p].review /\ journal'[p].cleanup = journal[p].cleanup
      /\ journal'[p].runtime = journal[p].runtime
  <2>1. [journal[p] EXCEPT !.status = "running"] \in Journal
    BY <1>1 DEF Journal, Statuses
  <2>2. QED
    BY <1>1, <2>1, SaveJournal DEF Journal
<1>5. /\ UNCHANGED made
      /\ UNCHANGED room
      /\ UNCHANGED deployed
      /\ UNCHANGED approved
  BY <1>1, <1>2 DEF TypeOK, Disk, Disk
<1>6. TypeOK'
  BY <1>1, <1>3, <1>4, <1>5 DEF TypeOK, Adverse, AdverseAssumption, Disk
<1>7. LocksInv'
  BY <1>2, <1>3, LocksKept
<1>8. (\A q \in Plans \ {p} : Untouched(q)) /\ OnOwnNode(p)
  BY <1>3, <1>4, <1>5 DEF Untouched, OnOwnNode
<1>9. ClaimInv(p)'
  BY <1>1, <1>2, <1>3, <1>4, <1>5 DEF PlanInv, ClaimInv, DirInv, Owned
<1>10. DirInv(p)'
  BY <1>1, <1>2, <1>3, <1>4, <1>5 DEF PlanInv, DirInv, PlansAssumption, Journal
<1>11. VerdictInv(p)'
  BY <1>1, <1>2, <1>3, <1>4, <1>5 DEF PlanInv, VerdictInv, InNode, Sweeping, At
<1>12. RunsInv(p)'
  BY <1>1, <1>2, <1>3, <1>4, <1>5 DEF PlanInv, RunsInv, InNode, Sweeping, NodeOf, Worker
<1>13. OrderInv(p)'
  BY <1>1, <1>2, <1>3, <1>4, <1>5 DEF PlanInv, OrderInv, At
<1>14. QED
  BY <1>6, <1>7, <1>8, <1>9, <1>10, <1>11, <1>12, <1>13, Together DEF PlanInv

\* The inputs are checked once more before the run is recorded.
LEMMA RecheckStep ==
    ASSUME PlansAssumption, AdverseAssumption, IInv, NEW p \in Plans, Recheck(p)
    PROVE  IInv'
<1>1. At(p, "recheck") /\ UNCHANGED <<Disk, deployed, valid, approved, adverse>>
  BY DEF Recheck
<1>2. \/ Save(p, [journal[p] EXCEPT !.status = "running"]) /\ Goto(p, "node")
      \/ Exit(p) /\ UNCHANGED journal
  BY DEF Recheck
<1>3. adverse' \in 0 .. MaxAdverse
  BY <1>1 DEF IInv, TypeOK
<1>4. QED
  BY <1>1, <1>2, <1>3, RecheckedStep, ExitStep

\* An accepted node is passed over.
LEMMA SkipStep ==
    ASSUME PlansAssumption, AdverseAssumption, IInv, NEW p \in Plans, At(p, "node"), Skipped(p),
           worker[p].k <= Len(NodesOf[p]), worker' = [worker EXCEPT ![p].k = @ + 1],
           UNCHANGED <<journal, made, room, deployed, valid, approved, adverse>>
    PROVE  IInv'
<1>1. /\ TypeOK /\ PlanInv(p) /\ worker[p] \in Worker /\ journal[p] \in Journal
      /\ made[p] \subseteq Dirs /\ room[p] \in [Dirs -> SUBSET Material]
  BY Shape DEF IInv, PlansInv
<1>2. worker[p].at = "node"
  BY <1>1 DEF Disk, At
<1>3. /\ worker' \in [Plans -> Worker] /\ \A q \in Plans \ {p} : worker'[q] = worker[q]
      /\ worker'[p].at = worker[p].at /\ worker'[p].action = worker[p].action
      /\ worker'[p].k = worker[p].k + 1 /\ worker'[p].goal = worker[p].goal
      /\ worker'[p].dir = worker[p].dir /\ worker'[p].ret = worker[p].ret
      /\ worker'[p].failed = worker[p].failed
  <2>1. worker[p].k + 1 \in Nat /\ worker[p].k \in Nat
    BY <1>1 DEF Worker
  <2>2. [worker[p] EXCEPT !.k = worker[p].k + 1] \in Worker
    BY <1>1, <2>1 DEF Worker
  <2>3. worker' = [worker EXCEPT ![p] = [worker[p] EXCEPT !.k = worker[p].k + 1]]
    BY <1>1 DEF TypeOK, Worker
  <2>4. worker'[p] = [worker[p] EXCEPT !.k = worker[p].k + 1]
    BY <1>1, <2>3 DEF TypeOK
  <2>5. worker' \in [Plans -> Worker] /\ \A q \in Plans \ {p} : worker'[q] = worker[q]
    BY <1>1, <2>2, <2>3 DEF TypeOK
  <2>6. QED
    BY <1>1, <2>4, <2>5 DEF Worker
<1>4. UNCHANGED journal
  BY DEF Disk
<1>5. /\ UNCHANGED made
      /\ UNCHANGED room
      /\ UNCHANGED deployed
      /\ UNCHANGED approved
  BY <1>1, <1>2 DEF TypeOK, Disk, Disk
<1>6. TypeOK'
  BY <1>1, <1>3, <1>4, <1>5 DEF TypeOK, Adverse, AdverseAssumption, Disk
<1>7. LocksInv'
  BY <1>2, <1>3, LocksKept
<1>8. (\A q \in Plans \ {p} : Untouched(q)) /\ OnOwnNode(p)
  BY <1>3, <1>4, <1>5 DEF Untouched, OnOwnNode
<1>9. ClaimInv(p)'
  BY <1>1, <1>2, <1>3, <1>4, <1>5 DEF PlanInv, ClaimInv, DirInv, Owned
<1>10. DirInv(p)'
  BY <1>1, <1>2, <1>3, <1>4, <1>5 DEF PlanInv, DirInv, PlansAssumption, Journal
<1>11. VerdictInv(p)'
  BY <1>1, <1>2, <1>3, <1>4, <1>5 DEF PlanInv, VerdictInv, InNode, Sweeping, At
<1>12. RunsInv(p)'
  BY <1>1, <1>2, <1>3, <1>4, <1>5 DEF PlanInv, RunsInv, InNode, Sweeping, NodeOf, Worker
<1>13. OrderInv(p)'
  <2>1. worker[p].action # "preview" => NodesOf[p][worker[p].k] \in journal[p].accepted
    BY DEF Skipped, NodeOf
  <2>2. \A i \in 1 .. worker[p].k : i = worker[p].k \/ i \in 1 .. (worker[p].k - 1)
    BY <1>1 DEF Worker
  <2>3. worker'[p].k - 1 = worker[p].k
    BY <1>1, <1>3 DEF Worker
  <2>4. QED
    BY <1>1, <1>2, <1>3, <1>4, <1>5, <2>1, <2>2, <2>3 DEF PlanInv, OrderInv, At
<1>14. QED
  BY <1>6, <1>7, <1>8, <1>9, <1>10, <1>11, <1>12, <1>13, Together DEF PlanInv

\* The next node gets a directory of its own.
LEMMA EnterStep ==
    ASSUME PlansAssumption, AdverseAssumption, IInv, NEW p \in Plans, At(p, "node"),
           worker[p].k <= Len(NodesOf[p]), NEW d \in Dirs \ made[p],
           made' = [made EXCEPT ![p] = @ \cup {d}],
           worker' = [worker EXCEPT ![p].at = "claim", ![p].dir = d],
           UNCHANGED <<journal, room, deployed, valid, approved, adverse>>
    PROVE  IInv'
<1>1. /\ TypeOK /\ PlanInv(p) /\ worker[p] \in Worker /\ journal[p] \in Journal
      /\ made[p] \subseteq Dirs /\ room[p] \in [Dirs -> SUBSET Material]
  BY Shape DEF IInv, PlansInv
<1>2. worker[p].at = "node"
  BY <1>1 DEF Disk, At
<1>3. /\ worker' \in [Plans -> Worker] /\ \A q \in Plans \ {p} : worker'[q] = worker[q]
      /\ worker'[p].at = "claim" /\ worker'[p].action = worker[p].action
      /\ worker'[p].k = worker[p].k /\ worker'[p].goal = worker[p].goal
      /\ worker'[p].dir = d /\ worker'[p].ret = worker[p].ret
      /\ worker'[p].failed = worker[p].failed
  <2>1. [worker[p] EXCEPT !.at = "claim", !.dir = d] \in Worker
    BY <1>1 DEF Worker, Pcs
  <2>2. worker' = [worker EXCEPT ![p] = [worker[p] EXCEPT !.at = "claim", !.dir = d]]
    BY <1>1 DEF TypeOK, Worker
  <2>3. worker'[p] = [worker[p] EXCEPT !.at = "claim", !.dir = d]
    BY <1>1, <2>2 DEF TypeOK
  <2>4. worker' \in [Plans -> Worker] /\ \A q \in Plans \ {p} : worker'[q] = worker[q]
    BY <1>1, <2>1, <2>2 DEF TypeOK
  <2>5. QED
    BY <1>1, <2>3, <2>4 DEF Worker
<1>4. UNCHANGED journal
  BY DEF Disk
<1>5. /\ made' \in [Plans -> SUBSET Dirs] /\ (\A q \in Plans \ {p} : made'[q] = made[q])
      /\ made'[p] = made[p] \cup {d}
      /\ UNCHANGED room
      /\ UNCHANGED deployed
      /\ UNCHANGED approved
  BY <1>1, <1>2 DEF TypeOK, Disk, Disk
<1>6. TypeOK'
  BY <1>1, <1>3, <1>4, <1>5 DEF TypeOK, Adverse, AdverseAssumption, Disk
<1>7. LocksInv'
  BY <1>2, <1>3, LocksKept
<1>8. (\A q \in Plans \ {p} : Untouched(q)) /\ OnOwnNode(p)
  BY <1>3, <1>4, <1>5 DEF Untouched, OnOwnNode
<1>9. ClaimInv(p)'
  BY <1>1, <1>2, <1>3, <1>4, <1>5 DEF PlanInv, ClaimInv, DirInv, Owned
<1>10. DirInv(p)'
  BY <1>1, <1>2, <1>3, <1>4, <1>5 DEF PlanInv, DirInv, PlansAssumption, Journal
<1>11. VerdictInv(p)'
  BY <1>1, <1>2, <1>3, <1>4, <1>5 DEF PlanInv, VerdictInv, InNode, Sweeping, At
<1>12. RunsInv(p)'
  BY <1>1, <1>2, <1>3, <1>4, <1>5 DEF PlanInv, RunsInv, InNode, Sweeping, NodeOf, Worker
<1>13. OrderInv(p)'
  BY <1>1, <1>2, <1>3, <1>4, <1>5 DEF PlanInv, OrderInv, At
<1>14. QED
  BY <1>6, <1>7, <1>8, <1>9, <1>10, <1>11, <1>12, <1>13, Together DEF PlanInv

LEMMA NextNodeStep ==
    ASSUME PlansAssumption, AdverseAssumption, IInv, NEW p \in Plans, NextNode(p)
    PROVE  IInv'
<1>1. /\ At(p, "node") /\ worker[p].k <= Len(NodesOf[p])
      /\ UNCHANGED <<journal, room, deployed, valid, approved, adverse>>
  BY DEF NextNode
<1>2. CASE Skipped(p) /\ worker' = [worker EXCEPT ![p].k = @ + 1] /\ UNCHANGED made
  BY <1>1, <1>2, SkipStep
<1>3. CASE \E d \in Dirs \ made[p] :
             /\ made' = [made EXCEPT ![p] = @ \cup {d}]
             /\ worker' = [worker EXCEPT ![p].at = "claim", ![p].dir = d]
  BY <1>1, <1>3, EnterStep
<1>4. QED
  BY <1>2, <1>3 DEF NextNode

\* The directory is claimed before anything is in it.
LEMMA ClaimStep ==
    ASSUME PlansAssumption, AdverseAssumption, IInv, NEW p \in Plans, Claim(p)
    PROVE  IInv'
<1>1. /\ TypeOK /\ PlanInv(p) /\ worker[p] \in Worker /\ journal[p] \in Journal
      /\ made[p] \subseteq Dirs /\ room[p] \in [Dirs -> SUBSET Material]
  BY Shape DEF IInv, PlansInv
<1>2. worker[p].at = "claim"
  BY <1>1 DEF Claim, At
<1>3. /\ worker' \in [Plans -> Worker] /\ \A q \in Plans \ {p} : worker'[q] = worker[q]
      /\ worker'[p].at = "attempt" /\ worker'[p].action = worker[p].action
      /\ worker'[p].k = worker[p].k /\ worker'[p].goal = worker[p].goal
      /\ worker'[p].dir = worker[p].dir /\ worker'[p].ret = worker[p].ret
      /\ worker'[p].failed = worker[p].failed
  BY <1>1, GotoWorker DEF Pcs, Claim
<1>4. /\ journal' \in [Plans -> Journal] /\ \A q \in Plans \ {p} : journal'[q] = journal[q]
      /\ journal'[p].status = journal[p].status /\ journal'[p].accepted = journal[p].accepted
      /\ journal'[p].review = journal[p].review /\ journal'[p].cleanup = journal[p].cleanup
      /\ journal'[p].runtime = worker[p].dir
  <2>1. [journal[p] EXCEPT !.runtime = worker[p].dir] \in Journal
    BY <1>1 DEF Journal, Worker
  <2>2. QED
    BY <1>1, <2>1, SaveJournal DEF Claim, Journal
<1>5. /\ UNCHANGED made
      /\ UNCHANGED room
      /\ UNCHANGED deployed
      /\ UNCHANGED approved
  BY <1>1, <1>2 DEF TypeOK, Disk, Claim
<1>6. TypeOK'
  BY <1>1, <1>3, <1>4, <1>5 DEF TypeOK, Adverse, AdverseAssumption, Claim
<1>7. LocksInv'
  BY <1>2, <1>3, LocksKept
<1>8. (\A q \in Plans \ {p} : Untouched(q)) /\ OnOwnNode(p)
  BY <1>3, <1>4, <1>5 DEF Untouched, OnOwnNode
<1>9. ClaimInv(p)'
  <2>1. \A d \in Dirs : room[p][d] \cap Owned = {}
    BY <1>1, <1>2 DEF PlanInv, ClaimInv, DirInv, PlansAssumption
  <2>2. QED
    BY <1>5, <2>1 DEF ClaimInv
<1>10. DirInv(p)'
  BY <1>1, <1>2, <1>3, <1>4, <1>5 DEF PlanInv, DirInv, PlansAssumption, Journal
<1>11. VerdictInv(p)'
  BY <1>1, <1>2, <1>3, <1>4, <1>5 DEF PlanInv, VerdictInv, InNode, Sweeping, At
<1>12. RunsInv(p)'
  BY <1>1, <1>2, <1>3, <1>4, <1>5 DEF PlanInv, RunsInv, InNode, Sweeping, NodeOf, Worker
<1>13. OrderInv(p)'
  BY <1>1, <1>2, <1>3, <1>4, <1>5 DEF PlanInv, OrderInv, At
<1>14. QED
  BY <1>6, <1>7, <1>8, <1>9, <1>10, <1>11, <1>12, <1>13, Together DEF PlanInv

\* Copies of the inputs go into the claimed directory.
LEMMA AttemptStep ==
    ASSUME PlansAssumption, AdverseAssumption, IInv, NEW p \in Plans, Attempt(p)
    PROVE  IInv'
<1>1. /\ TypeOK /\ PlanInv(p) /\ worker[p] \in Worker /\ journal[p] \in Journal
      /\ made[p] \subseteq Dirs /\ room[p] \in [Dirs -> SUBSET Material]
  BY Shape DEF IInv, PlansInv
<1>2. worker[p].at = "attempt"
  BY <1>1 DEF Attempt, Material, At
<1>3. /\ worker' \in [Plans -> Worker] /\ \A q \in Plans \ {p} : worker'[q] = worker[q]
      /\ worker'[p].at \in {"stage", "clean"} /\ worker'[p].action = worker[p].action
      /\ worker'[p].k = worker[p].k /\ worker'[p].goal \in {worker[p].goal, "decrypt"}
      /\ worker'[p].dir = worker[p].dir /\ worker'[p].ret = worker[p].ret
      /\ worker'[p].failed \in {worker[p].failed, "yes"}
  <2>1. CASE valid[p] = "yes"
    <3>1. [worker[p] EXCEPT !.at = "stage", !.goal = "decrypt"] \in Worker
      BY <1>1 DEF Worker, Pcs, Goals
    <3>2. worker' = [worker EXCEPT ![p] = [worker[p] EXCEPT !.at = "stage", !.goal = "decrypt"]]
      BY <1>1, <2>1 DEF Attempt, TypeOK, Worker
    <3>3. worker'[p] = [worker[p] EXCEPT !.at = "stage", !.goal = "decrypt"]
      BY <1>1, <3>2 DEF TypeOK
    <3>4. worker' \in [Plans -> Worker] /\ \A q \in Plans \ {p} : worker'[q] = worker[q]
      BY <1>1, <3>1, <3>2 DEF TypeOK
    <3>5. QED
      BY <1>1, <3>3, <3>4 DEF Worker
  <2>2. CASE valid[p] # "yes"
    BY <1>1, <2>2, RaiseWorker DEF Attempt
  <2>3. QED
    BY <2>1, <2>2
<1>4. UNCHANGED journal
  BY DEF Attempt, Material
<1>5. /\ UNCHANGED made
      /\ room' \in [Plans -> [Dirs -> SUBSET Material]]
      /\ (\A q \in Plans \ {p} : room'[q] = room[q])
      /\ \A d \in Dirs \ {worker[p].dir} : room'[p][d] = room[p][d]
      /\ UNCHANGED deployed
      /\ UNCHANGED approved
  BY <1>1, <1>2 DEF TypeOK, Disk, Attempt, Material
<1>6. TypeOK'
  BY <1>1, <1>3, <1>4, <1>5 DEF TypeOK, Adverse, AdverseAssumption, Attempt, Material
<1>7. LocksInv'
  BY <1>2, <1>3, LocksKept
<1>8. (\A q \in Plans \ {p} : Untouched(q)) /\ OnOwnNode(p)
  BY <1>3, <1>4, <1>5 DEF Untouched, OnOwnNode
<1>9. ClaimInv(p)'
  BY <1>1, <1>2, <1>3, <1>4, <1>5 DEF PlanInv, ClaimInv, DirInv, Owned
<1>10. DirInv(p)'
  BY <1>1, <1>2, <1>3, <1>4, <1>5 DEF PlanInv, DirInv, PlansAssumption, Journal
<1>11. VerdictInv(p)'
  BY <1>1, <1>2, <1>3, <1>4, <1>5 DEF PlanInv, VerdictInv, InNode, Sweeping, At
<1>12. RunsInv(p)'
  <2>1. worker'[p].at = "clean" => worker'[p].failed = "yes"
    BY <1>1, RaiseWorker DEF Attempt, TypeOK, Worker
  <2>2. QED
    BY <1>1, <1>2, <1>3, <1>4, <1>5, <2>1 DEF PlanInv, RunsInv, InNode, Sweeping, NodeOf, Worker
<1>13. OrderInv(p)'
  BY <1>1, <1>2, <1>3, <1>4, <1>5 DEF PlanInv, OrderInv, At
<1>14. QED
  BY <1>6, <1>7, <1>8, <1>9, <1>10, <1>11, <1>12, <1>13, Together DEF PlanInv

\* decrypt writes plaintext, deploy leaves the node between two sources.
LEMMA CommandStep ==
    ASSUME PlansAssumption, AdverseAssumption, IInv, NEW p \in Plans, At(p, "stage"), Goto(p, "command"),
           room' = IF worker[p].goal = "decrypt"
                   THEN [room EXCEPT ![p][worker[p].dir] = @ \cup {"secret"}] ELSE room,
           deployed' = IF worker[p].goal = "deploy"
                       THEN [deployed EXCEPT ![NodeOf(p)] = None] ELSE deployed,
           UNCHANGED <<journal, made, valid, approved, adverse>>
    PROVE  IInv'
<1>1. /\ TypeOK /\ PlanInv(p) /\ worker[p] \in Worker /\ journal[p] \in Journal
      /\ made[p] \subseteq Dirs /\ room[p] \in [Dirs -> SUBSET Material]
  BY Shape DEF IInv, PlansInv
<1>2. worker[p].at = "stage"
  BY <1>1 DEF Material, At
<1>3. /\ worker' \in [Plans -> Worker] /\ \A q \in Plans \ {p} : worker'[q] = worker[q]
      /\ worker'[p].at = "command" /\ worker'[p].action = worker[p].action
      /\ worker'[p].k = worker[p].k /\ worker'[p].goal = worker[p].goal
      /\ worker'[p].dir = worker[p].dir /\ worker'[p].ret = worker[p].ret
      /\ worker'[p].failed = worker[p].failed
  BY <1>1, GotoWorker DEF Pcs
<1>4. UNCHANGED journal
  BY DEF Material
<1>5. /\ UNCHANGED made
      /\ room' \in [Plans -> [Dirs -> SUBSET Material]]
      /\ (\A q \in Plans \ {p} : room'[q] = room[q])
      /\ \A d \in Dirs \ {worker[p].dir} : room'[p][d] = room[p][d]
      /\ deployed' \in [Node -> Plans \cup {None}] /\ OnOwnNode(p)
      /\ UNCHANGED approved
  <2>1. NodeOf(p) \in Node /\ NodeOf(p) \in Resources(p)
    BY <1>1, <1>2, OwnNode DEF PlanInv, RunsInv, InNode, Worker
  <2>2. deployed' \in [Node -> Plans \cup {None}] /\ OnOwnNode(p)
    BY <1>1, <1>2, <2>1 DEF TypeOK, OnOwnNode, At
  <2>3. QED
    BY <1>1, <1>2, <2>2 DEF TypeOK, Material
<1>6. TypeOK'
  BY <1>1, <1>3, <1>4, <1>5 DEF TypeOK, Adverse, AdverseAssumption, Material
<1>7. LocksInv'
  BY <1>2, <1>3, LocksKept
<1>8. (\A q \in Plans \ {p} : Untouched(q)) /\ OnOwnNode(p)
  BY <1>3, <1>4, <1>5 DEF Untouched, OnOwnNode
<1>9. ClaimInv(p)'
  BY <1>1, <1>2, <1>3, <1>4, <1>5 DEF PlanInv, ClaimInv, DirInv, Owned
<1>10. DirInv(p)'
  BY <1>1, <1>2, <1>3, <1>4, <1>5 DEF PlanInv, DirInv, PlansAssumption, Journal
<1>11. VerdictInv(p)'
  BY <1>1, <1>2, <1>3, <1>4, <1>5 DEF PlanInv, VerdictInv, InNode, Sweeping, At
<1>12. RunsInv(p)'
  BY <1>1, <1>2, <1>3, <1>4, <1>5 DEF PlanInv, RunsInv, InNode, Sweeping, NodeOf, Worker
<1>13. OrderInv(p)'
  BY <1>1, <1>2, <1>3, <1>4, <1>5 DEF PlanInv, OrderInv, At
<1>14. QED
  BY <1>6, <1>7, <1>8, <1>9, <1>10, <1>11, <1>12, <1>13, Together DEF PlanInv

\* The frozen inputs are checked before every command.
LEMMA StageBeginStep ==
    ASSUME PlansAssumption, AdverseAssumption, IInv, NEW p \in Plans, StageBegin(p)
    PROVE  IInv'
<1>1. At(p, "stage") /\ UNCHANGED <<journal, made, valid, approved, adverse>>
  BY DEF StageBegin
<1>2. adverse' \in 0 .. MaxAdverse /\ worker[p].at = "stage"
  BY <1>1 DEF IInv, TypeOK, At
<1>3. CASE valid[p] = "no"
  BY <1>1, <1>2, <1>3, RaiseStep DEF StageBegin, Disk
<1>4. CASE valid[p] # "no"
  BY <1>1, <1>4, CommandStep DEF StageBegin
<1>5. QED
  BY <1>3, <1>4

\* A command that succeeds leads to the next stage, the gate or the cleanup.
LEMMA StageEndStep ==
    ASSUME PlansAssumption, AdverseAssumption, IInv, NEW p \in Plans, StageEnd(p)
    PROVE  IInv'
<1>1. /\ TypeOK /\ PlanInv(p) /\ worker[p] \in Worker /\ journal[p] \in Journal
      /\ made[p] \subseteq Dirs /\ room[p] \in [Dirs -> SUBSET Material]
  BY Shape DEF IInv, PlansInv
<1>2. worker[p].at = "command"
  BY <1>1 DEF StageEnd, At
<1>3. /\ worker' \in [Plans -> Worker] /\ \A q \in Plans \ {p} : worker'[q] = worker[q]
      /\ worker'[p].at \in {"stage", "clean", "gate"} /\ worker'[p].action = worker[p].action
      /\ worker'[p].k = worker[p].k /\ worker'[p].goal \in Goals
      /\ worker'[p].dir = worker[p].dir /\ worker'[p].ret = worker[p].ret
      /\ worker'[p].failed = worker[p].failed
  <2>1. CASE worker[p].goal # LastGoal(p)
    <3>1. GoalAfter[worker[p].goal] \in Goals
      BY <1>1 DEF GoalAfter, Goals, Worker
    <3>2. [worker[p] EXCEPT !.at = "stage", !.goal = GoalAfter[worker[p].goal]] \in Worker
      BY <1>1, <3>1 DEF Worker, Pcs
    <3>3. worker' = [worker EXCEPT
             ![p] = [worker[p] EXCEPT !.at = "stage", !.goal = GoalAfter[worker[p].goal]]]
      BY <1>1, <2>1 DEF StageEnd, TypeOK, Worker
    <3>4. worker'[p] = [worker[p] EXCEPT !.at = "stage", !.goal = GoalAfter[worker[p].goal]]
      BY <1>1, <3>3 DEF TypeOK
    <3>5. worker' \in [Plans -> Worker] /\ \A q \in Plans \ {p} : worker'[q] = worker[q]
      BY <1>1, <3>2, <3>3 DEF TypeOK
    <3>6. QED
      BY <1>1, <3>1, <3>4, <3>5 DEF Worker
  <2>2. CASE worker[p].goal = LastGoal(p)
    <3>1. Goto(p, IF worker[p].action = "preview" THEN "clean" ELSE "gate")
      BY <2>2 DEF StageEnd
    <3>2. QED
      BY <1>1, <3>1, GotoWorker DEF Pcs, Worker
  <2>3. QED
    BY <2>1, <2>2
<1>4. UNCHANGED journal
  BY DEF StageEnd
<1>5. /\ UNCHANGED made
      /\ UNCHANGED room
      /\ deployed' \in [Node -> Plans \cup {None}] /\ OnOwnNode(p)
      /\ UNCHANGED approved
  <2>1. NodeOf(p) \in Node /\ NodeOf(p) \in Resources(p)
    BY <1>1, <1>2, OwnNode DEF PlanInv, RunsInv, InNode, Worker
  <2>2. deployed' \in [Node -> Plans \cup {None}] /\ OnOwnNode(p)
    BY <1>1, <1>2, <2>1 DEF TypeOK, OnOwnNode, At, StageEnd
  <2>3. QED
    BY <2>2 DEF StageEnd, Disk
<1>6. TypeOK'
  BY <1>1, <1>3, <1>4, <1>5 DEF TypeOK, Adverse, AdverseAssumption, StageEnd
<1>7. LocksInv'
  BY <1>2, <1>3, LocksKept
<1>8. (\A q \in Plans \ {p} : Untouched(q)) /\ OnOwnNode(p)
  BY <1>3, <1>4, <1>5 DEF Untouched, OnOwnNode
<1>9. ClaimInv(p)'
  BY <1>1, <1>2, <1>3, <1>4, <1>5 DEF PlanInv, ClaimInv, DirInv, Owned
<1>10. DirInv(p)'
  BY <1>1, <1>2, <1>3, <1>4, <1>5 DEF PlanInv, DirInv, PlansAssumption, Journal
<1>11. VerdictInv(p)'
  BY <1>1, <1>2, <1>3, <1>4, <1>5 DEF PlanInv, VerdictInv, InNode, Sweeping, At
<1>12. RunsInv(p)'
  <2>1. worker'[p].at = "clean" => worker[p].action = "preview"
    BY <1>1, GotoWorker DEF StageEnd, TypeOK, Worker, Pcs
  <2>2. QED
    BY <1>1, <1>2, <1>3, <1>4, <1>5, <2>1 DEF PlanInv, RunsInv, InNode, Sweeping, NodeOf, Worker
<1>13. OrderInv(p)'
  <2>1. worker[p].action = "preview" => worker'[p].goal \in {"decrypt", "dry-run"}
    <3>1. SUFFICES ASSUME worker[p].action = "preview"
                   PROVE  worker'[p].goal \in {"decrypt", "dry-run"}
      OBVIOUS
    <3>2. worker[p].goal \in {"decrypt", "dry-run"} /\ LastGoal(p) = "dry-run"
      BY <1>1, <3>1 DEF PlanInv, OrderInv, LastGoal
    <3>3. CASE worker[p].goal = "decrypt"
      <4>1. GoalAfter["decrypt"] = "dry-run"
        BY DEF GoalAfter, Goals
      <4>2. QED
        BY <1>1, <3>2, <3>3, <4>1 DEF StageEnd, TypeOK, Worker
    <3>4. CASE worker[p].goal = "dry-run"
      <4>1. Goto(p, "clean")
        BY <3>1, <3>2, <3>4 DEF StageEnd
      <4>2. QED
        BY <1>1, <3>4, <4>1, GotoWorker DEF Pcs
    <3>5. QED
      BY <3>2, <3>3, <3>4
  <2>2. QED
    BY <1>1, <1>2, <1>3, <1>4, <1>5, <2>1 DEF PlanInv, OrderInv, At
<1>14. QED
  BY <1>6, <1>7, <1>8, <1>9, <1>10, <1>11, <1>12, <1>13, Together DEF PlanInv

\* The gate finds the source of the plan on its node.
LEMMA GatePassStep ==
    ASSUME PlansAssumption, AdverseAssumption, IInv, NEW p \in Plans, GatePass(p)
    PROVE  IInv'
<1>1. /\ TypeOK /\ PlanInv(p) /\ worker[p] \in Worker /\ journal[p] \in Journal
      /\ made[p] \subseteq Dirs /\ room[p] \in [Dirs -> SUBSET Material]
  BY Shape DEF IInv, PlansInv
<1>2. worker[p].at = "gate" /\ deployed[NodeOf(p)] = p
  BY <1>1 DEF GatePass, At
<1>3. /\ worker' \in [Plans -> Worker] /\ \A q \in Plans \ {p} : worker'[q] = worker[q]
      /\ worker'[p].at = "clean" /\ worker'[p].action = worker[p].action
      /\ worker'[p].k = worker[p].k /\ worker'[p].goal = worker[p].goal
      /\ worker'[p].dir = worker[p].dir /\ worker'[p].ret = worker[p].ret
      /\ worker'[p].failed = worker[p].failed
  BY <1>1, GotoWorker DEF Pcs, GatePass
<1>4. UNCHANGED journal
  BY DEF GatePass
<1>5. /\ UNCHANGED made
      /\ UNCHANGED room
      /\ UNCHANGED deployed
      /\ UNCHANGED approved
  BY <1>1, <1>2 DEF TypeOK, Disk, GatePass
<1>6. TypeOK'
  BY <1>1, <1>3, <1>4, <1>5 DEF TypeOK, Adverse, AdverseAssumption, GatePass
<1>7. LocksInv'
  BY <1>2, <1>3, LocksKept
<1>8. (\A q \in Plans \ {p} : Untouched(q)) /\ OnOwnNode(p)
  BY <1>3, <1>4, <1>5 DEF Untouched, OnOwnNode
<1>9. ClaimInv(p)'
  BY <1>1, <1>2, <1>3, <1>4, <1>5 DEF PlanInv, ClaimInv, DirInv, Owned
<1>10. DirInv(p)'
  BY <1>1, <1>2, <1>3, <1>4, <1>5 DEF PlanInv, DirInv, PlansAssumption, Journal
<1>11. VerdictInv(p)'
  BY <1>1, <1>2, <1>3, <1>4, <1>5 DEF PlanInv, VerdictInv, InNode, Sweeping, At
<1>12. RunsInv(p)'
  BY <1>1, <1>2, <1>3, <1>4, <1>5 DEF PlanInv, RunsInv, InNode, Sweeping, NodeOf, Worker
<1>13. OrderInv(p)'
  BY <1>1, <1>2, <1>3, <1>4, <1>5 DEF PlanInv, OrderInv, At
<1>14. QED
  BY <1>6, <1>7, <1>8, <1>9, <1>10, <1>11, <1>12, <1>13, Together DEF PlanInv

\* A failing command or gate leads to the cleanup.
LEMMA StageFailStep ==
    ASSUME PlansAssumption, AdverseAssumption, IInv, NEW p \in Plans, StageFail(p)
    PROVE  IInv'
<1>1. adverse' \in 0 .. MaxAdverse
  BY DEF StageFail, Adverse, AdverseAssumption, IInv, TypeOK
<1>2. QED
  BY <1>1, RaiseStep DEF StageFail, At

LEMMA GateFailStep ==
    ASSUME PlansAssumption, AdverseAssumption, IInv, NEW p \in Plans, GateFail(p)
    PROVE  IInv'
<1>1. adverse' \in 0 .. MaxAdverse
  BY DEF GateFail, Adverse, AdverseAssumption, IInv, TypeOK
<1>2. QED
  BY <1>1, RaiseStep DEF GateFail, At

\* make clean removes the decrypted file.
LEMMA CleanStep ==
    ASSUME PlansAssumption, AdverseAssumption, IInv, NEW p \in Plans, Clean(p)
    PROVE  IInv'
<1>1. /\ TypeOK /\ PlanInv(p) /\ worker[p] \in Worker /\ journal[p] \in Journal
      /\ made[p] \subseteq Dirs /\ room[p] \in [Dirs -> SUBSET Material]
  BY Shape DEF IInv, PlansInv
<1>2. worker[p].at = "clean"
  BY <1>1 DEF Clean, At
<1>3. /\ worker' \in [Plans -> Worker] /\ \A q \in Plans \ {p} : worker'[q] = worker[q]
      /\ worker'[p].at = "list" /\ worker'[p].action = worker[p].action
      /\ worker'[p].k = worker[p].k /\ worker'[p].goal = worker[p].goal
      /\ worker'[p].dir = worker[p].dir /\ worker'[p].ret = "clean"
      /\ worker'[p].failed = worker[p].failed
  <2>1. [worker[p] EXCEPT !.at = "list", !.ret = "clean"] \in Worker
    BY <1>1 DEF Worker, Pcs
  <2>2. worker' = [worker EXCEPT ![p] = [worker[p] EXCEPT !.at = "list", !.ret = "clean"]]
    BY <1>1 DEF TypeOK, Worker, Clean
  <2>3. worker'[p] = [worker[p] EXCEPT !.at = "list", !.ret = "clean"]
    BY <1>1, <2>2 DEF TypeOK
  <2>4. worker' \in [Plans -> Worker] /\ \A q \in Plans \ {p} : worker'[q] = worker[q]
    BY <1>1, <2>1, <2>2 DEF TypeOK
  <2>5. QED
    BY <1>1, <2>3, <2>4 DEF Worker
<1>4. UNCHANGED journal
  BY DEF Clean
<1>5. /\ UNCHANGED made
      /\ room' \in [Plans -> [Dirs -> SUBSET Material]]
      /\ (\A q \in Plans \ {p} : room'[q] = room[q])
      /\ \A d \in Dirs : room'[p][d] \subseteq room[p][d]
      /\ UNCHANGED deployed
      /\ UNCHANGED approved
  BY <1>1, <1>2 DEF TypeOK, Disk, Clean
<1>6. TypeOK'
  BY <1>1, <1>3, <1>4, <1>5 DEF TypeOK, Adverse, AdverseAssumption, Clean
<1>7. LocksInv'
  BY <1>2, <1>3, LocksKept
<1>8. (\A q \in Plans \ {p} : Untouched(q)) /\ OnOwnNode(p)
  BY <1>3, <1>4, <1>5 DEF Untouched, OnOwnNode
<1>9. ClaimInv(p)'
  BY <1>1, <1>2, <1>3, <1>4, <1>5 DEF PlanInv, ClaimInv, DirInv, Owned
<1>10. DirInv(p)'
  BY <1>1, <1>2, <1>3, <1>4, <1>5 DEF PlanInv, DirInv, PlansAssumption, Journal
<1>11. VerdictInv(p)'
  BY <1>1, <1>2, <1>3, <1>4, <1>5 DEF PlanInv, VerdictInv, InNode, Sweeping, At
<1>12. RunsInv(p)'
  BY <1>1, <1>2, <1>3, <1>4, <1>5 DEF PlanInv, RunsInv, InNode, Sweeping, NodeOf, Worker
<1>13. OrderInv(p)'
  BY <1>1, <1>2, <1>3, <1>4, <1>5 DEF PlanInv, OrderInv, At
<1>14. QED
  BY <1>6, <1>7, <1>8, <1>9, <1>10, <1>11, <1>12, <1>13, Together DEF PlanInv

LEMMA CleanFailStep ==
    ASSUME PlansAssumption, AdverseAssumption, IInv, NEW p \in Plans, CleanFail(p)
    PROVE  IInv'
<1>1. adverse' \in 0 .. MaxAdverse
  BY DEF CleanFail, Adverse, AdverseAssumption, IInv, TypeOK
<1>2. QED
  BY <1>1, AgainStep DEF CleanFail, At

\* The second cleanup decides what is reported.
LEMMA DirtyStep ==
    ASSUME PlansAssumption, AdverseAssumption, IInv, NEW p \in Plans, Dirty(p)
    PROVE  IInv'
<1>1. /\ TypeOK /\ PlanInv(p) /\ worker[p] \in Worker /\ journal[p] \in Journal
      /\ made[p] \subseteq Dirs /\ room[p] \in [Dirs -> SUBSET Material]
  BY Shape DEF IInv, PlansInv
<1>2. worker[p].at = "dirty"
  BY <1>1 DEF Dirty, At
<1>3. /\ worker' \in [Plans -> Worker] /\ \A q \in Plans \ {p} : worker'[q] = worker[q]
      /\ worker'[p].at = "idle" /\ worker'[p].action = "preview"
      /\ worker'[p].k = 1 /\ worker'[p].goal = "decrypt"
      /\ worker'[p].dir = None /\ worker'[p].ret = "start"
      /\ worker'[p].failed = "no"
  BY <1>1, ExitWorker DEF Idle, Dirty
<1>4. /\ journal' \in [Plans -> Journal] /\ \A q \in Plans \ {p} : journal'[q] = journal[q]
      /\ journal'[p].status = "failed" /\ journal'[p].accepted = journal[p].accepted
      /\ journal'[p].review = journal[p].review /\ journal'[p].cleanup = IF journal[p].runtime = None THEN "after-failure" ELSE "failed"
      /\ journal'[p].runtime = journal[p].runtime
  <2>1. [journal[p] EXCEPT !.status = "failed",
           !.cleanup = IF journal[p].runtime = None THEN "after-failure" ELSE "failed"] \in Journal
    BY <1>1 DEF Journal, Statuses
  <2>2. /\ journal' \in [Plans -> Journal] /\ \A q \in Plans \ {p} : journal'[q] = journal[q]
        /\ journal'[p] = [journal[p] EXCEPT !.status = "failed",
              !.cleanup = IF journal[p].runtime = None THEN "after-failure" ELSE "failed"]
    BY <1>1, <2>1, SaveJournal DEF Dirty
  <2>3. QED
    BY <1>1, <2>2 DEF Journal
<1>5. /\ UNCHANGED made
      /\ UNCHANGED room
      /\ UNCHANGED deployed
      /\ UNCHANGED approved
  BY <1>1, <1>2 DEF TypeOK, Disk, Dirty
<1>6. TypeOK'
  BY <1>1, <1>3, <1>4, <1>5 DEF TypeOK, Adverse, AdverseAssumption, Dirty
<1>7. LocksInv'
  BY <1>2, <1>3, LocksKept
<1>8. (\A q \in Plans \ {p} : Untouched(q)) /\ OnOwnNode(p)
  BY <1>3, <1>4, <1>5 DEF Untouched, OnOwnNode
<1>9. ClaimInv(p)'
  BY <1>1, <1>2, <1>3, <1>4, <1>5 DEF PlanInv, ClaimInv, DirInv, Owned
<1>10. DirInv(p)'
  BY <1>1, <1>2, <1>3, <1>4, <1>5 DEF PlanInv, DirInv, PlansAssumption, Journal
<1>11. VerdictInv(p)'
  <2>1. journal[p].runtime = None => \A d \in Dirs : room[p][d] \cap Owned = {}
    BY <1>1 DEF PlanInv, ClaimInv, PlansAssumption
  <2>2. QED
    BY <1>1, <1>2, <1>3, <1>4, <1>5, <2>1 DEF VerdictInv, InNode, Sweeping, At
<1>12. RunsInv(p)'
  BY <1>1, <1>2, <1>3, <1>4, <1>5 DEF PlanInv, RunsInv, InNode, Sweeping, NodeOf, Worker
<1>13. OrderInv(p)'
  BY <1>1, <1>2, <1>3, <1>4, <1>5 DEF PlanInv, OrderInv, At
<1>14. QED
  BY <1>6, <1>7, <1>8, <1>9, <1>10, <1>11, <1>12, <1>13, Together DEF PlanInv

\* A failed run is recorded once nothing of it is left.
LEMMA CleanedFailedStep ==
    ASSUME PlansAssumption, AdverseAssumption, IInv, NEW p \in Plans, At(p, "cleaned"), Exit(p),
           Save(p, [journal[p] EXCEPT !.cleanup = "absent", !.status = "failed"]),
           UNCHANGED <<Disk, deployed, valid, approved, adverse>>
    PROVE  IInv'
<1>1. /\ TypeOK /\ PlanInv(p) /\ worker[p] \in Worker /\ journal[p] \in Journal
      /\ made[p] \subseteq Dirs /\ room[p] \in [Dirs -> SUBSET Material]
  BY Shape DEF IInv, PlansInv
<1>2. worker[p].at = "cleaned"
  BY <1>1 DEF Disk, At
<1>3. /\ worker' \in [Plans -> Worker] /\ \A q \in Plans \ {p} : worker'[q] = worker[q]
      /\ worker'[p].at = "idle" /\ worker'[p].action = "preview"
      /\ worker'[p].k = 1 /\ worker'[p].goal = "decrypt"
      /\ worker'[p].dir = None /\ worker'[p].ret = "start"
      /\ worker'[p].failed = "no"
  BY <1>1, ExitWorker DEF Idle
<1>4. /\ journal' \in [Plans -> Journal] /\ \A q \in Plans \ {p} : journal'[q] = journal[q]
      /\ journal'[p].status = "failed" /\ journal'[p].accepted = journal[p].accepted
      /\ journal'[p].review = journal[p].review /\ journal'[p].cleanup = "absent"
      /\ journal'[p].runtime = journal[p].runtime
  <2>1. [journal[p] EXCEPT !.cleanup = "absent", !.status = "failed"] \in Journal
    BY <1>1 DEF Journal, Statuses
  <2>2. /\ journal' \in [Plans -> Journal] /\ \A q \in Plans \ {p} : journal'[q] = journal[q]
        /\ journal'[p] = [journal[p] EXCEPT !.cleanup = "absent", !.status = "failed"]
    BY <1>1, <2>1, SaveJournal
  <2>3. QED
    BY <1>1, <2>2 DEF Journal
<1>5. /\ UNCHANGED made
      /\ UNCHANGED room
      /\ UNCHANGED deployed
      /\ UNCHANGED approved
  BY <1>1, <1>2 DEF TypeOK, Disk, Disk
<1>6. TypeOK'
  BY <1>1, <1>3, <1>4, <1>5 DEF TypeOK, Adverse, AdverseAssumption, Disk
<1>7. LocksInv'
  BY <1>2, <1>3, LocksKept
<1>8. (\A q \in Plans \ {p} : Untouched(q)) /\ OnOwnNode(p)
  BY <1>3, <1>4, <1>5 DEF Untouched, OnOwnNode
<1>9. ClaimInv(p)'
  BY <1>1, <1>2, <1>3, <1>4, <1>5 DEF PlanInv, ClaimInv, DirInv, Owned
<1>10. DirInv(p)'
  BY <1>1, <1>2, <1>3, <1>4, <1>5 DEF PlanInv, DirInv, PlansAssumption, Journal
<1>11. VerdictInv(p)'
  <2>1. \A d \in Dirs : room[p][d] \cap Owned = {}
    BY <1>1, <1>2 DEF PlanInv, ClaimInv, DirInv, PlansAssumption
  <2>2. QED
    BY <1>1, <1>2, <1>3, <1>4, <1>5, <2>1 DEF PlanInv, VerdictInv, InNode, Sweeping, At
<1>12. RunsInv(p)'
  BY <1>1, <1>2, <1>3, <1>4, <1>5 DEF PlanInv, RunsInv, InNode, Sweeping, NodeOf, Worker
<1>13. OrderInv(p)'
  BY <1>1, <1>2, <1>3, <1>4, <1>5 DEF PlanInv, OrderInv, At
<1>14. QED
  BY <1>6, <1>7, <1>8, <1>9, <1>10, <1>11, <1>12, <1>13, Together DEF PlanInv

\* A node is accepted after its cleanup.
LEMMA AcceptStep ==
    ASSUME PlansAssumption, AdverseAssumption, IInv, NEW p \in Plans, At(p, "cleaned"),
           Save(p, [journal[p] EXCEPT !.cleanup = "absent",
                       !.accepted = IF worker[p].action = "preview" THEN @ ELSE @ \cup {NodeOf(p)}]),
           worker' = [worker EXCEPT ![p].at = "node", ![p].k = @ + 1, ![p].dir = None],
           UNCHANGED <<Disk, deployed, valid, approved, adverse>>
    PROVE  IInv'
<1>1. /\ TypeOK /\ PlanInv(p) /\ worker[p] \in Worker /\ journal[p] \in Journal
      /\ made[p] \subseteq Dirs /\ room[p] \in [Dirs -> SUBSET Material]
  BY Shape DEF IInv, PlansInv
<1>2. worker[p].at = "cleaned"
  BY <1>1 DEF Disk, At
<1>3. /\ worker' \in [Plans -> Worker] /\ \A q \in Plans \ {p} : worker'[q] = worker[q]
      /\ worker'[p].at = "node" /\ worker'[p].action = worker[p].action
      /\ worker'[p].k = worker[p].k + 1 /\ worker'[p].goal = worker[p].goal
      /\ worker'[p].dir = None /\ worker'[p].ret = worker[p].ret
      /\ worker'[p].failed = worker[p].failed
  <2>1. worker[p].k \in Nat /\ worker[p].k + 1 \in Nat
    BY <1>1 DEF Worker
  <2>2. [worker[p] EXCEPT !.at = "node", !.k = worker[p].k + 1, !.dir = None] \in Worker
    BY <1>1, <2>1 DEF Worker, Pcs
  <2>3. worker' = [worker EXCEPT
           ![p] = [worker[p] EXCEPT !.at = "node", !.k = worker[p].k + 1, !.dir = None]]
    BY <1>1 DEF TypeOK, Worker
  <2>4. worker'[p] = [worker[p] EXCEPT !.at = "node", !.k = worker[p].k + 1, !.dir = None]
    BY <1>1, <2>3 DEF TypeOK
  <2>5. worker' \in [Plans -> Worker] /\ \A q \in Plans \ {p} : worker'[q] = worker[q]
    BY <1>1, <2>2, <2>3 DEF TypeOK
  <2>6. QED
    BY <1>1, <2>4, <2>5 DEF Worker
<1>4. /\ journal' \in [Plans -> Journal] /\ \A q \in Plans \ {p} : journal'[q] = journal[q]
      /\ journal'[p].status = journal[p].status /\ journal'[p].accepted = IF worker[p].action = "preview" THEN journal[p].accepted
                               ELSE journal[p].accepted \cup {NodeOf(p)}
      /\ journal'[p].review = journal[p].review /\ journal'[p].cleanup = "absent"
      /\ journal'[p].runtime = journal[p].runtime
  <2>1. NodeOf(p) \in Node
    BY <1>1, <1>2, OwnNode DEF PlanInv, RunsInv, InNode, Worker
  <2>2. [journal[p] EXCEPT !.cleanup = "absent",
           !.accepted = IF worker[p].action = "preview" THEN @ ELSE @ \cup {NodeOf(p)}] \in Journal
    BY <1>1, <2>1 DEF Journal
  <2>3. /\ journal' \in [Plans -> Journal] /\ \A q \in Plans \ {p} : journal'[q] = journal[q]
        /\ journal'[p] = [journal[p] EXCEPT !.cleanup = "absent",
              !.accepted = IF worker[p].action = "preview" THEN @ ELSE @ \cup {NodeOf(p)}]
    BY <1>1, <2>2, SaveJournal
  <2>4. QED
    BY <1>1, <2>3 DEF Journal
<1>5. /\ UNCHANGED made
      /\ UNCHANGED room
      /\ UNCHANGED deployed
      /\ UNCHANGED approved
  BY <1>1, <1>2 DEF TypeOK, Disk, Disk
<1>6. TypeOK'
  BY <1>1, <1>3, <1>4, <1>5 DEF TypeOK, Adverse, AdverseAssumption, Disk
<1>7. LocksInv'
  BY <1>2, <1>3, LocksKept
<1>8. (\A q \in Plans \ {p} : Untouched(q)) /\ OnOwnNode(p)
  BY <1>3, <1>4, <1>5 DEF Untouched, OnOwnNode
<1>9. ClaimInv(p)'
  BY <1>1, <1>2, <1>3, <1>4, <1>5 DEF PlanInv, ClaimInv, DirInv, Owned
<1>10. DirInv(p)'
  BY <1>1, <1>2, <1>3, <1>4, <1>5 DEF PlanInv, DirInv, PlansAssumption, Journal
<1>11. VerdictInv(p)'
  <2>1. \A d \in Dirs : room[p][d] \cap Owned = {}
    BY <1>1, <1>2 DEF PlanInv, ClaimInv, DirInv, PlansAssumption
  <2>2. QED
    BY <1>1, <1>2, <1>3, <1>4, <1>5, <2>1 DEF PlanInv, VerdictInv, InNode, Sweeping, At
<1>12. RunsInv(p)'
  BY <1>1, <1>2, <1>3, <1>4, <1>5 DEF PlanInv, RunsInv, InNode, Sweeping, NodeOf, Worker
<1>13. OrderInv(p)'
  <2>1. \A i \in 1 .. worker[p].k : i = worker[p].k \/ i \in 1 .. (worker[p].k - 1)
    BY <1>1 DEF Worker
  <2>2. worker'[p].k - 1 = worker[p].k
    BY <1>1, <1>3 DEF Worker
  <2>3. QED
    BY <1>1, <1>2, <1>3, <1>4, <1>5, <2>1, <2>2 DEF PlanInv, OrderInv, At, NodeOf
<1>14. QED
  BY <1>6, <1>7, <1>8, <1>9, <1>10, <1>11, <1>12, <1>13, Together DEF PlanInv

LEMMA CleanedStep ==
    ASSUME PlansAssumption, AdverseAssumption, IInv, NEW p \in Plans, Cleaned(p)
    PROVE  IInv'
<1>1. CASE worker[p].failed = "yes"
  BY <1>1, CleanedFailedStep DEF Cleaned
<1>2. CASE worker[p].failed # "yes"
  BY <1>2, AcceptStep DEF Cleaned
<1>3. QED
  BY <1>1, <1>2

\* A complete preview has a review of its own.
LEMMA FinishPreviewStep ==
    ASSUME PlansAssumption, AdverseAssumption, IInv, NEW p \in Plans, At(p, "node"), Exit(p),
           worker[p].action = "preview", NEW r \in Reviews,
           Save(p, [journal[p] EXCEPT !.status = "previewed", !.review = r]),
           UNCHANGED <<Disk, deployed, valid, approved, adverse>>
    PROVE  IInv'
<1>1. /\ TypeOK /\ PlanInv(p) /\ worker[p] \in Worker /\ journal[p] \in Journal
      /\ made[p] \subseteq Dirs /\ room[p] \in [Dirs -> SUBSET Material]
  BY Shape DEF IInv, PlansInv
<1>2. worker[p].at = "node"
  BY <1>1 DEF Disk, At
<1>3. /\ worker' \in [Plans -> Worker] /\ \A q \in Plans \ {p} : worker'[q] = worker[q]
      /\ worker'[p].at = "idle" /\ worker'[p].action = "preview"
      /\ worker'[p].k = 1 /\ worker'[p].goal = "decrypt"
      /\ worker'[p].dir = None /\ worker'[p].ret = "start"
      /\ worker'[p].failed = "no"
  BY <1>1, ExitWorker DEF Idle
<1>4. /\ journal' \in [Plans -> Journal] /\ \A q \in Plans \ {p} : journal'[q] = journal[q]
      /\ journal'[p].status = "previewed" /\ journal'[p].accepted = journal[p].accepted
      /\ journal'[p].review = r /\ journal'[p].cleanup = journal[p].cleanup
      /\ journal'[p].runtime = journal[p].runtime
  <2>1. [journal[p] EXCEPT !.status = "previewed", !.review = r] \in Journal
    BY <1>1 DEF Journal, Statuses
  <2>2. /\ journal' \in [Plans -> Journal] /\ \A q \in Plans \ {p} : journal'[q] = journal[q]
        /\ journal'[p] = [journal[p] EXCEPT !.status = "previewed", !.review = r]
    BY <1>1, <2>1, SaveJournal
  <2>3. QED
    BY <1>1, <2>2 DEF Journal
<1>5. /\ UNCHANGED made
      /\ UNCHANGED room
      /\ UNCHANGED deployed
      /\ UNCHANGED approved
  BY <1>1, <1>2 DEF TypeOK, Disk, Disk
<1>6. TypeOK'
  BY <1>1, <1>3, <1>4, <1>5 DEF TypeOK, Adverse, AdverseAssumption, Disk
<1>7. LocksInv'
  BY <1>2, <1>3, LocksKept
<1>8. (\A q \in Plans \ {p} : Untouched(q)) /\ OnOwnNode(p)
  BY <1>3, <1>4, <1>5 DEF Untouched, OnOwnNode
<1>9. ClaimInv(p)'
  BY <1>1, <1>2, <1>3, <1>4, <1>5 DEF PlanInv, ClaimInv, DirInv, Owned
<1>10. DirInv(p)'
  BY <1>1, <1>2, <1>3, <1>4, <1>5 DEF PlanInv, DirInv, PlansAssumption, Journal
<1>11. VerdictInv(p)'
  <2>1. \A d \in Dirs : room[p][d] \cap Owned = {}
    BY <1>1, <1>2 DEF PlanInv, ClaimInv, DirInv, PlansAssumption
  <2>2. QED
    BY <1>1, <1>2, <1>3, <1>4, <1>5, <2>1 DEF PlanInv, VerdictInv, InNode, Sweeping, At
<1>12. RunsInv(p)'
  BY <1>1, <1>2, <1>3, <1>4, <1>5 DEF PlanInv, RunsInv, InNode, Sweeping, NodeOf, Worker
<1>13. OrderInv(p)'
  BY <1>1, <1>2, <1>3, <1>4, <1>5 DEF PlanInv, OrderInv, At
<1>14. QED
  BY <1>6, <1>7, <1>8, <1>9, <1>10, <1>11, <1>12, <1>13, Together DEF PlanInv

\* A run is complete after its last node.
LEMMA FinishRunStep ==
    ASSUME PlansAssumption, AdverseAssumption, IInv, NEW p \in Plans, At(p, "node"), Exit(p),
           Save(p, [journal[p] EXCEPT !.status = "complete"]),
           UNCHANGED <<Disk, deployed, valid, approved, adverse>>
    PROVE  IInv'
<1>1. /\ TypeOK /\ PlanInv(p) /\ worker[p] \in Worker /\ journal[p] \in Journal
      /\ made[p] \subseteq Dirs /\ room[p] \in [Dirs -> SUBSET Material]
  BY Shape DEF IInv, PlansInv
<1>2. worker[p].at = "node"
  BY <1>1 DEF Disk, At
<1>3. /\ worker' \in [Plans -> Worker] /\ \A q \in Plans \ {p} : worker'[q] = worker[q]
      /\ worker'[p].at = "idle" /\ worker'[p].action = "preview"
      /\ worker'[p].k = 1 /\ worker'[p].goal = "decrypt"
      /\ worker'[p].dir = None /\ worker'[p].ret = "start"
      /\ worker'[p].failed = "no"
  BY <1>1, ExitWorker DEF Idle
<1>4. /\ journal' \in [Plans -> Journal] /\ \A q \in Plans \ {p} : journal'[q] = journal[q]
      /\ journal'[p].status = "complete" /\ journal'[p].accepted = journal[p].accepted
      /\ journal'[p].review = journal[p].review /\ journal'[p].cleanup = journal[p].cleanup
      /\ journal'[p].runtime = journal[p].runtime
  <2>1. [journal[p] EXCEPT !.status = "complete"] \in Journal
    BY <1>1 DEF Journal, Statuses
  <2>2. QED
    BY <1>1, <2>1, SaveJournal DEF Journal
<1>5. /\ UNCHANGED made
      /\ UNCHANGED room
      /\ UNCHANGED deployed
      /\ UNCHANGED approved
  BY <1>1, <1>2 DEF TypeOK, Disk, Disk
<1>6. TypeOK'
  BY <1>1, <1>3, <1>4, <1>5 DEF TypeOK, Adverse, AdverseAssumption, Disk
<1>7. LocksInv'
  BY <1>2, <1>3, LocksKept
<1>8. (\A q \in Plans \ {p} : Untouched(q)) /\ OnOwnNode(p)
  BY <1>3, <1>4, <1>5 DEF Untouched, OnOwnNode
<1>9. ClaimInv(p)'
  BY <1>1, <1>2, <1>3, <1>4, <1>5 DEF PlanInv, ClaimInv, DirInv, Owned
<1>10. DirInv(p)'
  BY <1>1, <1>2, <1>3, <1>4, <1>5 DEF PlanInv, DirInv, PlansAssumption, Journal
<1>11. VerdictInv(p)'
  <2>1. \A d \in Dirs : room[p][d] \cap Owned = {}
    BY <1>1, <1>2 DEF PlanInv, ClaimInv, DirInv, PlansAssumption
  <2>2. QED
    BY <1>1, <1>2, <1>3, <1>4, <1>5, <2>1 DEF PlanInv, VerdictInv, InNode, Sweeping, At
<1>12. RunsInv(p)'
  BY <1>1, <1>2, <1>3, <1>4, <1>5 DEF PlanInv, RunsInv, InNode, Sweeping, NodeOf, Worker
<1>13. OrderInv(p)'
  BY <1>1, <1>2, <1>3, <1>4, <1>5 DEF PlanInv, OrderInv, At
<1>14. QED
  BY <1>6, <1>7, <1>8, <1>9, <1>10, <1>11, <1>12, <1>13, Together DEF PlanInv

LEMMA FinishStep ==
    ASSUME PlansAssumption, AdverseAssumption, IInv, NEW p \in Plans, Finish(p)
    PROVE  IInv'
<1>1. CASE worker[p].action = "preview"
  BY <1>1, FinishPreviewStep DEF Finish
<1>2. CASE worker[p].action # "preview"
  BY <1>2, FinishRunStep DEF Finish
<1>3. QED
  BY <1>1, <1>2

\* A worker dies anywhere; the journal and the disk stay.
LEMMA DieStep ==
    ASSUME PlansAssumption, AdverseAssumption, IInv, NEW p \in Plans, Die(p)
    PROVE  IInv'
<1>1. adverse' \in 0 .. MaxAdverse
  BY DEF Die, Adverse, AdverseAssumption, IInv, TypeOK
<1>2. QED
  BY <1>1, ExitStep DEF Die

\* The inputs change under the plan.
LEMMA OutdateStep ==
    ASSUME PlansAssumption, AdverseAssumption, IInv, NEW p \in Plans, Outdate(p)
    PROVE  IInv'
<1>1. /\ TypeOK /\ PlanInv(p) /\ worker[p] \in Worker /\ journal[p] \in Journal
      /\ made[p] \subseteq Dirs /\ room[p] \in [Dirs -> SUBSET Material]
  BY Shape DEF IInv, PlansInv
<1>2. TRUE
  BY <1>1 DEF Outdate, At
<1>3. UNCHANGED worker
  BY DEF Outdate
<1>4. UNCHANGED journal
  BY DEF Outdate
<1>5. /\ UNCHANGED made
      /\ UNCHANGED room
      /\ UNCHANGED deployed
      /\ UNCHANGED approved
  BY <1>1, <1>2 DEF TypeOK, Disk, Outdate
<1>6. TypeOK'
  BY <1>1, <1>3, <1>4, <1>5 DEF TypeOK, Adverse, AdverseAssumption, Outdate
<1>7. LocksInv'
  BY <1>3 DEF IInv, LocksInv, At
<1>8. (\A q \in Plans \ {p} : Untouched(q)) /\ OnOwnNode(p)
  BY <1>3, <1>4, <1>5 DEF Untouched, OnOwnNode
<1>9. ClaimInv(p)'
  BY <1>1, <1>2, <1>3, <1>4, <1>5 DEF PlanInv, ClaimInv, DirInv, Owned
<1>10. DirInv(p)'
  BY <1>1, <1>2, <1>3, <1>4, <1>5 DEF PlanInv, DirInv, PlansAssumption, Journal
<1>11. VerdictInv(p)'
  BY <1>1, <1>2, <1>3, <1>4, <1>5 DEF PlanInv, VerdictInv, InNode, Sweeping, At
<1>12. RunsInv(p)'
  BY <1>1, <1>2, <1>3, <1>4, <1>5 DEF PlanInv, RunsInv, InNode, Sweeping, NodeOf, Worker
<1>13. OrderInv(p)'
  BY <1>1, <1>2, <1>3, <1>4, <1>5 DEF PlanInv, OrderInv, At
<1>14. QED
  BY <1>6, <1>7, <1>8, <1>9, <1>10, <1>11, <1>12, <1>13, Together DEF PlanInv

\* Foreign files are no credentials.
LEMMA IntrudeStep ==
    ASSUME PlansAssumption, AdverseAssumption, IInv, NEW p \in Plans, Intrude(p)
    PROVE  IInv'
<1>1. /\ TypeOK /\ PlanInv(p) /\ worker[p] \in Worker /\ journal[p] \in Journal
      /\ made[p] \subseteq Dirs /\ room[p] \in [Dirs -> SUBSET Material]
  BY Shape DEF IInv, PlansInv
<1>2. TRUE
  BY <1>1 DEF Intrude, Adverse, Owned, Material, At
<1>3. UNCHANGED worker
  BY DEF Intrude, Adverse, Owned, Material
<1>4. UNCHANGED journal
  BY DEF Intrude, Adverse, Owned, Material
<1>5. /\ UNCHANGED made
      /\ room' \in [Plans -> [Dirs -> SUBSET Material]]
      /\ (\A q \in Plans \ {p} : room'[q] = room[q])
      /\ \A d \in Dirs : room'[p][d] \cap Owned = room[p][d] \cap Owned
      /\ UNCHANGED deployed
      /\ UNCHANGED approved
  BY <1>1, <1>2 DEF TypeOK, Disk, Intrude, Adverse, Owned, Material
<1>6. TypeOK'
  BY <1>1, <1>3, <1>4, <1>5 DEF TypeOK, Adverse, AdverseAssumption, Intrude, Adverse, Owned, Material
<1>7. LocksInv'
  BY <1>3 DEF IInv, LocksInv, At
<1>8. (\A q \in Plans \ {p} : Untouched(q)) /\ OnOwnNode(p)
  BY <1>3, <1>4, <1>5 DEF Untouched, OnOwnNode
<1>9. ClaimInv(p)'
  BY <1>1, <1>2, <1>3, <1>4, <1>5 DEF PlanInv, ClaimInv, DirInv, Owned
<1>10. DirInv(p)'
  BY <1>1, <1>2, <1>3, <1>4, <1>5 DEF PlanInv, DirInv, PlansAssumption, Journal
<1>11. VerdictInv(p)'
  BY <1>1, <1>2, <1>3, <1>4, <1>5 DEF PlanInv, VerdictInv, InNode, Sweeping, At
<1>12. RunsInv(p)'
  BY <1>1, <1>2, <1>3, <1>4, <1>5 DEF PlanInv, RunsInv, InNode, Sweeping, NodeOf, Worker
<1>13. OrderInv(p)'
  BY <1>1, <1>2, <1>3, <1>4, <1>5 DEF PlanInv, OrderInv, At
<1>14. QED
  BY <1>6, <1>7, <1>8, <1>9, <1>10, <1>11, <1>12, <1>13, Together DEF PlanInv

\* Foreign files go again.
LEMMA WithdrawStep ==
    ASSUME PlansAssumption, AdverseAssumption, IInv, NEW p \in Plans, Withdraw(p)
    PROVE  IInv'
<1>1. /\ TypeOK /\ PlanInv(p) /\ worker[p] \in Worker /\ journal[p] \in Journal
      /\ made[p] \subseteq Dirs /\ room[p] \in [Dirs -> SUBSET Material]
  BY Shape DEF IInv, PlansInv
<1>2. TRUE
  BY <1>1 DEF Withdraw, Owned, At
<1>3. UNCHANGED worker
  BY DEF Withdraw, Owned
<1>4. UNCHANGED journal
  BY DEF Withdraw, Owned
<1>5. /\ UNCHANGED made
      /\ room' \in [Plans -> [Dirs -> SUBSET Material]]
      /\ (\A q \in Plans \ {p} : room'[q] = room[q])
      /\ \A d \in Dirs : room'[p][d] \cap Owned = room[p][d] \cap Owned
      /\ UNCHANGED deployed
      /\ UNCHANGED approved
  BY <1>1, <1>2 DEF TypeOK, Disk, Withdraw, Owned
<1>6. TypeOK'
  BY <1>1, <1>3, <1>4, <1>5 DEF TypeOK, Adverse, AdverseAssumption, Withdraw, Owned
<1>7. LocksInv'
  BY <1>3 DEF IInv, LocksInv, At
<1>8. (\A q \in Plans \ {p} : Untouched(q)) /\ OnOwnNode(p)
  BY <1>3, <1>4, <1>5 DEF Untouched, OnOwnNode
<1>9. ClaimInv(p)'
  BY <1>1, <1>2, <1>3, <1>4, <1>5 DEF PlanInv, ClaimInv, DirInv, Owned
<1>10. DirInv(p)'
  BY <1>1, <1>2, <1>3, <1>4, <1>5 DEF PlanInv, DirInv, PlansAssumption, Journal
<1>11. VerdictInv(p)'
  BY <1>1, <1>2, <1>3, <1>4, <1>5 DEF PlanInv, VerdictInv, InNode, Sweeping, At
<1>12. RunsInv(p)'
  BY <1>1, <1>2, <1>3, <1>4, <1>5 DEF PlanInv, RunsInv, InNode, Sweeping, NodeOf, Worker
<1>13. OrderInv(p)'
  BY <1>1, <1>2, <1>3, <1>4, <1>5 DEF PlanInv, OrderInv, At
<1>14. QED
  BY <1>6, <1>7, <1>8, <1>9, <1>10, <1>11, <1>12, <1>13, Together DEF PlanInv

-----------------------------------------------------------------------------
(* The theorems                                                            *)

LEMMA InitInv == ASSUME PlansAssumption, AdverseAssumption, Init PROVE IInv
<1>1. NoJournal \in Journal
  BY DEF NoJournal, Journal, Statuses
<1>2. TypeOK
  BY <1>1, IdleWorker DEF Init, TypeOK, AdverseAssumption
<1>3. LocksInv
  BY DEF Init, LocksInv, At, Idle
<1>4. ASSUME NEW p \in Plans PROVE PlanInv(p)
  <2>1. worker[p] = Idle /\ journal[p] = NoJournal /\ \A d \in Dirs : room[p][d] = {}
    BY DEF Init
  <2>2. QED
    BY <2>1 DEF PlanInv, ClaimInv, DirInv, VerdictInv, RunsInv, OrderInv, InNode, Sweeping, At, Idle,
                NoJournal
<1>5. QED
  BY <1>2, <1>3, <1>4 DEF IInv, PlansInv

LEMMA StepInv == ASSUME PlansAssumption, AdverseAssumption, IInv, [Next]_vars PROVE IInv'
<1>1. CASE UNCHANGED vars
  <2>1. UNCHANGED <<journal, made, room, worker, deployed, valid, approved, adverse>>
    BY <1>1 DEF vars
  <2>2. TypeOK' /\ LocksInv'
    BY <2>1 DEF IInv, TypeOK, LocksInv, At
  <2>3. PlansInv'
    BY <2>1 DEF IInv, PlansInv, PlanInv, ClaimInv, DirInv, VerdictInv, RunsInv, OrderInv, InNode,
                Sweeping, At, NodeOf
  <2>4. QED
    BY <2>2, <2>3 DEF IInv
<1>2. CASE Next
  <2>1. PICK p \in Plans :
           \/ Prepare(p) \/ Approve(p) \/ (\E a \in Actions : Launch(p, a))
           \/ Work(p) \/ StageFail(p) \/ CleanFail(p)
           \/ Die(p) \/ Outdate(p) \/ Intrude(p) \/ Withdraw(p)
    BY <1>2 DEF Next
  <2>2. CASE Work(p)
    BY <2>2, ListStep, UnlinkStep, RmdirStep, SweptStep, RecheckStep, NextNodeStep, ClaimStep,
       AttemptStep, StageBeginStep, StageEndStep, GatePassStep, GateFailStep, CleanStep, DirtyStep,
       CleanedStep, FinishStep DEF Work
  <2>3. QED
    BY <2>1, <2>2, PrepareStep, ApproveStep, LaunchStep, StageFailStep, CleanFailStep, DieStep,
       OutdateStep, IntrudeStep, WithdrawStep
<1>3. QED
  BY <1>1, <1>2

LEMMA Invariance == ASSUME PlansAssumption, AdverseAssumption PROVE Spec => []IInv
<1>1. Init => IInv
  BY InitInv
<1>2. IInv /\ [Next]_vars => IInv'
  BY StepInv
<1>3. QED
  BY <1>1, <1>2, PTL DEF Spec

\* Journals, directories and workers of fleet-maintenance.py keep their shape,
\* for any plans over any nodes.
THEOREM Typed == ASSUME PlansAssumption, AdverseAssumption PROVE Spec => []TypeOK
<1>1. IInv => TypeOK
  BY DEF IInv
<1>2. QED
  BY <1>1, Invariance, PTL

\* Wherever a worker dies, decrypted credentials are in the one directory the
\* journal of the plan names.
THEOREM PlaintextClaimedAlways ==
    ASSUME PlansAssumption, AdverseAssumption PROVE Spec => []PlaintextClaimed
<1>1. IInv => PlaintextClaimed
  BY DEF IInv, PlansInv, PlanInv, ClaimInv, PlaintextClaimed
<1>2. QED
  BY <1>1, Invariance, PTL

\* A recorded verdict that reports the plaintext as removed is true.
THEOREM VerdictCleanAlways ==
    ASSUME PlansAssumption, AdverseAssumption PROVE Spec => []VerdictClean
<1>1. IInv => VerdictClean
  BY DEF IInv, PlansInv, PlanInv, VerdictInv, VerdictClean
<1>2. QED
  BY <1>1, Invariance, PTL

\* A node is accepted only while it runs exactly the source of the plan, however
\* many plans share it.
THEOREM AcceptsWhatRunsAlways ==
    ASSUME PlansAssumption, AdverseAssumption PROVE Spec => [][AcceptsWhatRuns]_vars
<1>1. ASSUME IInv, [Next]_vars PROVE [AcceptsWhatRuns]_vars
  <2>1. SUFFICES ASSUME Next, NEW p \in Plans, NEW n \in Node,
                        n \in journal'[p].accepted \ journal[p].accepted
                 PROVE  deployed[n] = p
    BY <1>1 DEF AcceptsWhatRuns
  <2>2. TypeOK /\ PlanInv(p) /\ worker[p] \in Worker /\ journal[p] \in Journal
    BY <1>1, Shape DEF IInv, PlansInv
  <2>3. PICK q \in Plans :
           \/ Prepare(q) \/ Approve(q) \/ (\E a \in Actions : Launch(q, a))
           \/ Work(q) \/ StageFail(q) \/ CleanFail(q)
           \/ Die(q) \/ Outdate(q) \/ Intrude(q) \/ Withdraw(q)
    BY <2>1 DEF Next
  <2>4. journal' # journal /\ journal'[p] # journal[p]
    BY <2>1
  <2>5. \E j \in {journal'[q]} : journal' = [journal EXCEPT ![q] = j]
    <3>1. Prepare(q) \/ Swept(q) \/ Recheck(q) \/ Claim(q) \/ Dirty(q) \/ Cleaned(q) \/ Finish(q)
      BY <2>3, <2>4
         DEF Work, Approve, Launch, List, Unlink, Rmdir, NextNode, Attempt, StageBegin, StageEnd,
             GatePass, GateFail, Clean, StageFail, CleanFail, Die, Outdate, Intrude, Withdraw
    <3>2. \E j : journal' = [journal EXCEPT ![q] = j]
      BY <2>4, <3>1 DEF Prepare, Swept, Recheck, Claim, Dirty, Cleaned, Finish, Save
    <3>3. QED
      BY <2>2, <3>2 DEF TypeOK
  <2>6. q = p
    BY <2>2, <2>4, <2>5 DEF TypeOK
  <2>7. Cleaned(p) /\ worker[p].failed # "yes" /\ worker[p].action # "preview" /\ n = NodeOf(p)
    <3>1. Prepare(p) \/ Swept(p) \/ Recheck(p) \/ Claim(p) \/ Dirty(p) \/ Cleaned(p) \/ Finish(p)
      BY <2>3, <2>4, <2>6
         DEF Work, Approve, Launch, List, Unlink, Rmdir, NextNode, Attempt, StageBegin, StageEnd,
             GatePass, GateFail, Clean, StageFail, CleanFail, Die, Outdate, Intrude, Withdraw
    <3>2. Save(p, journal'[p]) /\ journal'[p].accepted # journal[p].accepted
      BY <2>1, <2>2, <2>5, <2>6 DEF Save
    <3>3. ASSUME NEW j, Save(p, j) PROVE journal'[p] = j
      BY <2>2, <3>3 DEF Save, TypeOK
    <3>4. ~Prepare(p)
      <4>1. SUFFICES ASSUME Prepare(p) PROVE FALSE
        OBVIOUS
      <4>2. journal'[p] = [NoJournal EXCEPT !.status = "prepared", !.runtime = journal[p].runtime]
        BY <3>3, <4>1 DEF Prepare
      <4>3. QED
        BY <2>1, <4>2 DEF NoJournal
    <3>5. ~Swept(p)
      <4>1. SUFFICES ASSUME Swept(p) PROVE FALSE
        OBVIOUS
      <4>2. journal'[p] = [journal[p] EXCEPT !.runtime = None]
        BY <3>3, <4>1 DEF Swept
      <4>3. QED
        BY <2>2, <3>2, <4>2 DEF Journal
    <3>6. ~Recheck(p)
      <4>1. SUFFICES ASSUME Recheck(p) PROVE FALSE
        OBVIOUS
      <4>2. journal'[p] = [journal[p] EXCEPT !.status = "running"]
        BY <2>4, <3>3, <4>1 DEF Recheck
      <4>3. QED
        BY <2>2, <3>2, <4>2 DEF Journal
    <3>7. ~Claim(p)
      <4>1. SUFFICES ASSUME Claim(p) PROVE FALSE
        OBVIOUS
      <4>2. journal'[p] = [journal[p] EXCEPT !.runtime = worker[p].dir]
        BY <3>3, <4>1 DEF Claim
      <4>3. QED
        BY <2>2, <3>2, <4>2 DEF Journal
    <3>8. ~Dirty(p)
      <4>1. SUFFICES ASSUME Dirty(p) PROVE FALSE
        OBVIOUS
      <4>2. journal'[p] = [journal[p] EXCEPT !.status = "failed",
               !.cleanup = IF journal[p].runtime = None THEN "after-failure" ELSE "failed"]
        BY <3>3, <4>1 DEF Dirty
      <4>3. QED
        BY <2>2, <3>2, <4>2 DEF Journal
    <3>9. ~Finish(p)
      <4>1. SUFFICES ASSUME Finish(p) PROVE FALSE
        OBVIOUS
      <4>2. \/ \E r \in Reviews :
                 journal'[p] = [journal[p] EXCEPT !.status = "previewed", !.review = r]
            \/ journal'[p] = [journal[p] EXCEPT !.status = "complete"]
        BY <3>3, <4>1 DEF Finish
      <4>3. QED
        BY <2>2, <3>2, <4>2 DEF Journal
    <3>10. Cleaned(p)
      BY <3>1, <3>4, <3>5, <3>6, <3>7, <3>8, <3>9
    <3>11. worker[p].failed # "yes"
      <4>1. SUFFICES ASSUME worker[p].failed = "yes" PROVE FALSE
        OBVIOUS
      <4>2. journal'[p] = [journal[p] EXCEPT !.cleanup = "absent", !.status = "failed"]
        BY <3>3, <3>10, <4>1 DEF Cleaned
      <4>3. QED
        BY <2>2, <3>2, <4>2 DEF Journal
    <3>12. journal'[p] = [journal[p] EXCEPT !.cleanup = "absent",
              !.accepted = IF worker[p].action = "preview" THEN @ ELSE @ \cup {NodeOf(p)}]
      BY <3>3, <3>10, <3>11 DEF Cleaned
    <3>13. journal'[p].accepted = IF worker[p].action = "preview" THEN journal[p].accepted
                                  ELSE journal[p].accepted \cup {NodeOf(p)}
      BY <2>2, <3>12 DEF Journal
    <3>14. QED
      BY <2>1, <3>10, <3>11, <3>13
  <2>8. worker[p].at = "cleaned" /\ worker[p].failed = "no"
    BY <2>2, <2>7 DEF Cleaned, At, Worker
  <2>9. QED
    BY <2>2, <2>7, <2>8 DEF PlanInv, RunsInv
<1>2. QED
  BY <1>1, Invariance, PTL DEF Spec

\* A node changes only when every earlier node of its plan has been accepted and
\* under the review the operator approved last.
THEOREM SerialAndApprovedAlways ==
    ASSUME PlansAssumption, AdverseAssumption PROVE Spec => [][SerialAndApproved]_vars
<1>1. IInv => SerialAndApproved
  BY Shape DEF IInv, PlansInv, PlanInv, OrderInv, SerialAndApproved, At
<1>2. QED
  BY <1>1, Invariance, PTL

=============================================================================
