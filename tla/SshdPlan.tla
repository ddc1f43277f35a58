------------------------------ MODULE SshdPlan ------------------------------
(***************************************************************************)
(* The planner of the SSH configuration: which of the main file and the    *)
(* fragments 10 (boot), 20 (managed) and 50 (cloud) sets which option, the *)
(* plan that gives every option one owner without changing what sshd does, *)
(* and the plan that installs the runtime policy of the role.  A plan is   *)
(* applied file by file and undone in the reverse order, so every state in *)
(* between is one in which the host may start sshd.                        *)
(***************************************************************************)
EXTENDS Integers, Sequences, FiniteSets

CONSTANTS MaxEdits,    \* changes by somebody else
          MaxFaults    \* applications that fail

PlanAssumption == MaxEdits \in Nat /\ MaxFaults \in Nat

VARIABLES live,    \* the configuration on disk
          plan,    \* the plan, or NoPlan
          pc,      \* "idle", "planned", "apply", "undo"
          at,      \* files of the plan that are in place
          done,    \* the operation committed last
          edits, faults

vars == <<live, plan, pc, at, done, edits, faults>>

-----------------------------------------------------------------------------
(* Layouts: the parts sshd reads, in its order; the include line splits    *)
(* the main file in two.                                                   *)

Parts == <<"pre", "boot", "managed", "cloud", "extra", "post">>
PartNames == {Parts[i] : i \in 1 .. Len(Parts)}

Auth == {"password", "kbd", "root"}
Tunable == {"x11", "sftp", "algo"}
Keys == Auth \cup Tunable \cup {"port"}

Empty == [k \in Keys |-> "none"]
Sets(part) == {k \in Keys : part[k] # "none"}

Defaults == [port |-> "22", password |-> "yes", kbd |-> "yes", root |-> "yes",
             x11 |-> "no", sftp |-> "none", algo |-> "stock"]

(* sshd -T: the first part that sets an option decides it.                 *)
Effective(l) ==
    [k \in Keys |->
        LET owners == {i \in 1 .. Len(Parts) : l[Parts[i]][k] # "none"}
        IN IF owners = {} THEN Defaults[k]
           ELSE l[Parts[CHOOSE i \in owners : \A j \in owners : i <= j]][k]]

(* sshd -t refuses a subsystem that is defined twice.                      *)
Startable(l) == Cardinality({p \in PartNames : l[p]["sftp"] # "none"}) <= 1

-----------------------------------------------------------------------------
(* Ownership.                                                              *)

BootAllowed(part, keys) ==
    /\ Sets(part) \subseteq keys
    /\ \A k \in Auth : part[k] = "no"
    /\ part["port"] # "none"

(* The packaged main file may set these, with these values.                *)
OwnershipMain(l) ==
    /\ Sets(l["pre"]) \cap Sets(l["post"]) = {}
    /\ "root" \notin Sets(l["pre"])
    /\ \A p \in {"pre", "post"} :
         /\ Sets(l[p]) \subseteq {"kbd", "x11", "sftp", "root"}
         /\ l[p]["kbd"] \in {"none", "no"}
         /\ l[p]["x11"] \in {"none", "yes"}
         /\ l[p]["root"] \in {"none", "yes"}
         /\ l[p]["sftp"] \in {"none", "packaged"}

(* Nobody outside the three fragments and the main file sets an option the *)
(* role owns, and the files the operation needs are there; an empty part   *)
(* stands for a missing file.                                              *)
Capture(l) == /\ Sets(l["extra"]) = {}
              /\ l["managed"] # Empty
              /\ OwnershipMain(l)

Candidable(l) ==
    /\ BootAllowed(l["boot"], Auth \cup {"port", "x11"})
    /\ Sets(l["managed"]) \subseteq Auth \cup Tunable
    /\ \A k \in Auth : l["managed"][k] \in {"none", l["boot"][k]}
    /\ "x11" \in Sets(l["boot"]) \cup Sets(l["managed"])
    /\ \A p \in {"boot", "managed"} : l[p]["x11"] \in {"none", "no"}
    /\ Sets(l["cloud"]) \subseteq {"password"}
    /\ l["cloud"]["password"] \in {"none", "no"}

Without(part, keys) == [k \in Keys |-> IF k \in keys THEN "none" ELSE part[k]]

(* Authentication and port stay in 10, the rest moves to 20, 50 keeps its  *)
(* comments and the shadowed lines of the main file become comments.       *)
Candidates(l) ==
    [l EXCEPT !["pre"] = Without(@, {"kbd", "x11", "root"}),
              !["post"] = Without(@, {"kbd", "x11", "root"}),
              !["boot"] = Without(@, {"x11"}),
              !["managed"] = [Without(@, Auth) EXCEPT !["x11"] = "no"],
              !["cloud"] = Without(@, {"password"})]

(* The files of an operation, in the order in which they are written.      *)
FilesOf(op) == IF op = "ownership" THEN <<"main", "boot", "managed", "cloud">>
                                  ELSE <<"main", "managed">>

(* The layout with one file taken from another layout.                     *)
Written(l, f, from) ==
    IF f = "main" THEN [l EXCEPT !["pre"] = from["pre"], !["post"] = from["post"]]
                  ELSE [l EXCEPT ![f] = from[f]]

(* The layout when the first n files of the operation are in place.        *)
Prefix(l, c, op, n) ==
    LET f == FilesOf(op)
        step[i \in 0 .. n] == IF i = 0 THEN l ELSE Written(step[i - 1], f[i], c)
    IN step[n]

(* Root login is refused already, and no file that is written changes what *)
(* sshd does.                                                              *)
OwnershipPolicy(l, c) ==
    /\ Startable(l) /\ Effective(l)["root"] = "no"
    /\ \A n \in 1 .. 4 :
         LET p == Prefix(l, c, "ownership", n)
         IN Startable(p) /\ Effective(p) = Effective(l)

OwnershipPlans(l) == Capture(l) /\ Candidable(l) /\ OwnershipPolicy(l, Candidates(l))

-----------------------------------------------------------------------------
(* Runtime policy.                                                         *)

RuntimeDirectives(part) ==
    /\ Sets(part) \subseteq Tunable
    /\ part["x11"] = "no"
    /\ part["sftp"] \in {"none", "internal"}

(* One owner per option, and one subsystem.                                *)
BaselineLayout(l) ==
    /\ BootAllowed(l["boot"], Auth \cup {"port"})
    /\ l["managed"] # Empty => RuntimeDirectives(l["managed"])
    /\ Sets(l["cloud"]) = {}
    /\ l["pre"]["sftp"] \in {"none", "packaged"} /\ l["post"]["sftp"] \in {"none", "packaged"}
    /\ Cardinality({p \in {"pre", "post", "managed"} : l[p]["sftp"] # "none"}) = 1

BaselineCapture(l) == /\ Sets(l["extra"]) = {}
                      /\ Sets(l["pre"]) \cup Sets(l["post"]) \subseteq {"sftp"}
                      /\ BaselineLayout(l)

(* Only the current algorithms may be installed, only the current or the   *)
(* previous ones replaced.                                                 *)
AlgorithmDirectives(part, required) ==
    part["algo"] \in IF required THEN {"canonical"} ELSE {"none", "canonical", "previous"}

(* The main file hands its subsystem over when the policy brings one.      *)
BaselineCandidate(l, hardening) ==
    LET main(p) == IF hardening["sftp"] # "none" THEN Without(l[p], {"sftp"}) ELSE l[p]
    IN [l EXCEPT !["pre"] = main("pre"), !["post"] = main("post"), !["managed"] = hardening]

BaselinePlans(l, hardening) ==
    /\ RuntimeDirectives(hardening) /\ AlgorithmDirectives(hardening, TRUE)
    /\ BaselineCapture(l) /\ AlgorithmDirectives(l["managed"], FALSE)
    /\ hardening["sftp"] # "none" \/ l["pre"]["sftp"] # "none" \/ l["post"]["sftp"] # "none"
    /\ LET c == BaselineCandidate(l, hardening)
       IN /\ Startable(l) /\ Startable(c)
          /\ Effective(c)["algo"] = "canonical"
          /\ l["managed"]["algo"] # "none" => Effective(l)["algo"] = l["managed"]["algo"]

-----------------------------------------------------------------------------

NoPlan == [op |-> "none"]

Part(port, password, kbd, root, x11, sftp, algo) ==
    [port |-> port, password |-> password, kbd |-> kbd, root |-> root,
     x11 |-> x11, sftp |-> sftp, algo |-> algo]

BootParts == {Part("p", "no", "no", r, x, "none", "none") :
                r \in {"none", "no"}, x \in {"none", "no", "yes"}}
ManagedParts == {Part("none", w, "none", "none", x, s, g) :
                   w \in {"none", "no", "yes"}, x \in {"none", "no", "yes"},
                   s \in {"none", "internal"}, g \in {"none", "previous", "canonical"}}
CloudParts == {Part("none", w, "none", "none", "none", "none", "none") :
                 w \in {"none", "no", "yes"}}
PreParts == {Part("none", "none", k, r, x, "none", "none") :
               k \in {"none", "no"}, r \in {"none", "yes"}, x \in {"none", "yes"}}
PostParts == {Part("none", "none", k, r, x, s, "none") :
                k \in {"none", "no"}, r \in {"none", "yes"}, x \in {"none", "yes"},
                s \in {"none", "packaged"}}
ExtraParts == {Part("none", w, "none", "none", "none", "none", "none") : w \in {"none", "no"}}
Hardenings == {Part("none", w, "none", "none", "no", s, g) :
                 w \in {"none", "yes"}, s \in {"none", "internal"},
                 g \in {"previous", "canonical"}}

(* Configurations a node may carry: the images, the first boot and earlier *)
(* releases of the role, with one or two things somebody changed.          *)
Init ==
    /\ \E a \in PreParts, b \in BootParts, m \in ManagedParts, c \in CloudParts,
          x \in ExtraParts, z \in PostParts :
         live = [pre |-> a, boot |-> b, managed |-> m, cloud |-> c, extra |-> x, post |-> z]
    /\ plan = NoPlan /\ pc = "idle" /\ at = 0 /\ done = "none" /\ edits = 0 /\ faults = 0

BuildPlan ==
    /\ pc = "idle" /\ OwnershipPlans(live)
    /\ plan' = [op |-> "ownership", before |-> live, after |-> Candidates(live)]
    /\ pc' = "planned" /\ at' = 0
    /\ UNCHANGED <<live, done, edits, faults>>

BuildBaselinePlan ==
    /\ pc = "idle"
    /\ \E h \in Hardenings :
         /\ BaselinePlans(live, h)
         /\ plan' = [op |-> "baseline", before |-> live, after |-> BaselineCandidate(live, h)]
    /\ pc' = "planned" /\ at' = 0
    /\ UNCHANGED <<live, done, edits, faults>>

(* The bytes the plan was made from are still there.                       *)
AssertSnapshot == live = plan.before

Begin ==
    /\ pc = "planned"
    /\ IF AssertSnapshot THEN pc' = "apply" /\ UNCHANGED plan
                         ELSE pc' = "idle" /\ plan' = NoPlan
    /\ UNCHANGED <<live, at, done, edits, faults>>

ApplyFile ==
    /\ pc = "apply" /\ at < Len(FilesOf(plan.op))
    /\ live' = Written(live, FilesOf(plan.op)[at + 1], plan.after)
    /\ at' = at + 1
    /\ UNCHANGED <<plan, pc, done, edits, faults>>

(* The installed layout is supported and its policy the one of the plan.   *)
AssertEffective(phase) ==
    /\ IF plan.op = "ownership" THEN Capture(live) ELSE BaselineCapture(live)
    /\ Startable(live) /\ Effective(live) = Effective(plan[phase])

Commit ==
    /\ pc = "apply" /\ at = Len(FilesOf(plan.op))
    /\ IF AssertEffective("after") THEN pc' = "idle" /\ done' = plan.op
                                   ELSE pc' = "undo" /\ done' = done
    /\ UNCHANGED <<live, plan, at, edits, faults>>

Fails ==
    /\ pc = "apply" /\ faults < MaxFaults
    /\ faults' = faults + 1
    /\ pc' = "undo"
    /\ UNCHANGED <<live, plan, at, done, edits>>

UndoFile ==
    /\ pc = "undo"
    /\ IF at = 0 THEN pc' = "idle" /\ plan' = NoPlan /\ UNCHANGED <<live, at>>
       ELSE /\ live' = Written(live, FilesOf(plan.op)[at], plan.before)
            /\ at' = at - 1
            /\ UNCHANGED <<plan, pc>>
    /\ UNCHANGED <<done, edits, faults>>

(* Somebody else edits a fragment while no plan is being applied.          *)
Edit ==
    /\ pc \in {"idle", "planned"} /\ edits < MaxEdits
    /\ edits' = edits + 1
    /\ \E x \in {"none", "no", "yes"} : live' = [live EXCEPT !["managed"]["x11"] = x]
    /\ live' # live
    /\ done' = "none"
    /\ UNCHANGED <<plan, pc, at, faults>>

Next ==
    \/ BuildPlan \/ BuildBaselinePlan \/ Begin \/ ApplyFile \/ Commit \/ Fails
    \/ UndoFile \/ Edit

Spec == Init /\ [][Next]_vars

-----------------------------------------------------------------------------

Layouts == [PartNames -> [Keys -> {"none", "p", "no", "yes", "internal", "packaged",
                                   "previous", "canonical"}]]

(* Types; what is in place is what the plan says, up to the file it is at. *)
TypeOK ==
    /\ live \in Layouts
    /\ pc \in {"idle", "planned", "apply", "undo"}
    /\ at \in 0 .. 4 /\ edits \in 0 .. MaxEdits /\ faults \in 0 .. MaxFaults
    /\ pc \in {"apply", "undo"} => live = Prefix(plan.before, plan.after, plan.op, at)

Applying == pc \in {"apply", "undo"}

(* Giving every option one owner changes nothing sshd does, at any file at *)
(* which the work may be cut off, forwards or backwards.                   *)
PolicyStable ==
    Applying /\ plan.op = "ownership" => Effective(live) = Effective(plan.before)

(* Wherever the work is cut off, sshd would start from what is on disk.    *)
AlwaysStarts == Applying => Startable(live)

(* A committed ownership plan is final: planning again finds the layout    *)
(* and has nothing to change, and unless the node has no sftp subsystem at *)
(* all the runtime policy can be planned on top of it.                     *)
OwnedOnce ==
    done = "ownership" /\ pc = "idle" =>
        /\ OwnershipPlans(live) /\ Candidates(live) = live
        /\ (\E p \in PartNames : live[p]["sftp"] # "none") => BaselineCapture(live)

(* The runtime policy, once committed, can be planned again.               *)
BaselineAgain == done = "baseline" /\ pc = "idle" => BaselinePlans(live, live["managed"])

=============================================================================
