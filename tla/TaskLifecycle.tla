---------------------------- MODULE TaskLifecycle ----------------------------
(***************************************************************************)
(* The lifecycle of a portfolio task as scripts/tasks/taskctl.py keeps it: *)
(* an issue record, its execution steps, the verification record of an     *)
(* OpenSpec change and three receipts (drop, close, archive), all of them  *)
(* files of a Git work tree.  Every command first validates the whole      *)
(* portfolio (load_state) and then rewrites files one after the other; a   *)
(* kill leaves a prefix of those writes.  Commits, edits of the records by *)
(* hand and a restore of the work tree are steps of the operator.          *)
(*                                                                         *)
(* The history is linear, as the repository's merge policy keeps it, and   *)
(* the committed-review policy is active from its first revision.  Texts   *)
(* are abstracted to the fields a check tells apart, digests to the text   *)
(* they were taken of, revisions to their place in the history.  The       *)
(* portfolio also holds tasks that are not modelled.                       *)
(***************************************************************************)
EXTENDS Naturals, Sequences, FiniteSetsExt

CONSTANTS Tasks,
          Required,     \* the tasks whose spec_mode is "required"
          Initial,      \* the tasks that exist in the first revision
          Worked,       \* the tasks commands are given for
          Blockers,     \* blocked_by of each task
          Related,      \* related_tasks of each task
          MaxSteps,     \* bound: steps of a task
          MaxCommits,   \* bound: revisions
          MaxKills      \* bound: commands killed

TaskAssumption ==
    /\ Required \subseteq Tasks /\ Initial \subseteq Tasks /\ Worked \subseteq Tasks
    /\ Blockers \in [Tasks -> SUBSET Tasks]
    /\ Related \in [Tasks -> SUBSET Tasks]
    /\ MaxSteps \in Nat \ {0} /\ MaxCommits \in Nat \ {0} /\ MaxKills \in Nat

VARIABLES tree,         \* the work tree: a record for every task
          log,          \* the committed trees, oldest first
          last,         \* what wrote the tree last
          kills

vars == <<tree, log, last, kills>>

Open == {"backlog", "todo", "doing", "review", "blocked"}
Terminal == {"done", "dropped"}
Absent == "absent"

NoClose == [outcome |-> "none", issue |-> <<"none", FALSE, "none">>,
            steps |-> <<0, 0, 0>>]
NoDrop == [made |-> FALSE, ids |-> 0]
NoArchive == [outcome |-> "none", sha |-> 0]

Gone == [status |-> Absent, gate |-> FALSE, link |-> "none", place |-> "none",
         open |-> 0, done |-> 0, dropped |-> 0, ev |-> "none", sha |-> 0,
         close |-> NoClose, drop |-> NoDrop, arch |-> NoArchive]

Tip == log[Len(log)]
Present(r) == r.status # Absent

\* What the digests of a close receipt are taken of.
IssueText(r) == <<r.status, r.gate, r.link>>
StepsText(r) == <<r.open, r.done, r.dropped>>

transition_allowed(current, target) ==
    target \in CASE current = "backlog" -> {"todo", "dropped"}
                 [] current = "todo" -> {"backlog", "doing", "blocked", "dropped"}
                 [] current = "doing" -> {"review", "blocked", "todo", "dropped"}
                 [] current = "review" -> {"doing", "blocked", "done", "dropped"}
                 [] current = "blocked" -> {"todo", "doing", "dropped"}
                 [] OTHER -> {}

----------------------------------------------------------------------------
(* Validation of the current portfolio.                                    *)

validate_issue_shape(t, r) ==
    r.status = "blocked" => r.gate \/ Blockers[t] # {}

\* The close receipt holds the digest of the record, or of the record the
\* archive receipt points at, whose links the archival moved.
archived_issue_hash_matches(h, t, r) ==
    \/ r.close.issue = IssueText(r)
    \/ /\ r.close.outcome = "dropped" /\ r.place = "archive"
       /\ r.arch.outcome = "dropped" /\ r.arch.sha \in 1..Len(h)
       /\ LET original == h[r.arch.sha][t]
          IN /\ r.close.issue = IssueText(original)
             /\ original.link = "change"
             /\ IssueText(r) = IssueText([original EXCEPT !.link = "archive"])

CloseReceipt(h, t, r) ==
    /\ r.close.outcome = r.status
    /\ archived_issue_hash_matches(h, t, r)
    /\ r.close.steps = StepsText(r)

DropReceipt(r) == r.drop.made /\ r.drop.ids = r.dropped

expected_execution_path(t, r) ==
    /\ r.place # "none"
    /\ r.place = "archive" => r.status \in {"review", "done", "dropped"}

ExecutionRecords(h, t, r) ==
    /\ r.status \in Terminal => CloseReceipt(h, t, r) /\ r.open = 0
    /\ r.status = "dropped" => DropReceipt(r)
    /\ r.status # "dropped" => r.open + r.done > 0

\* A row of the verification record that maps to a step which was dropped
\* names an unknown step until the drop receipt is read.
validate_requirement_evidence(r) ==
    r.dropped > 0 => r.status = "dropped"

ChangeRecords(r) ==
    /\ r.ev # "none"
    /\ validate_requirement_evidence(r)
    /\ r.status = "done" => r.place = "archive"
    /\ r.place = "archive" =>
         /\ r.open = 0 /\ r.ev = "resolved" /\ r.sha # 0
         /\ r.arch.outcome # "none"

RecordOK(h, t, r) ==
    /\ validate_issue_shape(t, r)
    /\ expected_execution_path(t, r)
    /\ ExecutionRecords(h, t, r)
    /\ t \in Required => ChangeRecords(r)

----------------------------------------------------------------------------
(* Validation of the history of a task that was deleted.                   *)

validate_terminal_snapshot(h, t, final, after) ==
    /\ final.place # "none" /\ final.open = 0
    /\ final.status = "done" => final.done > 0
    /\ CloseReceipt(h, t, final)
    /\ final.status = "dropped" => DropReceipt(final)
    /\ t \in Required =>
         /\ after.place = "archive" /\ after.close = final.close
         /\ after.arch.outcome =
              (IF final.status = "dropped" THEN "dropped" ELSE "review")
         /\ after.arch.sha # 0 /\ after.sha = after.arch.sha
         /\ after.ev = "resolved"
         /\ final.status = "dropped" => after.drop = final.drop

Deletions(h, t, from) ==
    {i \in from + 1..Len(h) : Present(h[i - 1][t]) /\ ~Present(h[i][t])}

\* The first revision of the incarnation that ends at the deletion d.
Incarnation(h, t, from, d) ==
    Max({from} \union {i + 1 : i \in {j \in from..d - 1 : ~Present(h[j][t])}})

\* The last deletion in h[from..] ends a proven lifecycle.
HistoryOK(h, t, from) ==
    LET d == Max(Deletions(h, t, from))
        first == Incarnation(h, t, from, d)
        final == h[d - 1][t]
        ended == {i \in first..d - 1 : h[i][t].status \in Terminal}
    IN /\ final.status \in Terminal
       /\ \A i \in first..d - 1 : validate_issue_shape(t, h[i][t])
       /\ LET k == Min(ended)
          IN /\ \A i \in k..d - 1 : h[i][t].status = final.status
             /\ k = from \/ /\ k > first
                            /\ \/ final.status = "done"
                                  /\ h[k - 1][t].status = "review"
                               \/ final.status = "dropped"
                                  /\ transition_allowed(h[k - 1][t].status,
                                                        "dropped")
       /\ validate_terminal_snapshot(h, t, final, h[d][t])

\* A task that base did not hold and whose files the range never changed was
\* purged on the trusted side: a merge brought it, which no linear range has.
task_lifecycle_changed_outside_base(h, t, base) ==
    \E i \in base + 1..Len(h) : h[i][t] # h[i - 1][t]

\* What the range from base must show of a task it lost: read from base on, a
\* linear history is asked for the same proof as the whole of it by a purge.
DeletedTaskOK(h, t, base) ==
    \/ ~Present(h[base][t]) /\ ~task_lifecycle_changed_outside_base(h, t, base)
    \/ HistoryOK(h, t, base)

\* taskctl validate --base: every task the range lost.
validate_deleted_history(h, base) ==
    \A t \in Tasks :
      /\ ~Present(h[Len(h)][t])
      /\ \E i \in base..Len(h) : Present(h[i][t])
      => DeletedTaskOK(h, t, base)

\* The history with the deletion of t that is about to be made.
Purged(w, t) == [w EXCEPT ![t] = IF t \in Required
                                 THEN [@ EXCEPT !.status = Absent]
                                 ELSE Gone]

\* The outcome of a purged task, "none" when the history does not prove one.
resolve_terminal_task(h, w, t) ==
    LET full == IF Present(h[Len(h)][t])
                THEN Append(h, Purged(h[Len(h)], t)) ELSE h
        erased == IF t \in Required THEN w[t].place = "archive"
                                    ELSE w[t] = Gone
    IN IF /\ Present(h[Len(h)][t]) => ~Present(w[t]) /\ erased
          /\ Deletions(full, t, 1) # {}
          /\ HistoryOK(full, t, 1)
       THEN full[Max(Deletions(full, t, 1)) - 1][t].status
       ELSE "none"

EdgesOK(h, w, t) ==
    /\ \A b \in Blockers[t] : b # t /\ Present(w[b])
    /\ \A s \in Related[t] :
         s # t /\ (Present(w[s]) \/ resolve_terminal_task(h, w, s) = "done")

\* load_state; a task in "authoring" may lack its steps and verification.
LoadState(h, w, authoring) ==
    \A t \in Tasks :
      IF Present(w[t])
      THEN /\ EdgesOK(h, w, t)
           /\ \/ RecordOK(h, t, w[t])
              \/ /\ t \in authoring /\ validate_issue_shape(t, w[t])
                 /\ w[t].status \in Open /\ w[t].place # "archive"
                 /\ w[t].ev = "none" \/ validate_requirement_evidence(w[t])
      ELSE w[t].place # "active"

Valid == LoadState(log, tree, {})

----------------------------------------------------------------------------
(* Commands.  A command writes its files in order: Write takes the records *)
(* after each write, a kill leaves one of those before the last.           *)

Write(t, writes) ==
    /\ UNCHANGED log
    /\ \/ /\ tree' = [tree EXCEPT ![t] = writes[Len(writes)]]
          /\ last' = "command" /\ UNCHANGED kills
       \/ /\ kills < MaxKills /\ kills' = kills + 1
          /\ \E i \in 1..Len(writes) - 1 : tree' = [tree EXCEPT ![t] = writes[i]]
          /\ last' = "killed"

\* allocate_id: no file and no commit has ever carried the identifier.
Unused(t) == tree[t] = Gone /\ \A i \in 1..Len(log) : log[i][t] = Gone

\* The first write of a task of an OpenSpec change only scaffolds it.
command_new(t) ==
    /\ Unused(t) /\ Valid
    /\ LET issue == [Gone EXCEPT !.status = "backlog"]
       IN Write(t, IF t \in Required THEN <<issue>>
                   ELSE <<issue, [issue EXCEPT !.place = "active", !.open = 1]>>)

command_start(t) ==
    /\ tree[t].status \in {"backlog", "todo", "blocked"} /\ Valid
    /\ Write(t, <<[tree[t] EXCEPT !.status = "doing"]>>)

\* A detail is offered where a check reads it, with "blocked".
command_transition(t) ==
    /\ Valid
    /\ \E target \in Open, detail \in BOOLEAN :
         /\ detail => target = "blocked"
         /\ transition_allowed(tree[t].status, target)
         /\ Write(t, <<[tree[t] EXCEPT !.status = target,
                                       !.gate = @ \/ detail]>>)

command_steps_add(t) ==
    /\ tree[t].status \in Open /\ tree[t].place # "archive"
    /\ tree[t].open + tree[t].done + tree[t].dropped < MaxSteps
    /\ LoadState(log, tree, {t} \intersect Required)
    /\ Write(t, <<[tree[t] EXCEPT !.open = @ + 1, !.place = "active"]>>)

\* steps done: mdtask ticks one open step.
command_steps(t) ==
    /\ Present(tree[t]) /\ tree[t].open > 0 /\ Valid
    /\ Write(t, <<[tree[t] EXCEPT !.open = @ - 1, !.done = @ + 1]>>)

verify_task(t, r) ==
    /\ r.open = 0
    /\ t \in Required => r.ev = "resolved" /\ r.sha # 0

\* The links are moved in a committed record only.
repair_archived_issue_links(t, r) ==
    IF r.link = "change" THEN [r EXCEPT !.link = "archive"] ELSE r

LinksCommitted(t) ==
    tree[t].link = "change" => IssueText(Tip[t]) = IssueText(tree[t])

\* A dropped change is archived at the revision that holds its receipts.
DropCommitted(t) ==
    /\ Tip[t].status = "dropped"
    /\ Tip[t].drop.made /\ Tip[t].close.outcome # "none"

ArchiveReceipt(r) == [outcome |-> r.status, sha |-> r.sha]

command_openspec_archive(t) ==
    /\ t \in Required /\ tree[t].status \in {"review", "dropped"}
    /\ tree[t].place = "active" /\ LinksCommitted(t) /\ Valid
    /\ tree[t].status = "dropped" => DropCommitted(t)
    /\ LET verified == IF tree[t].status = "dropped"
                       THEN [tree[t] EXCEPT !.sha = Len(log)] ELSE tree[t]
           moved == [verified EXCEPT !.place = "archive"]
           receipt == [moved EXCEPT !.arch = ArchiveReceipt(moved)]
       IN /\ verify_task(t, verified)
          /\ Write(t, <<verified, moved, receipt,
                        repair_archived_issue_links(t, receipt)>>)

\* Repeating the archival only moves links that are still behind.
ArchiveAgain(t) ==
    /\ t \in Required /\ tree[t].status \in {"review", "dropped"}
    /\ tree[t].place = "archive" /\ tree[t].link = "change" /\ LinksCommitted(t) /\ Valid
    /\ tree[t].status = "dropped" =>
         IssueText(log[tree[t].arch.sha][t]) = IssueText(tree[t])
    /\ Write(t, <<repair_archived_issue_links(t, tree[t])>>)

require_committed_review(t) == Tip[t].status = "review"

write_lifecycle_receipt(r) ==
    [r EXCEPT !.close = [outcome |-> r.status, issue |-> IssueText(r),
                         steps |-> StepsText(r)]]

ClosePrepareDone(t) ==
    /\ tree[t].status = "review" /\ Valid
    /\ require_committed_review(t)
    /\ verify_task(t, tree[t])
    /\ t \in Required => tree[t].place = "archive"
    /\ LET closed == [tree[t] EXCEPT !.status = "done"]
       IN Write(t, <<closed, write_lifecycle_receipt(closed)>>)

\* Open steps become DROPPED records; the evidence of a change is waived.
DroppedSteps(r) == [r EXCEPT !.dropped = @ + r.open, !.open = 0]
WaivedEvidence(t, r) ==
    IF t \in Required THEN [r EXCEPT !.ev = "resolved", !.sha = 0] ELSE r

ClosePrepareDropped(t) ==
    /\ Present(tree[t]) /\ Valid
    /\ transition_allowed(tree[t].status, "dropped")
    /\ LET steps == DroppedSteps(tree[t])
           waived == WaivedEvidence(t, steps)
           receipt == [waived EXCEPT !.drop = [made |-> TRUE,
                                               ids |-> tree[t].open]]
           closed == [receipt EXCEPT !.status = "dropped"]
       IN Write(t, <<steps, waived, receipt, closed,
                     write_lifecycle_receipt(closed)>>)

\* Nobody else names the task, except as a related task that is done.
Unreferenced(t) ==
    \A o \in Tasks \ {t} : Present(tree[o]) =>
        /\ t \notin Blockers[o]
        /\ t \in Related[o] => tree[t].status = "done"

command_close_purge(t) ==
    /\ tree[t].status \in Terminal /\ Valid
    /\ tree[t] = Tip[t] /\ Unreferenced(t)
    /\ t \in Required => tree[t].place = "archive"
    /\ HistoryOK(Append(log, Purged(Tip, t)), t, 1)
    /\ Write(t, IF t \in Required THEN <<Purged(tree, t)[t]>>
                ELSE <<[tree[t] EXCEPT !.place = "none", !.open = 0,
                                       !.done = 0, !.dropped = 0],
                       Purged(tree, t)[t]>>)

----------------------------------------------------------------------------
(* The operator.                                                           *)

\* Verification is written, filled in and given its exact revision.
EditVerification(t) ==
    /\ t \in Required /\ tree[t].status \in Open /\ tree[t].place = "active"
    /\ \/ /\ tree[t].ev = "none"
          /\ tree' = [tree EXCEPT ![t].ev = "pending"]
       \/ /\ tree[t].ev = "pending"
          /\ tree' = [tree EXCEPT ![t].ev = "resolved", ![t].sha = Len(log)]
    /\ last' = "edit" /\ UNCHANGED <<log, kills>>

\* The body of the record gets a link, or a bare blocked record its gate.
EditIssue(t) ==
    /\ tree[t].status \in Open
    /\ \/ /\ t \in Required /\ tree[t].place = "active" /\ tree[t].link = "none"
          /\ tree' = [tree EXCEPT ![t].link = "change"]
       \/ /\ ~validate_issue_shape(t, tree[t])
          /\ tree' = [tree EXCEPT ![t].gate = TRUE]
    /\ last' = "edit" /\ UNCHANGED <<log, kills>>

\* The last revisions of the bound are kept for the end of a task.
Reserved == IF Required = {} THEN 2 ELSE 3
Ending == \E t \in Tasks : Tip[t] # tree[t]
                           /\ tree[t].status \in Terminal \union {Absent}

Commit ==
    /\ tree # Tip
    /\ Len(log) < MaxCommits - (IF Ending THEN 0 ELSE Reserved)
    /\ log' = Append(log, tree)
    /\ last' = "commit" /\ UNCHANGED <<tree, kills>>

\* git restore after a killed command.
Restore ==
    /\ last = "killed" /\ tree' = Tip /\ last' = "edit"
    /\ UNCHANGED <<log, kills>>

Born(t) == [Gone EXCEPT !.status = "todo", !.place = "active", !.open = 1,
                        !.ev = IF t \in Required THEN "pending" ELSE "none"]

Init ==
    /\ tree = [t \in Tasks |-> IF t \in Initial THEN Born(t) ELSE Gone]
    /\ log = <<tree>>
    /\ last = "commit"
    /\ kills = 0

Command(t) ==
    \/ command_new(t) \/ command_start(t) \/ command_transition(t)
    \/ command_steps_add(t) \/ command_steps(t)
    \/ command_openspec_archive(t) \/ ArchiveAgain(t)
    \/ ClosePrepareDone(t) \/ ClosePrepareDropped(t) \/ command_close_purge(t)

Next ==
    \/ \E t \in Worked : Command(t) \/ EditVerification(t) \/ EditIssue(t)
    \/ Commit
    \/ Restore

Spec == Init /\ [][Next]_vars

----------------------------------------------------------------------------
(* Properties.                                                             *)

\* The records, the history and the counters have their types.
TypeOK ==
    /\ \A t \in Tasks, w \in {tree, Tip} :
         /\ w[t].status \in Open \union Terminal \union {Absent}
         /\ w[t].gate \in BOOLEAN /\ w[t].link \in {"none", "change", "archive"}
         /\ w[t].place \in {"none", "active", "archive"}
         /\ w[t].open + w[t].done + w[t].dropped <= MaxSteps
         /\ w[t].ev \in {"none", "pending", "resolved"}
         /\ w[t].sha \in 0..MaxCommits
         /\ w[t].arch.sha \in 0..MaxCommits
    /\ Len(log) \in 1..MaxCommits
    /\ last \in {"command", "killed", "edit", "commit"}
    /\ kills \in 0..MaxKills

Authoring == {t \in Required : /\ Present(tree[t]) /\ tree[t].status \in Open
                               /\ tree[t].place = "none" \/ tree[t].ev = "none"}

\* The records a completed command is known to leave that every later command
\* refuses: a transition to blocked without a detail or a blocker, an archived
\* change sent back from review, and an archived change that is dropped, whose
\* verification loses its revision (command_transition, command_close_prepare).
RefusedRecord(t, r) ==
    \/ ~validate_issue_shape(t, r)
    \/ r.place = "archive" /\ r.status \notin {"review", "done", "dropped"}
    \/ r.place = "archive" /\ r.status = "dropped" /\ r.arch.outcome = "review"

\* Neither the work tree nor a revision holds such a record of the task.
NeverRefused(t) ==
    \A r \in {tree[t]} \union {log[i][t] : i \in 1..Len(log)} :
      Present(r) => ~RefusedRecord(t, r)

\* A command that ran to its end leaves a portfolio that load_state accepts,
\* apart from an OpenSpec task whose planning is still being written and the
\* three records above: no other sequence of completed commands makes the tool
\* refuse its own records.
AcceptedPortfolio ==
    last = "command" /\ (\A t \in Tasks : Present(tree[t]) => ~RefusedRecord(t, tree[t]))
    => LoadState(log, tree, Authoring)

\* A purge the tool allowed is one the pull-request validation accepts,
\* whatever revision before it that validation starts from: the deletion is
\* preceded by a committed, receipted end of the task.
DeletionProven ==
    \A base \in 1..Len(log) : validate_deleted_history(log, base)

\* A task is committed as done only after a revision that shows it in
\* review, so the history never holds a completion nobody could review.
DoneFollowsReview ==
    \A t \in Tasks, i \in 2..Len(log) :
      log[i][t].status = "done" /\ log[i - 1][t].status # "done"
      => log[i - 1][t].status = "review"

=============================================================================
