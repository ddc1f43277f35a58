-------------------------- MODULE RuntimeTransaction --------------------------
(***************************************************************************)
(* The durable publisher of the transport runtime                          *)
(* (transport_runtime_transaction.py), its command line                    *)
(* (transport_runtime_accept.py), the whole-route owner above it           *)
(* (transport_runtime_outer.py) and the generation controller below it,    *)
(* which asks the publisher's admission() before it starts a frontend.     *)
(*                                                                         *)
(* Nodes are inodes, numbered in the order they are staged; 0 is absence.  *)
(* A path's private storage holds the fixed links before-, after-,         *)
(* rollback- and undo-; each rename, link, unlink or record of the code is *)
(* one step, so that a crash may fall between any two of them.  The code   *)
(* re-validates its journals inside an operation; as only the lock holder  *)
(* writes, those repeated checks say what NeverWedged says of every state, *)
(* and only the checks an operation makes when it opens are guards here.   *)
(***************************************************************************)
EXTENDS Integers

CONSTANTS
  Paths,        \* the selectable nodes
  Deferred,     \* those published only after the new generation is ready
  Bytes,        \* what a candidate file may contain
  Authorities,  \* device revocations that may be asked for
  None,         \* no authority, no bytes
  MaxStaged,    \* bound on the stagings of a candidate
  MaxAdverse    \* bound on crashes, faults and reboots

ASSUME PathsAssumption == Deferred \subseteq Paths
ASSUME NoneAssumption == None \notin Bytes /\ None \notin Authorities /\ Bytes # {}
ASSUME BoundsAssumption == MaxStaged \in Nat \ {0} /\ MaxAdverse \in Nat

Node == 0 .. MaxStaged
Absent == 0
Unclaimed == -1
Links == [Paths -> Node]
Claims == [Paths -> Node \cup {Unclaimed}]

\* A receipt claims a node per path; its units are those planned before the
\* start or those observed after it.
Receipt == [nodes : Claims, units : {"none", "planned", "observed"}]
NoReceipt == [nodes |-> [p \in Paths |-> Unclaimed], units |-> "none"]

\* The journalled intent: which entries move from which node to which.
Intent == [cover : SUBSET Paths, was : Links, now : Links,
           old : Receipt, new : Receipt, backups : Claims]
NoIntent == [cover |-> {}, was |-> [p \in Paths |-> Absent], now |-> [p \in Paths |-> Absent],
             old |-> NoReceipt, new |-> NoReceipt, backups |-> [p \in Paths |-> Unclaimed]]

\* What a caller asks for: the covered paths, those to be absent, the bytes of
\* the others.
Candidate == { c \in [cover : (SUBSET Paths) \ {{}}, gone : SUBSET (Paths \ Deferred),
                      bytes : Bytes \cup {None}] :
                 /\ c.gone \subseteq c.cover
                 /\ (c.bytes = None) <=> (c.gone = c.cover) }
NoPlan == [cover |-> {}, gone |-> {}, bytes |-> None]

Authority == Authorities \cup {None}
Revocation == [authority : Authority, plan : Candidate \cup {NoPlan}, receipt : Receipt,
               absent : SUBSET Paths]
NoRevocation == [authority |-> None, plan |-> NoPlan, receipt |-> NoReceipt, absent |-> {}]

Outer == [open : {"no", "yes"}, receipt : Receipt, consumer : Receipt, revocation : Authority]
NoOuter == [open |-> "no", receipt |-> NoReceipt, consumer |-> NoReceipt, revocation |-> None]

Stopped == [p \in Paths |-> Unclaimed]

Steps == {"idle", "armed", "recover", "ensure", "redo", "undo", "restore", "compensate",
          "quiet", "reverse", "revive", "retract", "purge", "recovered", "keep",
          "link", "claimed", "stop", "publish", "start", "ready", "defer", "seal", "commit",
          "accept", "confirm", "cleanup", "last", "retire", "abort", "adopt",
          "reopen", "reclose", "begin"}
Job == [pc : Steps, phase : {"main", "recover"}, ret : {"done", "recovered", "adopt", "reopen"},
        only : {"no", "yes"},       \* restore_only
        fenced : {"no", "yes"},     \* an unfinished revocation when the job armed it
        forward : {"no", "yes"},    \* resuming a retained candidate
        authority : Authority, cand : Candidate \cup {NoPlan}]
Idle == [pc |-> "idle", phase |-> "main", ret |-> "done", only |-> "no", fenced |-> "no",
         forward |-> "no", authority |-> None, cand |-> NoPlan]

VARIABLES
  live,        \* the selected node of each path
  before,      \* storage link before-<index>
  after,       \* storage link after-<index>
  rollback,    \* storage link rollback-<path>
  undo,        \* storage link undo-<index>
  content,     \* the bytes of each staged node
  staged,      \* how many nodes were staged
  prep,        \* preparation.json
  pending,     \* pending.json
  compensating,\* compensating.json
  last,        \* last.json
  accepted,    \* accepted.json
  backups,     \* backups.json
  revocation,  \* revocation.json
  outer,       \* outer.json
  play,        \* does a play still owe its open route an acceptance?
  unit,        \* is the controller enabled and active?
  running,     \* the nodes the frontends were started from, or Stopped
  job,         \* the operation that holds the lock
  adverse      \* crashes, faults and reboots so far

storage == <<before, after, rollback, undo>>
nodes == <<live, storage, content, staged>>
journals == <<prep, pending, compensating, last>>
records == <<journals, accepted, backups, revocation, outer>>
service == <<unit, running>>
vars == <<nodes, records, play, service, job, adverse>>

-----------------------------------------------------------------------------
(* What the records say *)

NoJournal == prep = NoIntent /\ pending = NoIntent /\ compensating = NoIntent

Unfinished(r) == r.authority # None /\ r.receipt = NoReceipt

\* outer.consumer_receipt is None or is not what is accepted now
Unconfirmed == outer.open = "yes" /\ (outer.consumer = NoReceipt \/ outer.consumer # accepted)

\* mutant: a compensation in progress is not counted as unfinished
AdmittedWhileCompensating ==
  \/ prep = NoIntent /\ pending = NoIntent /\ ~ Unfinished(revocation) /\ ~ Unconfirmed
  \/ job.pc # "idle"

\* admission(): an unfinished selection may run only under a held lock
Admitted == (NoJournal /\ ~ Unfinished(revocation) /\ ~ Unconfirmed) \/ job.pc # "idle"

Overlay(f, c, g) == [p \in Paths |-> IF p \in c THEN g[p] ELSE f[p]]

\* after_backups and compensated_backups
AfterBackups(v) == Overlay(v.backups, v.cover, v.was)
CompensatedBackups(v) == Overlay(AfterBackups(v), v.cover, [p \in Paths |-> Absent])

Kept(claim) == IF claim = Unclaimed THEN Absent ELSE claim

\* backups(): the retained rollback nodes are exactly those claimed
BackupsHold == \A p \in Paths : rollback[p] = Kept(backups[p])

\* Inspection of an operation that expects no second link to a selected node
SingleLink(p) == live[p] = Absent \/ live[p] \notin {before[p], after[p], rollback[p], undo[p]}

\* accepted(): every claimed path still is the claimed node
AcceptedHolds ==
  \A p \in Paths : accepted.nodes[p] # Unclaimed => live[p] = accepted.nodes[p] /\ SingleLink(p)

\* cleanup_backup_authority
BackupAuthority(v, committed) ==
  /\ backups = v.backups \/ (committed /\ backups = AfterBackups(v))
  /\ \A p \in Paths :
       IF committed /\ p \in v.cover
       THEN /\ rollback[p] \in (IF backups = AfterBackups(v) THEN {v.was[p]}
                                ELSE {Kept(v.backups[p]), v.was[p], Absent})
            /\ v.was[p] \notin {Absent, rollback[p]} => before[p] = v.was[p]
       ELSE rollback[p] = Kept(v.backups[p])

\* journal()
JournalHolds ==
  pending # NoIntent =>
    /\ \A p \in pending.cover :
         /\ before[p] \in {Absent, pending.was[p]}
         /\ after[p] \in {Absent, pending.now[p]}
         /\ live[p] \in {pending.was[p], pending.now[p], Absent}
         /\ live[p] = Absent => Absent \in {pending.was[p], pending.now[p]}
    /\ accepted \in {pending.old, pending.new}
    /\ BackupAuthority(pending, accepted = pending.new)

\* preparation()
PreparationHolds ==
  prep # NoIntent =>
    /\ \A p \in prep.cover :
         /\ before[p] \in {Absent, prep.was[p]}
         /\ after[p] \in {Absent, prep.now[p]}
         /\ live[p] = prep.was[p]
    /\ pending \in {NoIntent, prep}
    /\ accepted = prep.old
    /\ backups = prep.backups /\ BackupsHold

\* validate_compensation(v)
CompensationHoldsFor(v, preparing) ==
  /\ accepted \in {v.old, v.new}
  /\ backups = AfterBackups(v) \/ (~ preparing /\ backups = CompensatedBackups(v))
  /\ \A p \in Paths \ v.cover :
       /\ rollback[p] = Kept(AfterBackups(v)[p])
       /\ v.new.nodes[p] # Unclaimed => live[p] = v.new.nodes[p] /\ SingleLink(p)
  /\ \A p \in v.cover :
       /\ backups = CompensatedBackups(v) => rollback[p] = Absent
       /\ live[p] \in (IF preparing THEN {v.now[p]} ELSE {v.was[p], v.now[p]})
       /\ rollback[p] \in {Absent, v.was[p]}
       /\ v.was[p] \notin {Absent, live[p]} => rollback[p] = v.was[p]
       /\ undo[p] \in {Absent, v.now[p]}
       /\ (accepted # v.old /\ v.now[p] \notin {Absent, live[p]}) => undo[p] = v.now[p]

CompensationHolds == compensating # NoIntent => CompensationHoldsFor(compensating, FALSE)

\* The names a new preparation links must be free.
NothingLeft == \A p \in Paths : before[p] = Absent /\ after[p] = Absent /\ undo[p] = Absent

Valid == PreparationHolds /\ JournalHolds /\ CompensationHolds

-----------------------------------------------------------------------------
(* Initially nothing is accepted: the host is fresh, or carries a legacy     *)
(* service that bootstrap may adopt.                                         *)

Init ==
  /\ \E n \in {Absent, 1} :
       /\ live = [p \in Paths |-> n]
       /\ staged = n
       /\ unit = IF n = Absent THEN "off" ELSE "on"
       /\ running = IF n = Absent THEN Stopped ELSE live
  /\ content = [n \in 1 .. MaxStaged |-> CHOOSE b \in Bytes : TRUE]
  /\ before = [p \in Paths |-> Absent]
  /\ after = before /\ rollback = before /\ undo = before
  /\ prep = NoIntent /\ pending = NoIntent /\ compensating = NoIntent /\ last = NoIntent
  /\ accepted = NoReceipt
  /\ backups = [p \in Paths |-> Unclaimed]
  /\ revocation = NoRevocation
  /\ outer = NoOuter
  /\ play = "no"
  /\ job = Idle
  /\ adverse = 0

-----------------------------------------------------------------------------
(* Control of the operation that holds the lock *)

At(step) == job.pc = step
Goto(step) == job' = [job EXCEPT !.pc = step]
Done == job' = Idle
\* recover() returns to its caller
Return == job' = IF job.ret = "done" THEN Idle
                 ELSE [job EXCEPT !.pc = job.ret, !.phase = "main"]

\* Adapter.stop(): the controller stops first and loses its boot link
Halt == unit' = "off" /\ running' = Stopped

\* Adapter.start(), ensure() and restore(): with no frontend unit on disk
\* everything is stopped and disabled instead
Frontends(l) == \E p \in Paths \ Deferred : l[p] # Absent
Launch == IF Frontends(live) THEN unit' = "on" /\ running' = live ELSE Halt
Ensure == IF unit = "on" /\ running # Stopped /\ Frontends(live) THEN UNCHANGED service ELSE Launch

\* replace(entry, which): rename the stored node over the path, or drop the
\* extra link of a path that already is the desired node
ReplaceAfter(p) ==
  IF live[p] = pending.now[p]
  THEN after' = [after EXCEPT ![p] = Absent] /\ UNCHANGED live
  ELSE /\ pending.now[p] = Absent \/ after[p] = pending.now[p]
       /\ live' = [live EXCEPT ![p] = pending.now[p]]
       /\ after' = [after EXCEPT ![p] = IF pending.now[p] = Absent THEN @ ELSE Absent]

ReplaceBefore(p) ==
  IF live[p] = pending.was[p]
  THEN before' = [before EXCEPT ![p] = Absent] /\ UNCHANGED live
  ELSE /\ pending.was[p] = Absent \/ before[p] = pending.was[p]
       /\ live' = [live EXCEPT ![p] = pending.was[p]]
       /\ before' = [before EXCEPT ![p] = IF pending.was[p] = Absent THEN @ ELSE Absent]

\* what replace() would still change
ToPublish(deferred) ==
  { p \in pending.cover : (p \in Deferred) = deferred /\ live[p] # pending.now[p] }
ToRestore ==
  { p \in pending.cover : \/ live[p] # pending.was[p]
                          \/ pending.was[p] # Absent /\ before[p] = pending.was[p] }

-----------------------------------------------------------------------------
(* Opening an operation.  The lock is exclusive and non-blocking, and a       *)
(* refusal changes nothing, so only an admitted operation is a step.          *)

\* a covers the retired paths its own fence remembers
Extended(c, a) ==
  IF a # None /\ revocation.authority = a
  THEN [cover |-> c.cover \cup revocation.absent, bytes |-> c.bytes,
        gone |-> c.gone \cup (revocation.absent \ c.cover)]
  ELSE c

\* revocation_state(): an unfinished revocation only resumes under its owner
OwnerOf(a) == Unfinished(revocation) => revocation.authority = a

\* arm_revocation(candidates)
ArmAllowed(a, c) ==
  /\ OwnerOf(a)
  /\ a # None => \/ revocation.authority # a /\ NoJournal
                 \/ revocation.authority = a /\ (c = NoPlan \/ revocation.plan \in {NoPlan, c})

Armed(a, c) ==
  IF a = None THEN revocation
  ELSE LET held == IF revocation.authority = a THEN revocation
                   ELSE [NoRevocation EXCEPT !.authority = a]
       IN  IF c = NoPlan THEN held ELSE [held EXCEPT !.plan = c, !.absent = c.gone]

Open(step, ret, a, c, only, fence) ==
  job' = [Idle EXCEPT !.pc = step, !.ret = ret, !.authority = a, !.cand = c, !.only = only,
                      !.phase = IF step = "recover" THEN "recover" ELSE "main",
                      !.fenced = IF Unfinished(fence) THEN "yes" ELSE "no"]

\* mutant: the refresh timer does not look for an open route
MayApplyAnyway(a) == a = None \/ outer.open = "no" \/ outer.revocation = a

\* A play rolls an open ordinary route back before anything else, and accepts
\* once inside the one it opened; the owner of a revocation retries inside its
\* own route; the refresh timer and the rollback commands refuse an open one.
MayRecover(a) == outer.open = "no" \/ (a # None /\ outer.revocation = a)
MayApply(a) == MayRecover(a) \/ (a = None /\ outer.revocation = None /\ play = "yes")

\* apply() down to the record of the armed revocation
ApplyStart(c, a) ==
  LET e == Extended(c, a) IN
  /\ At("idle") /\ MayApply(a) /\ Valid
  /\ NoJournal => AcceptedHolds
  /\ ArmAllowed(a, e)
  /\ revocation' = Armed(a, e)
  /\ Open(IF Unfinished(Armed(a, e)) THEN "armed" ELSE "recover", "recovered", a, e, "no", Armed(a, e))
  /\ play' = "no"
  /\ UNCHANGED <<nodes, journals, accepted, backups, outer, service, adverse>>

\* the fence is durable before the old generation is stopped
ApplyStop ==
  /\ At("armed")
  /\ Halt
  /\ job' = [job EXCEPT !.pc = "recover", !.phase = "recover"]
  /\ UNCHANGED <<nodes, records, play, adverse>>

\* accept --recover and --bootstrap
RecoverStart(a) ==
  /\ At("idle") /\ MayRecover(a) /\ Valid /\ OwnerOf(a)
  /\ NoJournal => AcceptedHolds
  /\ Open("recover", "adopt", a, NoPlan, "no", revocation)
  /\ UNCHANGED <<nodes, records, play, service, adverse>>

\* mutant: an accepted revocation is compensated like any other receipt
MayCompensateRevoked(v) ==
  /\ ~ Unfinished(revocation)
  /\ v # NoIntent
  /\ pending = NoIntent /\ prep = NoIntent
  /\ IF compensating = NoIntent THEN CompensationHoldsFor(v, TRUE) ELSE v = compensating

\* compensate_latest() up to its durable intent
MayCompensate(v) ==
  /\ ~ Unfinished(revocation)
  /\ v # NoIntent /\ v.new # revocation.receipt
  /\ pending = NoIntent /\ prep = NoIntent
  /\ IF compensating = NoIntent THEN CompensationHoldsFor(v, TRUE) ELSE v = compensating

\* accept --compensate, an operator's command while no route is open
CompensateStart ==
  /\ At("idle") /\ outer.open = "no" /\ CompensationHolds
  /\ MayCompensate(IF compensating = NoIntent THEN last ELSE compensating)
  /\ Open("compensate", "done", None, NoPlan, "yes", revocation)
  /\ UNCHANGED <<nodes, records, play, service, adverse>>

\* outer begin: arm, then retain what is accepted.  Its only caller, begin.yml,
\* runs in a play that reconciled the host first (runtime-prepare.yml): no
\* journal is open.  The command itself does not check that.
OuterBegin(a) ==
  /\ At("idle") /\ outer.open = "no" /\ ArmAllowed(a, NoPlan)
  /\ NoJournal
  /\ revocation' = Armed(a, NoPlan)
  /\ Open("begin", "done", a, NoPlan, "no", Armed(a, NoPlan))
  /\ UNCHANGED <<nodes, journals, accepted, backups, outer, play, service, adverse>>

OuterRecord ==
  /\ At("begin")
  /\ IF AcceptedHolds
     THEN /\ outer' = [open |-> "yes", receipt |-> accepted, consumer |-> NoReceipt,
                       revocation |-> job.authority]
          /\ play' = "yes"
     ELSE UNCHANGED <<outer, play>>
  /\ Done
  /\ UNCHANGED <<nodes, journals, accepted, backups, revocation, service, adverse>>

\* last.json describes the step from the retained receipt to the accepted one
LastExplains == last # NoIntent /\ last.old = outer.receipt /\ last.new = accepted

OrdinaryRoute == outer.open = "yes" /\ outer.revocation = None /\ ~ Unfinished(revocation)

\* outer restore
OuterRestore ==
  /\ At("idle") /\ OrdinaryRoute /\ Valid
  /\ \/ ~ NoJournal /\ Open("recover", "done", None, NoPlan, "yes", revocation)
     \/ /\ NoJournal /\ accepted # outer.receipt /\ LastExplains
        /\ MayCompensate(last)
        /\ Open("compensate", "done", None, NoPlan, "yes", revocation)
  /\ play' = "no"
  /\ UNCHANGED <<nodes, records, service, adverse>>

\* outer recover
OuterRecover ==
  /\ At("idle") /\ OrdinaryRoute /\ Valid
  /\ Open("recover", "reopen", None, NoPlan, "no", revocation)
  /\ play' = "no"
  /\ UNCHANGED <<nodes, records, service, adverse>>

\* ... which restarts the retained generation once it is selected again
OuterRestart ==
  /\ At("reopen")
  /\ IF AcceptedHolds /\ accepted = outer.receipt
     THEN /\ IF accepted = NoReceipt THEN Halt ELSE Launch
          /\ Goto("reclose")
     ELSE Done /\ UNCHANGED service
  /\ UNCHANGED <<nodes, records, play, adverse>>

OuterClosed ==
  /\ At("reclose")
  /\ outer' = NoOuter /\ play' = "no"
  /\ Done
  /\ UNCHANGED <<nodes, journals, accepted, backups, revocation, service, adverse>>

\* outer finish
OuterFinish(a) ==
  /\ At("idle") /\ outer.open = "yes" /\ OwnerOf(a)
  /\ outer.revocation \in {None, a}
  /\ NoJournal /\ AcceptedHolds
  /\ accepted = outer.receipt \/ LastExplains
  /\ outer.consumer = accepted /\ accepted # NoReceipt
  /\ outer' = NoOuter /\ play' = "no"
  /\ UNCHANGED <<nodes, journals, accepted, backups, revocation, service, job, adverse>>

-----------------------------------------------------------------------------
(* recover() *)

\* mutant: the claim is retired before the links it owns
RecoverPreparationClaimFirst ==
  /\ At("recover") /\ prep # NoIntent
  /\ prep' = NoIntent
  /\ UNCHANGED <<nodes, pending, compensating, last, accepted, backups, revocation, outer, play,
                 service, job, adverse>>

\* recover_preparation: the fixed links stay when the intent is already
\* pending; the claim is retired last
RecoverPreparation ==
  /\ At("recover") /\ prep # NoIntent
  /\ \/ /\ pending = NoIntent
        /\ \E p \in prep.cover :
             \/ before[p] # Absent /\ before' = [before EXCEPT ![p] = Absent] /\ UNCHANGED after
             \/ after[p] # Absent /\ after' = [after EXCEPT ![p] = Absent] /\ UNCHANGED before
        /\ UNCHANGED prep
     \/ /\ pending # NoIntent \/ \A p \in prep.cover : before[p] = Absent /\ after[p] = Absent
        /\ prep' = NoIntent
        /\ UNCHANGED <<before, after>>
  /\ UNCHANGED <<live, rollback, undo, content, staged, pending, compensating, last, accepted,
                 backups, revocation, outer, play, service, job, adverse>>

RecoverNothing ==
  /\ At("recover") /\ NoJournal
  /\ IF Unfinished(revocation) THEN Halt ELSE UNCHANGED service
  /\ Return
  /\ UNCHANGED <<nodes, records, play, adverse>>

RecoverCompensation ==
  /\ At("recover") /\ prep = NoIntent /\ compensating # NoIntent
  /\ IF MayCompensate(compensating) THEN Goto("compensate") ELSE Done
  /\ UNCHANGED <<nodes, records, play, service, adverse>>

\* a committed intent is kept and confirmed, or handed back to its owner
RecoverCommitted ==
  /\ At("recover") /\ prep = NoIntent /\ compensating = NoIntent
  /\ pending # NoIntent /\ accepted = pending.new
  /\ IF job.only = "yes" THEN Goto("cleanup") /\ UNCHANGED service
     ELSE Ensure /\ Goto("ensure")
  /\ UNCHANGED <<nodes, records, play, adverse>>

\* ready() answered; a failing probe is Fault
RecoverReady ==
  /\ At("ensure")
  /\ Goto("accept")
  /\ UNCHANGED <<nodes, records, play, service, adverse>>

\* mutant: an uncommitted intent is undone under a fence as well
RecoverUncommittedUnfenced ==
  /\ At("recover") /\ prep = NoIntent /\ compensating = NoIntent
  /\ pending # NoIntent /\ accepted # pending.new
  /\ Halt
  /\ Goto("undo")
  /\ UNCHANGED <<nodes, records, play, adverse>>

\* an uncommitted intent is undone, or redone while stopped under a fence
RecoverUncommitted ==
  /\ At("recover") /\ prep = NoIntent /\ compensating = NoIntent
  /\ pending # NoIntent /\ accepted # pending.new
  /\ Halt
  /\ Goto(IF Unfinished(revocation) THEN "redo" ELSE "undo")
  /\ UNCHANGED <<nodes, records, play, adverse>>

Redo ==
  /\ At("redo")
  /\ \/ /\ \E p \in ToPublish(FALSE) : ReplaceAfter(p)
        /\ UNCHANGED job
     \/ /\ ToPublish(FALSE) = {}
        /\ Return
        /\ UNCHANGED <<live, after>>
  /\ UNCHANGED <<before, rollback, undo, content, staged, records, play, service, adverse>>

Undo ==
  /\ At("undo")
  /\ \/ /\ \E p \in ToRestore : ReplaceBefore(p)
        /\ UNCHANGED job
     \/ /\ ToRestore = {}
        /\ IF job.only = "yes" THEN Return ELSE Goto("restore")
        /\ UNCHANGED <<live, before>>
  /\ UNCHANGED <<after, rollback, undo, content, staged, records, play, service, adverse>>

\* restore(units) and ready()
Restore ==
  /\ At("restore")
  /\ IF pending.old = NoReceipt THEN Halt ELSE Launch
  /\ Goto("cleanup")
  /\ UNCHANGED <<nodes, records, play, adverse>>

-----------------------------------------------------------------------------
(* compensate_latest() *)

CompensateRecord ==
  /\ At("compensate")
  /\ compensating' = IF compensating = NoIntent THEN last ELSE compensating
  /\ Goto("quiet")
  /\ UNCHANGED <<nodes, prep, pending, last, accepted, backups, revocation, outer, play,
                 service, adverse>>

CompensateStop ==
  /\ At("quiet")
  /\ Halt
  /\ Goto("reverse")
  /\ UNCHANGED <<nodes, records, play, adverse>>

\* keep a link to the node being withdrawn, then move the retained node back
CompensateEntry(p) ==
  /\ At("reverse") /\ p \in compensating.cover /\ live[p] # compensating.was[p]
  /\ IF live[p] # Absent /\ undo[p] = Absent
     THEN undo' = [undo EXCEPT ![p] = live[p]] /\ UNCHANGED <<live, rollback>>
     ELSE /\ compensating.was[p] # Absent => rollback[p] = compensating.was[p]
          /\ live' = [live EXCEPT ![p] = compensating.was[p]]
          /\ rollback' = [rollback EXCEPT ![p] = IF compensating.was[p] = Absent THEN @ ELSE Absent]
          /\ UNCHANGED undo
  /\ UNCHANGED <<before, after, content, staged, records, play, service, job, adverse>>

\* the record of the emptied backups; a restore-only caller stops here
CompensateBackups ==
  /\ At("reverse") /\ \A p \in compensating.cover : live[p] = compensating.was[p]
  /\ backups' = CompensatedBackups(compensating)
  /\ IF job.only = "yes" THEN Done ELSE Goto("revive")
  /\ UNCHANGED <<nodes, journals, accepted, revocation, outer, play, service, adverse>>

CompensateRestart ==
  /\ At("revive")
  /\ IF compensating.old = NoReceipt THEN Halt ELSE Launch
  /\ Goto("retract")
  /\ UNCHANGED <<nodes, records, play, adverse>>

\* mutant: the whole intent is recorded instead of its before_receipt
CompensateAcceptIntent ==
  /\ At("retract")
  /\ accepted' = compensating
  /\ Goto("purge")
  /\ UNCHANGED <<nodes, journals, backups, revocation, outer, play, service, adverse>>

CompensateAccept ==
  /\ At("retract")
  /\ accepted' = compensating.old
  /\ Goto("purge")
  /\ UNCHANGED <<nodes, journals, backups, revocation, outer, play, service, adverse>>

\* unlink the undo links, then last.json, then the intent
CompensateFinish ==
  /\ At("purge")
  /\ \/ /\ \E p \in compensating.cover : undo[p] # Absent /\ undo' = [undo EXCEPT ![p] = Absent]
        /\ UNCHANGED <<last, compensating, job>>
     \/ /\ \A p \in compensating.cover : undo[p] = Absent
        /\ IF last # NoIntent
           THEN last' = NoIntent /\ UNCHANGED <<compensating, job>>
           ELSE compensating' = NoIntent /\ Return /\ UNCHANGED last
        /\ UNCHANGED undo
  /\ UNCHANGED <<live, before, after, rollback, content, staged, prep, pending, accepted, backups,
                 revocation, outer, play, service, adverse>>

-----------------------------------------------------------------------------
(* apply(), once the host is reconciled *)

\* the candidate's bytes are what is selected already
Same(c) ==
  \A p \in c.cover : IF p \in c.gone THEN live[p] = Absent
                     ELSE live[p] # Absent /\ content[live[p]] = c.bytes

Claimed(c) ==
  /\ accepted # NoReceipt
  /\ \A p \in c.cover : accepted.nodes[p] # Unclaimed \/ p \in c.gone \cap revocation.absent

Forward ==
  /\ At("recovered") /\ pending # NoIntent
  /\ IF Unfinished(revocation)
     THEN job' = [job EXCEPT !.pc = "stop", !.forward = "yes"]
     ELSE Done
  /\ UNCHANGED <<nodes, records, play, service, adverse>>

Ready == NoJournal /\ AcceptedHolds /\ BackupsHold

KeepSelection ==
  /\ At("recovered") /\ Ready /\ Same(job.cand) /\ Claimed(job.cand)
  /\ Ensure
  /\ Goto("keep")
  /\ UNCHANGED <<nodes, records, play, adverse>>

KeepReady ==
  /\ At("keep")
  /\ Goto("accept")
  /\ UNCHANGED <<nodes, records, play, service, adverse>>

\* the candidate, or the selection, fails inspection
Refuse ==
  /\ At("recovered") /\ pending = NoIntent
  /\ ~ (Ready /\ Same(job.cand) /\ Claimed(job.cand))
  /\ Done
  /\ UNCHANGED <<nodes, records, play, service, adverse>>

\* stage every entry and claim the stages durably
IntentFor(c, n) ==
  LET now == [p \in Paths |-> IF p \in c.cover \ c.gone THEN n ELSE Absent]
  IN  [cover |-> c.cover, now |-> now,
       was |-> [p \in Paths |-> IF p \in c.cover THEN live[p] ELSE Absent],
       old |-> accepted,
       new |-> [nodes |-> Overlay(accepted.nodes, c.cover, now), units |-> "planned"],
       backups |-> backups]

Stage ==
  /\ At("recovered") /\ Ready /\ staged < MaxStaged
  /\ ~ (Same(job.cand) /\ Claimed(job.cand))
  /\ staged' = staged + 1
  /\ content' = [content EXCEPT ![staged + 1] = IF job.cand.bytes = None THEN @ ELSE job.cand.bytes]
  /\ prep' = IntentFor(job.cand, staged + 1)
  /\ Goto("link")
  /\ UNCHANGED <<live, storage, pending, compensating, last, accepted, backups, revocation, outer,
                 play, service, adverse>>

\* link the selected and the staged node of each entry under fixed names
LinkNode ==
  /\ At("link")
  /\ \E p \in prep.cover :
       \/ /\ prep.was[p] # Absent /\ before[p] = Absent
          /\ before' = [before EXCEPT ![p] = prep.was[p]]
          /\ UNCHANGED after
       \/ /\ prep.now[p] # Absent /\ after[p] = Absent
          /\ before[p] = prep.was[p]
          /\ after' = [after EXCEPT ![p] = prep.now[p]]
          /\ UNCHANGED before
  /\ UNCHANGED <<live, rollback, undo, content, staged, records, play, service, job, adverse>>

RecordPending ==
  /\ At("link") /\ \A p \in prep.cover : before[p] = prep.was[p] /\ after[p] = prep.now[p]
  /\ pending' = prep
  /\ Goto("claimed")
  /\ UNCHANGED <<nodes, prep, compensating, last, accepted, backups, revocation, outer, play,
                 service, adverse>>

FinishPreparation ==
  /\ At("claimed")
  /\ prep' = NoIntent
  /\ Goto("stop")
  /\ UNCHANGED <<nodes, pending, compensating, last, accepted, backups, revocation, outer, play,
                 service, adverse>>

\* apply() and forward() from the intent on
StopOld ==
  /\ At("stop")
  /\ Halt
  /\ Goto("publish")
  /\ UNCHANGED <<nodes, records, play, adverse>>

\* the selection; deferred entries wait for readiness
Publish(step, deferred, next) ==
  /\ At(step)
  /\ \/ /\ \E p \in ToPublish(deferred) : ReplaceAfter(p)
        /\ UNCHANGED job
     \/ /\ ToPublish(deferred) = {}
        /\ Goto(next)
        /\ UNCHANGED <<live, after>>
  /\ UNCHANGED <<before, rollback, undo, content, staged, records, play, service, adverse>>

PublishSelected == Publish("publish", FALSE, "start")

StartNew ==
  /\ At("start")
  /\ Launch
  /\ Goto("ready")
  /\ UNCHANGED <<nodes, records, play, adverse>>

ReadyNew ==
  /\ At("ready")
  /\ Goto("defer")
  /\ UNCHANGED <<nodes, records, play, service, adverse>>

PublishDeferred == Publish("defer", TRUE, "seal")

\* the observed units enter the intent before they enter the receipt
Seal ==
  /\ At("seal")
  /\ pending' = [pending EXCEPT !.new.units = "observed"]
  /\ Goto("commit")
  /\ UNCHANGED <<nodes, prep, compensating, last, accepted, backups, revocation, outer, play,
                 service, adverse>>

Commit ==
  /\ At("commit")
  /\ accepted' = pending.new
  /\ Goto("accept")
  /\ UNCHANGED <<nodes, journals, backups, revocation, outer, play, service, adverse>>

\* accept_revocation
AcceptRevocation ==
  /\ At("accept")
  /\ IF Unfinished(revocation)
     THEN IF revocation.plan = NoPlan
          THEN Done /\ UNCHANGED revocation
          ELSE /\ revocation' = [revocation EXCEPT !.receipt = accepted]
               /\ Goto(IF job.phase = "recover" THEN "cleanup" ELSE "confirm")
     ELSE /\ Goto(IF job.phase = "recover" THEN "cleanup" ELSE "confirm")
          /\ UNCHANGED revocation
  /\ UNCHANGED <<nodes, journals, accepted, backups, outer, play, service, adverse>>

\* confirm_outer
ConfirmOuter ==
  /\ At("confirm")
  /\ IF outer.open = "yes" THEN outer' = [outer EXCEPT !.consumer = accepted] ELSE UNCHANGED outer
  /\ IF pending = NoIntent THEN Done ELSE Goto("cleanup")
  /\ UNCHANGED <<nodes, journals, accepted, backups, revocation, play, service, adverse>>

-----------------------------------------------------------------------------
(* cleanup(): a committed intent leaves its previous nodes as the one         *)
(* retained rollback, then every fixed link goes                              *)

Committed == accepted = pending.new

CleanupEntry(p) ==
  /\ At("cleanup") /\ p \in pending.cover
  /\ \/ /\ Committed /\ rollback[p] \notin {Absent, pending.was[p]}
        /\ rollback' = [rollback EXCEPT ![p] = Absent]
        /\ UNCHANGED <<before, after>>
     \/ /\ Committed /\ rollback[p] = Absent /\ pending.was[p] # Absent
        /\ before[p] = pending.was[p]
        /\ rollback' = [rollback EXCEPT ![p] = pending.was[p]]
        /\ before' = [before EXCEPT ![p] = Absent]
        /\ UNCHANGED after
     \/ /\ Committed => rollback[p] = pending.was[p]
        /\ before[p] # Absent /\ before' = [before EXCEPT ![p] = Absent]
        /\ UNCHANGED <<rollback, after>>
     \/ /\ Committed => rollback[p] = pending.was[p]
        /\ after[p] # Absent /\ after' = [after EXCEPT ![p] = Absent]
        /\ UNCHANGED <<rollback, before>>
  /\ UNCHANGED <<live, undo, content, staged, records, play, service, job, adverse>>

Cleaned(p) ==
  before[p] = Absent /\ after[p] = Absent /\ (Committed => rollback[p] = pending.was[p])

CleanupRecord ==
  /\ At("cleanup") /\ \A p \in pending.cover : Cleaned(p)
  /\ backups' = IF Committed THEN AfterBackups(pending) ELSE backups
  /\ Goto(IF Committed THEN "last" ELSE "retire")
  /\ UNCHANGED <<nodes, journals, accepted, revocation, outer, play, service, adverse>>

\* last.json may only be followed by the step that continues it
CleanupLast ==
  /\ At("last")
  /\ IF last \in {NoIntent, pending} \/ last.new = pending.old
     THEN last' = pending /\ Goto("retire")
     ELSE Done /\ UNCHANGED last
  /\ UNCHANGED <<nodes, prep, pending, compensating, accepted, backups, revocation, outer, play,
                 service, adverse>>

CleanupPending ==
  /\ At("retire")
  /\ pending' = NoIntent
  /\ IF job.phase = "main" THEN Done
     ELSE IF job.only = "no" THEN Return
     ELSE IF last # NoIntent /\ last.new # revocation.receipt THEN Goto("compensate") ELSE Done
  /\ UNCHANGED <<nodes, prep, compensating, last, accepted, backups, revocation, outer, play,
                 service, adverse>>

-----------------------------------------------------------------------------
(* The end of accept --recover and --bootstrap: a running legacy service      *)
(* whose files were never accepted becomes the first receipt                  *)

Adopt ==
  /\ At("adopt")
  /\ IF /\ accepted = NoReceipt /\ NoJournal /\ ~ Unfinished(revocation)
        /\ running # Stopped /\ running = live
     THEN accepted' = [nodes |-> [p \in Paths |-> IF live[p] = Absent THEN Unclaimed ELSE live[p]],
                       units |-> "observed"]
     ELSE UNCHANGED accepted
  /\ Done
  /\ UNCHANGED <<nodes, journals, backups, revocation, outer, play, service, adverse>>

-----------------------------------------------------------------------------
(* Failures.  An exception inside the guarded part of apply() recovers, or    *)
(* only stops when a fence is unfinished; elsewhere the operation just ends.  *)

Guarded == {"stop", "publish", "start", "ready", "defer", "seal", "commit", "accept"}

Fault ==
  /\ ~ At("idle") /\ ~ At("abort") /\ adverse < MaxAdverse
  /\ adverse' = adverse + 1
  /\ CASE job.phase = "main" /\ job.forward = "yes" -> Goto("abort")
       [] job.phase = "main" /\ job.forward = "no" /\ job.pc \in Guarded /\ pending # NoIntent ->
            IF job.fenced = "yes" THEN Goto("abort")
            ELSE job' = [job EXCEPT !.pc = "recover", !.phase = "recover", !.ret = "done"]
       [] At("ensure") /\ revocation.authority # None -> Goto("abort")
       [] OTHER -> Done
  /\ UNCHANGED <<nodes, records, play, service>>

Abort ==
  /\ At("abort")
  /\ Halt
  /\ Done
  /\ UNCHANGED <<nodes, records, play, adverse>>

\* the publisher is killed: the lock goes, the services stay
Crash ==
  /\ ~ At("idle") /\ adverse < MaxAdverse
  /\ adverse' = adverse + 1
  /\ Done
  /\ UNCHANGED <<nodes, records, play, service>>

\* the enabled controller comes back, its frontends wait for admission
Reboot ==
  /\ adverse < MaxAdverse
  /\ adverse' = adverse + 1
  /\ job' = Idle
  /\ running' = Stopped
  /\ UNCHANGED <<nodes, records, play, unit>>

-----------------------------------------------------------------------------
(* generation.py, run(): admission before each start and every second after   *)

ControllerStart ==
  /\ unit = "on" /\ running = Stopped /\ Admitted /\ Frontends(live)
  /\ running' = live
  /\ UNCHANGED <<nodes, records, play, unit, job, adverse>>

ControllerFence ==
  /\ unit = "on" /\ running # Stopped /\ ~ Admitted
  /\ running' = Stopped
  /\ UNCHANGED <<nodes, records, play, unit, job, adverse>>

-----------------------------------------------------------------------------
JobStep ==
  \/ ApplyStop \/ OuterRecord \/ OuterRestart \/ OuterClosed
  \/ RecoverPreparation \/ RecoverNothing \/ RecoverCompensation \/ RecoverCommitted
  \/ RecoverReady \/ RecoverUncommitted \/ Redo \/ Undo \/ Restore
  \/ CompensateRecord \/ CompensateStop \/ (\E p \in Paths : CompensateEntry(p))
  \/ CompensateBackups \/ CompensateRestart \/ CompensateAccept \/ CompensateFinish
  \/ Forward \/ KeepSelection \/ KeepReady \/ Refuse \/ Stage \/ LinkNode \/ RecordPending
  \/ FinishPreparation \/ StopOld \/ PublishSelected \/ StartNew \/ ReadyNew \/ PublishDeferred
  \/ Seal \/ Commit \/ AcceptRevocation \/ ConfirmOuter
  \/ (\E p \in Paths : CleanupEntry(p)) \/ CleanupRecord \/ CleanupLast \/ CleanupPending
  \/ Adopt \/ Abort

Call ==
  \/ \E c \in Candidate, a \in Authority : ApplyStart(c, a)
  \/ \E a \in Authority : RecoverStart(a) \/ OuterBegin(a) \/ OuterFinish(a)
  \/ CompensateStart \/ OuterRestore \/ OuterRecover

Environment == Fault \/ Crash \/ Reboot \/ ControllerStart \/ ControllerFence

Next == JobStep \/ Call \/ Environment

Spec == Init /\ [][Next]_vars

-----------------------------------------------------------------------------
(* Properties *)

\* Every link, journal and record of the storage directory has the shape the
\* code writes: no step of an operation, however interrupted, leaves another.
TypeOK ==
  /\ live \in Links /\ before \in Links /\ after \in Links /\ rollback \in Links /\ undo \in Links
  /\ content \in [1 .. MaxStaged -> Bytes] /\ staged \in Node
  /\ prep \in Intent /\ pending \in Intent /\ compensating \in Intent /\ last \in Intent
  /\ accepted \in Receipt /\ backups \in Claims
  /\ revocation \in Revocation /\ outer \in Outer /\ play \in {"no", "yes"}
  /\ unit \in {"on", "off"} /\ running \in Claims
  /\ job \in Job /\ adverse \in 0 .. MaxAdverse

\* Whatever step an operation died after, the strict inspection the next one
\* opens with accepts what it finds: no journal is ever refused as foreign,
\* changed or absent, with no journal left the fixed names are free again, and
\* an open route knows how it got from the receipt it retains to the one
\* accepted now, so that its owner can finish it or restore it.
NeverWedged ==
  At("idle") =>
    /\ Valid
    /\ NoJournal => /\ NothingLeft /\ AcceptedHolds /\ BackupsHold
                    /\ outer.open = "yes" => accepted = outer.receipt \/ LastExplains

\* The nodes of a started generation are those the revocation's plan names.
CarriesPlan(nodes_) ==
  \A p \in revocation.plan.cover \ Deferred :
    IF p \in revocation.plan.gone THEN nodes_[p] = Absent
    ELSE nodes_[p] # Absent /\ content[nodes_[p]] = revocation.plan.bytes

\* Started without a publisher, the controller runs the accepted generation and
\* nothing a dead publisher left half selected. And once a publisher has stopped
\* the old generation under an unfinished revocation, neither of them starts
\* anything but the revocation's own candidate until it is accepted.
OnlyAcceptedStarts ==
  [][ /\ At("idle") /\ running' # running /\ running' # Stopped /\ accepted # NoReceipt =>
           \A p \in Paths : accepted.nodes[p] # Unclaimed => running'[p] = accepted.nodes[p]
      /\ Unfinished(revocation) /\ unit = "off" /\ running' # Stopped =>
           revocation.plan # NoPlan /\ CarriesPlan(running') ]_vars

\* After a revocation is accepted no recovery, compensation or outer rollback
\* brings back, on a path its receipt claims, a node older than the receipt.
RevocationStands ==
  LET claimed == revocation.receipt.nodes
  IN  \A p, q \in Paths :
        claimed[p] # Unclaimed => live[p] \in {Absent, claimed[p]} \/ live[p] > claimed[q]

=============================================================================
