-------------------------- MODULE ReleaseActivation --------------------------
(***************************************************************************)
(* Binary releases behind symbolic links (runtime_release_activate.py and  *)
(* the role that calls it).  A controller looks at the release directory,  *)
(* stages a pinned artifact in a transaction directory of its own if it    *)
(* has to, and calls activate: under the lock of the install root that     *)
(* publishes candidate and receipt, moves current, public and previous,    *)
(* checks them, and puts the old links back when a step raises.  Several   *)
(* controllers work on one host; any of them may be killed at any step.    *)
(***************************************************************************)
EXTENDS Naturals, FiniteSets, TLAPS

CONSTANTS Controllers, Versions, Pins,
          None,       \* no release, no file
          MaxAdverse  \* bound on kills and failing system calls

\* Version 1 is the one that may be there before receipts existed.
ReleaseAssumption ==
    /\ None \notin Controllers \cup Versions \cup Pins
    /\ 1 \in Versions
    /\ MaxAdverse \in Nat

Pcs == {"idle", "stage", "download", "ready", "locked", "publish", "receipt", "current", "public",
        "previous", "check", "undoCurrent", "undoPublic", "undoPrevious", "undone", "clean"}
Outcomes == {"none", "committed", "staged", "unsafe", "failed", "incomplete"}
Links == [current : Versions \cup {None}, public : {"absent", "set"}, previous : Versions \cup {None}]
NoLinks == [current |-> None, public |-> "absent", previous |-> None]
Release == [candidate : Pins \cup {None}, receipt : Pins \cup {None}]
Job == [at : Pcs, version : Versions \cup {None}, pin : Pins \cup {None}, select : BOOLEAN, before : Links,
        outcome : Outcomes]
Idle == [at |-> "idle", version |-> None, pin |-> None, select |-> TRUE, before |-> NoLinks,
         outcome |-> "none"]

VARIABLES
    links,     \* current, public and previous
    release,   \* the release directory of each version
    staging,   \* transactions of each controller: none, made, or with the artifact
    job,       \* what each controller is doing
    lock,      \* the holder of the install root, or None
    adverse

vars == <<links, release, staging, job, lock, adverse>>

Init ==
    \* nothing yet, or a release that was installed before receipts existed
    /\ release \in {r \in [Versions -> Release] :
                      \A v \in Versions : r[v].receipt = None /\ (v # 1 => r[v].candidate = None)}
    /\ links = [NoLinks EXCEPT !.current = IF release[1].candidate = None THEN None ELSE 1,
                               !.public = IF release[1].candidate = None THEN "absent" ELSE "set"]
    /\ staging = [c \in Controllers |-> "none"]
    /\ job = [c \in Controllers |-> Idle]
    /\ lock = None /\ adverse = 0

At(c, pc) == job[c].at = pc
Goto(c, pc) == job' = [job EXCEPT ![c].at = pc]
Adverse == adverse < MaxAdverse /\ adverse' = adverse + 1

-----------------------------------------------------------------------------
(* The role                                                                *)

\* The receipt that exists has to be the one of the pin.
Start(c, v, pin, select) ==
    /\ At(c, "idle")
    /\ release[v].receipt # None => release[v].receipt = pin /\ release[v].candidate = pin
    /\ job' = [job EXCEPT ![c] = [Idle EXCEPT !.version = v, !.pin = pin, !.select = select,
                  !.at = IF None \in {release[v].candidate, release[v].receipt}
                         THEN "stage" ELSE "ready"]]
    /\ UNCHANGED <<links, release, staging, lock, adverse>>

Prepare(c) ==
    /\ At(c, "stage")
    /\ staging' = [staging EXCEPT ![c] = "made"]
    /\ Goto(c, "download")
    /\ UNCHANGED <<links, release, lock, adverse>>

Download(c) ==
    /\ At(c, "download")
    /\ staging' = [staging EXCEPT ![c] = "artifact"]
    /\ Goto(c, "ready")
    /\ UNCHANGED <<links, release, lock, adverse>>

DownloadFails(c) ==
    /\ At(c, "download") /\ Adverse
    /\ job' = [job EXCEPT ![c].at = "clean", ![c].outcome = "failed"]
    /\ UNCHANGED <<links, release, staging, lock>>

\* flock waits; the links are read under the lock.
Lock(c) ==
    /\ At(c, "ready") /\ lock = None
    /\ lock' = c
    /\ job' = [job EXCEPT ![c].at = "locked", ![c].before = links]
    /\ UNCHANGED <<links, release, staging, adverse>>

\* activate returns or raises; always: cleanup_staging follows
Leave(c, outcome) ==
    /\ lock' = None
    /\ job' = [job EXCEPT ![c].at = "clean", ![c].outcome = outcome]

-----------------------------------------------------------------------------
(* Publication of candidate and receipt                                    *)

Rel(c) == release[job[c].version]

Inspect(c) ==
    /\ At(c, "locked")
    /\ \/ Rel(c).candidate = job[c].pin /\ Goto(c, "receipt") /\ UNCHANGED lock
       \/ /\ Rel(c).candidate = None /\ Rel(c).receipt = None /\ staging[c] = "artifact"
          /\ Goto(c, "publish") /\ UNCHANGED lock
       \/ /\ \/ Rel(c).candidate \notin {None, job[c].pin}
             \/ Rel(c).candidate = None /\ (Rel(c).receipt # None \/ staging[c] # "artifact")
          /\ Leave(c, "unsafe")
    /\ UNCHANGED <<links, release, staging, adverse>>

\* The candidate is copied from the open descriptor and renamed.
Publish(c) ==
    /\ At(c, "publish")
    /\ release' = [release EXCEPT ![job[c].version].candidate = job[c].pin]
    /\ Goto(c, "receipt")
    /\ UNCHANGED <<links, staging, lock, adverse>>

Receipt(c) ==
    /\ At(c, "receipt")
    /\ IF Rel(c).receipt \in {None, job[c].pin}
       THEN /\ release' = [release EXCEPT ![job[c].version].receipt = job[c].pin]
            /\ IF job[c].select THEN Goto(c, "current") /\ UNCHANGED lock ELSE Leave(c, "staged")
       ELSE Leave(c, "unsafe") /\ UNCHANGED release
    /\ UNCHANGED <<links, staging, adverse>>

-----------------------------------------------------------------------------
(* The links                                                               *)

\* Mutation: a release that is selected already is kept.
DesiredKeeps(c) ==
    LET b == job[c].before
    IN  [current |-> IF b.current = None THEN job[c].version ELSE b.current, public |-> "set",
         previous |-> b.previous]

Desired(c) ==
    LET b == job[c].before
    IN  [current |-> job[c].version, public |-> "set",
         previous |-> IF b.current \notin {None, job[c].version} THEN b.current ELSE b.previous]

\* the step after each link, on the way forward and on the way back
After == [current |-> "public", public |-> "previous", previous |-> "check",
          undoCurrent |-> "undoPublic", undoPublic |-> "undoPrevious", undoPrevious |-> "undone"]
LinkOf == [current |-> "current", public |-> "public", previous |-> "previous",
           undoCurrent |-> "current", undoPublic |-> "public", undoPrevious |-> "previous"]

SetLink(c, pc) ==
    /\ At(c, pc)
    /\ LET l == LinkOf[pc]
       IN  links' = [links EXCEPT ![l] = IF pc = l THEN Desired(c)[l] ELSE job[c].before[l]]
    /\ Goto(c, After[pc])
    /\ UNCHANGED <<release, staging, lock, adverse>>

Check(c) ==
    /\ At(c, "check")
    /\ IF links = Desired(c) THEN Leave(c, "committed") ELSE Goto(c, "undoCurrent") /\ UNCHANGED lock
    /\ UNCHANGED <<links, release, staging, adverse>>

\* A system call fails before or after its effect on the way forward.
Fails(c) ==
    /\ job[c].at \in {"current", "public", "previous", "check"} /\ Adverse
    /\ Goto(c, "undoCurrent")
    /\ UNCHANGED <<links, release, staging, lock>>

UndoFails(c) ==
    /\ job[c].at \in {"undoCurrent", "undoPublic", "undoPrevious", "undone"} /\ Adverse
    /\ Leave(c, "incomplete")
    /\ UNCHANGED <<links, release, staging>>

Undone(c) ==
    /\ At(c, "undone")
    /\ Leave(c, IF links = job[c].before THEN "failed" ELSE "incomplete")
    /\ UNCHANGED <<links, release, staging, adverse>>

Clean(c) ==
    /\ At(c, "clean")
    /\ staging' = [staging EXCEPT ![c] = "none"]
    /\ job' = [job EXCEPT ![c] = Idle]
    /\ UNCHANGED <<links, release, lock, adverse>>

\* A killed controller cleans nothing, but its transaction directory has a name
\* of its own and is in nobody's way; its lock is free.
Dies(c) ==
    /\ ~At(c, "idle") /\ Adverse
    /\ job' = [job EXCEPT ![c] = Idle]
    /\ staging' = [staging EXCEPT ![c] = "none"]
    /\ lock' = IF lock = c THEN None ELSE lock
    /\ UNCHANGED <<links, release>>

Step(c) ==
    \/ Prepare(c) \/ Download(c) \/ Lock(c) \/ Inspect(c) \/ Publish(c) \/ Receipt(c)
    \/ (\E pc \in DOMAIN After : SetLink(c, pc)) \/ Check(c) \/ Undone(c) \/ Clean(c)

Next == \E c \in Controllers :
    \/ \E v \in Versions, pin \in Pins, s \in BOOLEAN : Start(c, v, pin, s)
    \/ Step(c) \/ DownloadFails(c) \/ Fails(c) \/ UndoFails(c) \/ Dies(c)

Spec == Init /\ [][Next]_vars

-----------------------------------------------------------------------------
(* Properties                                                              *)

\* Links, releases and controllers have the shape the code writes.
TypeOK ==
    /\ links \in Links
    /\ release \in [Versions -> Release]
    /\ staging \in [Controllers -> {"none", "made", "artifact"}]
    /\ job \in [Controllers -> Job]
    /\ lock \in Controllers \cup {None}
    /\ adverse \in 0 .. MaxAdverse

\* Whatever fails or dies, current and previous name releases with a candidate
\* in place, and a receipt describes exactly that candidate.
SelectedComplete ==
    /\ \A v \in {links.current, links.previous} \ {None} : release[v].candidate # None
    /\ \A v \in Versions : release[v].receipt \in {None, release[v].candidate}

\* Two pins of one version never bless each other's bytes: who commits finds its
\* own pin selected, and what a receipt describes is never replaced.
CommitsOwnPin ==
    /\ \A c \in Controllers :
         job'[c].outcome = "committed" /\ job[c].outcome # "committed" =>
             /\ links.current = job[c].version
             /\ release[job[c].version] = [candidate |-> job[c].pin, receipt |-> job[c].pin]
    /\ \A v \in Versions : release[v].receipt # None => release'[v] = release[v]

\* A failed activation whose own restoring calls work puts back exactly the
\* links it found, also with other controllers waiting.
CompensationExact ==
    \A c \in Controllers : At(c, "undone") => links = job[c].before

-----------------------------------------------------------------------------
(* The inductive invariant                                                 *)

\* The places of activate under the lock of the install root.
Held == {"locked", "publish", "receipt", "current", "public", "previous", "check", "undoCurrent",
         "undoPublic", "undoPrevious", "undone"}

\* The lock tells who is inside activate, one at a time.
LockInv == \A c \in Controllers : job[c].at \in Held <=> lock = c

\* A controller has a version and a pin from the start; at each place under the
\* lock it knows what is published and which links it has moved.
Knows(c) ==
    /\ job[c].at # "idle" => job[c].version \in Versions /\ job[c].pin \in Pins
    /\ job[c].at = "publish" => Rel(c).candidate = None /\ Rel(c).receipt = None
    /\ job[c].at = "receipt" => Rel(c).candidate = job[c].pin
    /\ job[c].at \in {"current", "public", "previous", "check"} =>
           Rel(c).candidate = job[c].pin /\ Rel(c).receipt = job[c].pin
    /\ job[c].at \in {"locked", "publish", "receipt", "current", "undone"} => links = job[c].before
    /\ job[c].at \in {"public", "previous", "check"} => links.current = Desired(c).current
    /\ job[c].at \in {"previous", "check"} => links.public = Desired(c).public
    /\ job[c].at = "check" => links.previous = Desired(c).previous
    /\ job[c].at \in {"undoPublic", "undoPrevious"} => links.current = job[c].before.current
    /\ job[c].at = "undoPrevious" => links.public = job[c].before.public

Complete(l) == \A v \in {l.current, l.previous} \ {None} : release[v].candidate # None

\* What a controller would put back is complete too.
BeforeInv == \A c \in Controllers : job[c].at \in Held => Complete(job[c].before)

ReceiptInv == \A v \in Versions : release[v].receipt \in {None, release[v].candidate}

KnowsInv == \A c \in Controllers : Knows(c)

IInv == TypeOK /\ LockInv /\ KnowsInv /\ BeforeInv /\ Complete(links) /\ ReceiptInv

\* A job keeps its shape, and so do the links.
LEMMA JobShape ==
    ASSUME TypeOK, NEW c \in Controllers
    PROVE  /\ job[c] \in Job /\ job[c].at \in Pcs /\ job[c].before \in Links
           /\ links \in Links
BY DEF TypeOK, Job

\* Who does not hold the lock changes nothing the holder relies on.
LEMMA Others ==
    ASSUME IInv, NEW c \in Controllers, \A d \in Controllers \ {c} : job'[d] = job[d],
           UNCHANGED <<links, release>> \/ lock = c
    PROVE  \A d \in Controllers \ {c} :
             Knows(d)' /\ (job'[d].at \in Held => Complete(job[d].before)')
<1> SUFFICES ASSUME NEW d \in Controllers \ {c}
             PROVE  Knows(d)' /\ (job'[d].at \in Held => Complete(job[d].before)')
  OBVIOUS
<1>1. job'[d] = job[d] /\ Knows(d) /\ (job[d].at \in Held => Complete(job[d].before))
  BY DEF IInv, KnowsInv, BeforeInv
<1>2. CASE UNCHANGED <<links, release>>
  BY <1>1, <1>2 DEF Knows, Complete, Rel, Desired
<1>3. CASE lock = c
  <2>1. job[d].at \notin Held
    BY <1>3 DEF IInv, LockInv
  <2>2. QED
    BY <1>1, <2>1 DEF Knows, Held
<1>4. QED
  BY <1>2, <1>3

\* The lock is taken, kept and given back by the one that works.
LEMMA LockKept ==
    ASSUME IInv, ReleaseAssumption, NEW c \in Controllers,
           \A d \in Controllers \ {c} : job'[d] = job[d],
           \/ lock' = lock /\ (job'[c].at \in Held <=> job[c].at \in Held)
           \/ lock = None /\ lock' = c /\ job'[c].at \in Held
           \/ lock = c /\ lock' = None /\ job'[c].at \notin Held
    PROVE  LockInv'
BY DEF IInv, LockInv, ReleaseAssumption

\* The parts of the invariant, from what the one that works changes.
LEMMA Together ==
    ASSUME IInv, NEW c \in Controllers, \A d \in Controllers \ {c} : job'[d] = job[d],
           UNCHANGED <<links, release>> \/ lock = c,
           TypeOK', LockInv', Knows(c)', job'[c].at \in Held => Complete(job[c].before)',
           Complete(links)', ReceiptInv'
    PROVE  IInv'
<1>1. KnowsInv' /\ BeforeInv'
  BY Others DEF KnowsInv, BeforeInv
<1>2. QED
  BY <1>1 DEF IInv

\* A job that goes on, and one whose activate returns.
LEMMA GotoJob ==
    ASSUME TypeOK, NEW c \in Controllers, NEW pc \in Pcs, Goto(c, pc)
    PROVE  /\ job' \in [Controllers -> Job] /\ \A d \in Controllers \ {c} : job'[d] = job[d]
           /\ job'[c].version = job[c].version /\ job'[c].pin = job[c].pin
           /\ job'[c].before = job[c].before /\ job'[c].outcome = job[c].outcome
           /\ job'[c].at = pc
BY DEF TypeOK, Goto, Job

LEMMA LeaveJob ==
    ASSUME TypeOK, NEW c \in Controllers, NEW outcome \in Outcomes, Leave(c, outcome)
    PROVE  /\ job' \in [Controllers -> Job] /\ \A d \in Controllers \ {c} : job'[d] = job[d]
           /\ job'[c].version = job[c].version /\ job'[c].pin = job[c].pin
           /\ job'[c].before = job[c].before /\ job'[c].outcome = outcome
           /\ job'[c].at = "clean" /\ lock' = None
BY DEF TypeOK, Leave, Job, Pcs

\* Start only reads.
LEMMA StartStep ==
    ASSUME ReleaseAssumption, IInv, NEW c \in Controllers, NEW v \in Versions, NEW pin \in Pins, NEW s \in BOOLEAN,
           Start(c, v, pin, s) PROVE IInv'
<1>1. TypeOK /\ job[c] \in Job /\ links \in Links /\ Knows(c)
  BY JobShape DEF IInv, KnowsInv
<1>2. /\ \A d \in Controllers \ {c} : job'[d] = job[d]
      /\ job'[c].version = v /\ job'[c].pin = pin /\ job'[c].at \in {"stage", "ready"}
  BY <1>1 DEF TypeOK, Start, Idle, NoLinks, At
<1>3. TypeOK'
  <2>1. job'[c] \in Job
    BY <1>1 DEF Start, Idle, NoLinks, Links, Job, Pcs, Outcomes, TypeOK
  <2>2. QED
    BY <1>1, <1>2, <2>1 DEF TypeOK, Start
<1>4. (UNCHANGED <<links, release>> \/ lock = c) /\ LockInv'
  <2>1. UNCHANGED <<links, release, lock>> /\ job[c].at = "idle"
    BY <1>1, <1>2 DEF IInv, LockInv, Held, Start, Idle, NoLinks, At
  <2>2. QED
    BY <1>2, <2>1, LockKept DEF Held, Start, Idle, NoLinks, At
<1>5. Knows(c)'
  BY <1>1, <1>2 DEF Knows, Rel, Desired, Start, Idle, NoLinks, At
<1>6. job'[c].at \in Held => Complete(job[c].before)'
  BY <1>1, <1>2 DEF IInv, BeforeInv, Complete, Held, Start, Idle, NoLinks, At
<1>7. Complete(links)'
  BY <1>1 DEF IInv, Complete, Start, Idle, NoLinks, At
<1>8. ReceiptInv'
  BY <1>1 DEF IInv, ReceiptInv, Start, Idle, NoLinks, At
<1>9. QED
  BY <1>2, <1>3, <1>4, <1>5, <1>6, <1>7, <1>8, Together

\* The transaction directory is made.
LEMMA PrepareStep ==
    ASSUME ReleaseAssumption, IInv, NEW c \in Controllers, Prepare(c) PROVE IInv'
<1>1. TypeOK /\ Knows(c) /\ job[c] \in Job
  BY JobShape DEF IInv, KnowsInv
<1>2. /\ job' \in [Controllers -> Job] /\ \A d \in Controllers \ {c} : job'[d] = job[d]
      /\ job'[c].version = job[c].version /\ job'[c].pin = job[c].pin
      /\ job'[c].before = job[c].before
      /\ job'[c].at = "download"
  BY <1>1, GotoJob DEF Prepare, Pcs
<1>3. TypeOK'
  BY <1>1, <1>2 DEF TypeOK, Prepare
<1>4. UNCHANGED <<links, release>> /\ LockInv'
  <2>1. UNCHANGED <<links, release>> /\ job[c].at \in {"stage"}
    BY DEF Prepare, At
  <2>2. job[c].at \in Held <=> lock = c
    BY DEF IInv, LockInv
  <2>3. QED
    BY <1>2, <2>1, <2>2, LockKept DEF Held, Prepare
<1>5. Knows(c)'
  BY <1>1, <1>2, <1>4 DEF Knows, Rel, Desired, At, Prepare
<1>6. job'[c].at \in Held => Complete(job[c].before)'
  BY <1>1, <1>2, <1>4 DEF IInv, BeforeInv, Complete, Held, At, Prepare
<1>7. Complete(links)' /\ ReceiptInv'
  BY <1>4 DEF IInv, Complete, ReceiptInv
<1>8. QED
  BY <1>2, <1>3, <1>4, <1>5, <1>6, <1>7, Together

\* The artifact is there.
LEMMA DownloadStep ==
    ASSUME ReleaseAssumption, IInv, NEW c \in Controllers, Download(c) PROVE IInv'
<1>1. TypeOK /\ Knows(c) /\ job[c] \in Job
  BY JobShape DEF IInv, KnowsInv
<1>2. /\ job' \in [Controllers -> Job] /\ \A d \in Controllers \ {c} : job'[d] = job[d]
      /\ job'[c].version = job[c].version /\ job'[c].pin = job[c].pin
      /\ job'[c].before = job[c].before
      /\ job'[c].at = "ready"
  BY <1>1, GotoJob DEF Download, Pcs
<1>3. TypeOK'
  BY <1>1, <1>2 DEF TypeOK, Download
<1>4. UNCHANGED <<links, release>> /\ LockInv'
  <2>1. UNCHANGED <<links, release>> /\ job[c].at \in {"download"}
    BY DEF Download, At
  <2>2. job[c].at \in Held <=> lock = c
    BY DEF IInv, LockInv
  <2>3. QED
    BY <1>2, <2>1, <2>2, LockKept DEF Held, Download
<1>5. Knows(c)'
  BY <1>1, <1>2, <1>4 DEF Knows, Rel, Desired, At, Download
<1>6. job'[c].at \in Held => Complete(job[c].before)'
  BY <1>1, <1>2, <1>4 DEF IInv, BeforeInv, Complete, Held, At, Download
<1>7. Complete(links)' /\ ReceiptInv'
  BY <1>4 DEF IInv, Complete, ReceiptInv
<1>8. QED
  BY <1>2, <1>3, <1>4, <1>5, <1>6, <1>7, Together

\* A download fails before anything is published.
LEMMA DownloadFailsStep ==
    ASSUME ReleaseAssumption, IInv, NEW c \in Controllers, DownloadFails(c) PROVE IInv'
<1>1. TypeOK /\ Knows(c) /\ job[c] \in Job
  BY JobShape DEF IInv, KnowsInv
<1>2. /\ job' \in [Controllers -> Job] /\ \A d \in Controllers \ {c} : job'[d] = job[d]
      /\ job'[c].version = job[c].version /\ job'[c].pin = job[c].pin
      /\ job'[c].before = job[c].before
      /\ job'[c].at = "clean"
  BY <1>1 DEF DownloadFails, TypeOK, Job, Pcs, Outcomes
<1>3. TypeOK'
  BY <1>1, <1>2 DEF TypeOK, DownloadFails, Adverse, ReleaseAssumption
<1>4. UNCHANGED <<links, release>> /\ LockInv'
  <2>1. UNCHANGED <<links, release>> /\ job[c].at \in {"download"}
    BY DEF DownloadFails, At
  <2>2. job[c].at \in Held <=> lock = c
    BY DEF IInv, LockInv
  <2>3. QED
    BY <1>2, <2>1, <2>2, LockKept DEF Held, DownloadFails
<1>5. Knows(c)'
  BY <1>1, <1>2, <1>4 DEF Knows, Rel, Desired, At, DownloadFails
<1>6. job'[c].at \in Held => Complete(job[c].before)'
  BY <1>1, <1>2, <1>4 DEF IInv, BeforeInv, Complete, Held, At, DownloadFails
<1>7. Complete(links)' /\ ReceiptInv'
  BY <1>4 DEF IInv, Complete, ReceiptInv
<1>8. QED
  BY <1>2, <1>3, <1>4, <1>5, <1>6, <1>7, Together

\* The links are read under the lock.
LEMMA LockStep ==
    ASSUME ReleaseAssumption, IInv, NEW c \in Controllers, Lock(c) PROVE IInv'
<1>1. TypeOK /\ job[c] \in Job /\ links \in Links /\ Knows(c)
  BY JobShape DEF IInv, KnowsInv
<1>2. /\ \A d \in Controllers \ {c} : job'[d] = job[d]
      /\ job'[c].version = job[c].version /\ job'[c].pin = job[c].pin /\ job'[c].before = links
      /\ job'[c].at = "locked"
  BY <1>1 DEF TypeOK, Lock, At
<1>3. TypeOK'
  BY <1>1 DEF TypeOK, Job, Pcs, Outcomes, Lock, At
<1>4. (UNCHANGED <<links, release>> \/ lock = c) /\ LockInv'
  <2>1. UNCHANGED <<links, release>> /\ lock = None /\ lock' = c
    BY <1>1, <1>2 DEF IInv, LockInv, Held, Lock, At
  <2>2. QED
    BY <1>2, <2>1, LockKept DEF Held, Lock, At
<1>5. Knows(c)'
  BY <1>1, <1>2 DEF Knows, Rel, Desired, Lock, At
<1>6. job'[c].at \in Held => Complete(job[c].before)'
  BY <1>1, <1>2 DEF IInv, BeforeInv, Complete, Held, Lock, At
<1>7. Complete(links)'
  BY <1>1 DEF IInv, Complete, Lock, At
<1>8. ReceiptInv'
  BY <1>1 DEF IInv, ReceiptInv, Lock, At
<1>9. QED
  BY <1>2, <1>3, <1>4, <1>5, <1>6, <1>7, <1>8, Together

\* What is published decides how activate goes on.
LEMMA InspectStep ==
    ASSUME ReleaseAssumption, IInv, NEW c \in Controllers, Inspect(c) PROVE IInv'
<1>1. TypeOK /\ Knows(c) /\ job[c] \in Job /\ job[c].at = "locked" /\ lock = c
  BY JobShape DEF IInv, KnowsInv, LockInv, Held, Inspect, At
<1>2. UNCHANGED <<links, release, staging, adverse>>
  BY DEF Inspect
<1>3. \/ Rel(c).candidate = job[c].pin /\ Goto(c, "receipt") /\ UNCHANGED lock
      \/ Rel(c).candidate = None /\ Rel(c).receipt = None /\ Goto(c, "publish") /\ UNCHANGED lock
      \/ Leave(c, "unsafe")
  BY DEF Inspect
<1>4. /\ job' \in [Controllers -> Job] /\ \A d \in Controllers \ {c} : job'[d] = job[d]
      /\ job'[c].version = job[c].version /\ job'[c].pin = job[c].pin
      /\ job'[c].before = job[c].before
      /\ \/ Rel(c).candidate = job[c].pin /\ job'[c].at = "receipt" /\ UNCHANGED lock
         \/ /\ Rel(c).candidate = None /\ Rel(c).receipt = None
            /\ job'[c].at = "publish" /\ UNCHANGED lock
         \/ job'[c].at = "clean" /\ lock' = None
  <2>1. CASE Goto(c, "receipt") \/ Goto(c, "publish")
    BY <1>1, <1>3, <2>1, GotoJob, LeaveJob DEF Pcs, Outcomes
  <2>2. CASE Leave(c, "unsafe")
    BY <1>1, <2>2, LeaveJob DEF Outcomes
  <2>3. QED
    BY <1>3, <2>1, <2>2
<1>5. TypeOK'
  BY <1>1, <1>2, <1>4 DEF TypeOK
<1>6. LockInv'
  BY <1>1, <1>4, LockKept DEF Held
<1>7. Knows(c)'
  BY <1>1, <1>2, <1>4 DEF Knows, Rel
<1>8. job'[c].at \in Held => Complete(job[c].before)'
  BY <1>1, <1>2, <1>4 DEF IInv, BeforeInv, Complete, Held
<1>9. Complete(links)' /\ ReceiptInv'
  BY <1>2 DEF IInv, Complete, ReceiptInv
<1>10. QED
  BY <1>1, <1>4, <1>5, <1>6, <1>7, <1>8, <1>9, Together

\* The candidate appears where none was.
LEMMA PublishStep ==
    ASSUME ReleaseAssumption, IInv, NEW c \in Controllers, Publish(c) PROVE IInv'
<1> DEFINE v == job[c].version
<1>1. TypeOK /\ Knows(c) /\ job[c] \in Job /\ job[c].at = "publish" /\ lock = c
  BY JobShape DEF IInv, KnowsInv, LockInv, Held, Publish, At
<1>2. /\ job' \in [Controllers -> Job] /\ \A d \in Controllers \ {c} : job'[d] = job[d]
      /\ job'[c].version = v /\ job'[c].pin = job[c].pin
      /\ job'[c].before = job[c].before /\ job'[c].at = "receipt"
  BY <1>1, GotoJob DEF Publish, Pcs
<1>3. /\ v \in Versions /\ job[c].pin \in Pins /\ job[c].pin # None
      /\ release[v].candidate = None /\ release[v].receipt = None
  BY <1>1 DEF Knows, Rel, ReleaseAssumption
<1>4. /\ release' \in [Versions -> Release] /\ release'[v].candidate = job[c].pin
      /\ release'[v].receipt = None /\ \A w \in Versions \ {v} : release'[w] = release[w]
  BY <1>1, <1>3 DEF Publish, TypeOK, Release
<1>5. TypeOK'
  BY <1>1, <1>2, <1>4 DEF TypeOK, Publish
<1>6. LockInv'
  BY <1>1, <1>2, LockKept DEF Held, Publish
<1>7. Knows(c)'
  BY <1>1, <1>2, <1>3, <1>4 DEF Knows, Rel, Publish
<1>8. \A w \in Versions : release[w].candidate # None => release'[w].candidate # None
  BY <1>3, <1>4
<1>9. Complete(job[c].before)' /\ Complete(links)'
  <2>1. job[c].before \in Links /\ links \in Links /\ job'[c].before = job[c].before /\ UNCHANGED links
    BY <1>1, <1>2, JobShape DEF Publish
  <2>2. Complete(job[c].before) /\ Complete(links)
    BY <1>1 DEF IInv, BeforeInv, Held
  <2>3. QED
    BY <1>8, <2>1, <2>2 DEF Complete, Links
<1>10. ReceiptInv'
  BY <1>3, <1>4 DEF IInv, ReceiptInv
<1>11. QED
  BY <1>1, <1>2, <1>5, <1>6, <1>7, <1>9, <1>10, Together

\* The receipt is written for the candidate it describes.
LEMMA ReceiptStep ==
    ASSUME ReleaseAssumption, IInv, NEW c \in Controllers, Receipt(c) PROVE IInv'
<1> DEFINE v == job[c].version
<1>1. TypeOK /\ Knows(c) /\ job[c] \in Job /\ job[c].at = "receipt" /\ lock = c
  BY JobShape DEF IInv, KnowsInv, LockInv, Held, Receipt, At
<1>2. v \in Versions /\ job[c].pin \in Pins /\ release[v].candidate = job[c].pin
  BY <1>1 DEF Knows, Rel
<1>3. \/ Goto(c, "current") /\ UNCHANGED lock /\ release' = [release EXCEPT ![v].receipt = job[c].pin]
      \/ Leave(c, "staged") /\ release' = [release EXCEPT ![v].receipt = job[c].pin]
      \/ Leave(c, "unsafe") /\ UNCHANGED release
  BY DEF Receipt
<1>4. /\ job' \in [Controllers -> Job] /\ \A d \in Controllers \ {c} : job'[d] = job[d]
      /\ job'[c].version = v /\ job'[c].pin = job[c].pin /\ job'[c].before = job[c].before
      /\ \/ job'[c].at = "current" /\ UNCHANGED lock
         \/ job'[c].at = "clean" /\ lock' = None
  <2>1. CASE Goto(c, "current") /\ UNCHANGED lock
    BY <1>1, <2>1, GotoJob DEF Pcs
  <2>2. CASE Leave(c, "staged") \/ Leave(c, "unsafe")
    BY <1>1, <2>2, LeaveJob DEF Outcomes
  <2>3. QED
    BY <1>3, <2>1, <2>2
<1>5. /\ release' \in [Versions -> Release] /\ release'[v].candidate = job[c].pin
      /\ \A w \in Versions : release'[w].candidate = release[w].candidate
      /\ \A w \in Versions \ {v} : release'[w] = release[w]
      /\ release'[v].receipt = job[c].pin \/ release'[v] = release[v]
      /\ job'[c].at = "current" => release'[v].receipt = job[c].pin
  <2>1. CASE UNCHANGED release
    <3>1. job'[c].at = "clean" \/ release' = [release EXCEPT ![v].receipt = job[c].pin]
      BY <1>1, <1>3, LeaveJob DEF Outcomes
    <3>2. QED
      BY <1>1, <1>2, <2>1, <3>1 DEF TypeOK, Release
  <2>2. CASE release' = [release EXCEPT ![v].receipt = job[c].pin]
    BY <1>1, <1>2, <2>2 DEF TypeOK, Release
  <2>3. QED
    BY <1>3, <2>1, <2>2
<1>6. TypeOK'
  <2>1. UNCHANGED <<links, staging, adverse>>
    BY DEF Receipt
  <2>2. QED
    BY <1>1, <1>4, <1>5, <2>1 DEF TypeOK
<1>7. LockInv'
  BY <1>1, <1>4, LockKept DEF Held
<1>8. Knows(c)'
  BY <1>1, <1>2, <1>4, <1>5 DEF Knows, Rel, Receipt
<1>9. Complete(job[c].before)' /\ Complete(links)'
  <2>1. job[c].before \in Links /\ links \in Links /\ job'[c].before = job[c].before /\ UNCHANGED links
    BY <1>1, <1>4, JobShape DEF Receipt
  <2>2. Complete(job[c].before) /\ Complete(links)
    BY <1>1 DEF IInv, BeforeInv, Held
  <2>3. QED
    BY <1>5, <2>1, <2>2 DEF Complete, Links
<1>10. ReceiptInv'
  BY <1>2, <1>5 DEF IInv, ReceiptInv
<1>11. QED
  BY <1>1, <1>4, <1>6, <1>7, <1>8, <1>9, <1>10, Together

\* The link current is set.
LEMMA CurrentStep ==
    ASSUME ReleaseAssumption, IInv, NEW c \in Controllers, SetLink(c, "current") PROVE IInv'
<1>1. TypeOK /\ Knows(c) /\ job[c] \in Job /\ links \in Links
  BY JobShape DEF IInv, KnowsInv
<1>2. /\ job[c].at = "current" /\ Goto(c, "public") /\ UNCHANGED <<release, staging, lock, adverse>>
      /\ links' = [links EXCEPT !.current = Desired(c).current]
  BY DEF SetLink, LinkOf, After, Desired, At
<1>3. /\ job' \in [Controllers -> Job] /\ \A d \in Controllers \ {c} : job'[d] = job[d]
      /\ job'[c].version = job[c].version /\ job'[c].pin = job[c].pin
      /\ job'[c].before = job[c].before /\ job'[c].at = "public"
  BY <1>1, <1>2, GotoJob DEF Pcs
<1>4. /\ links' \in Links /\ links'.current = Desired(c).current
      /\ links'.public = links.public /\ links'.previous = links.previous
  BY <1>1, <1>2 DEF Links, Job, Desired, Knows
<1>5. TypeOK'
  BY <1>1, <1>2, <1>3, <1>4 DEF TypeOK
<1>6. lock = c /\ LockInv'
  <2>1. lock = c
    BY <1>2 DEF IInv, LockInv, Held
  <2>2. QED
    BY <1>2, <1>3, <2>1, LockKept DEF Held
<1>7. Knows(c)'
  <2>1. Desired(c)' = Desired(c) /\ Rel(c)' = Rel(c)
    BY <1>2, <1>3 DEF Desired, Rel
  <2>2. QED
    BY <1>1, <1>2, <1>3, <1>4, <2>1 DEF Knows
<1>8. job'[c].at \in Held => Complete(job[c].before)'
  BY <1>2, <1>3 DEF IInv, BeforeInv, Complete, Held
<1>9. Complete(links)' /\ ReceiptInv'
  <2>1. Complete(links) /\ Complete(job[c].before) /\ ReceiptInv
    BY <1>2 DEF IInv, BeforeInv, Held
  <2>2. links'.current \in {None, job[c].version, job[c].before.current}
    BY <1>4 DEF Desired
  <2>3. QED
    BY <1>1, <1>2, <1>4, <2>1, <2>2 DEF Complete, ReceiptInv, Knows, Rel, ReleaseAssumption
<1>10. QED
  BY <1>3, <1>5, <1>6, <1>7, <1>8, <1>9, Together

\* The link public is set.
LEMMA PublicStep ==
    ASSUME ReleaseAssumption, IInv, NEW c \in Controllers, SetLink(c, "public") PROVE IInv'
<1>1. TypeOK /\ Knows(c) /\ job[c] \in Job /\ links \in Links
  BY JobShape DEF IInv, KnowsInv
<1>2. /\ job[c].at = "public" /\ Goto(c, "previous") /\ UNCHANGED <<release, staging, lock, adverse>>
      /\ links' = [links EXCEPT !.public = Desired(c).public]
  BY DEF SetLink, LinkOf, After, Desired, At
<1>3. /\ job' \in [Controllers -> Job] /\ \A d \in Controllers \ {c} : job'[d] = job[d]
      /\ job'[c].version = job[c].version /\ job'[c].pin = job[c].pin
      /\ job'[c].before = job[c].before /\ job'[c].at = "previous"
  BY <1>1, <1>2, GotoJob DEF Pcs
<1>4. /\ links' \in Links /\ links'.public = Desired(c).public
      /\ links'.current = links.current /\ links'.previous = links.previous
  BY <1>1, <1>2 DEF Links, Job, Desired, Knows
<1>5. TypeOK'
  BY <1>1, <1>2, <1>3, <1>4 DEF TypeOK
<1>6. lock = c /\ LockInv'
  <2>1. lock = c
    BY <1>2 DEF IInv, LockInv, Held
  <2>2. QED
    BY <1>2, <1>3, <2>1, LockKept DEF Held
<1>7. Knows(c)'
  <2>1. Desired(c)' = Desired(c) /\ Rel(c)' = Rel(c)
    BY <1>2, <1>3 DEF Desired, Rel
  <2>2. QED
    BY <1>1, <1>2, <1>3, <1>4, <2>1 DEF Knows
<1>8. job'[c].at \in Held => Complete(job[c].before)'
  BY <1>2, <1>3 DEF IInv, BeforeInv, Complete, Held
<1>9. Complete(links)' /\ ReceiptInv'
  <2>1. Complete(links) /\ Complete(job[c].before) /\ ReceiptInv
    BY <1>2 DEF IInv, BeforeInv, Held
  <2>2. QED
    BY <1>1, <1>2, <1>4, <2>1 DEF Complete, ReceiptInv, Knows, Rel, ReleaseAssumption
<1>10. QED
  BY <1>3, <1>5, <1>6, <1>7, <1>8, <1>9, Together

\* The link previous is set.
LEMMA PreviousStep ==
    ASSUME ReleaseAssumption, IInv, NEW c \in Controllers, SetLink(c, "previous") PROVE IInv'
<1>1. TypeOK /\ Knows(c) /\ job[c] \in Job /\ links \in Links
  BY JobShape DEF IInv, KnowsInv
<1>2. /\ job[c].at = "previous" /\ Goto(c, "check") /\ UNCHANGED <<release, staging, lock, adverse>>
      /\ links' = [links EXCEPT !.previous = Desired(c).previous]
  BY DEF SetLink, LinkOf, After, Desired, At
<1>3. /\ job' \in [Controllers -> Job] /\ \A d \in Controllers \ {c} : job'[d] = job[d]
      /\ job'[c].version = job[c].version /\ job'[c].pin = job[c].pin
      /\ job'[c].before = job[c].before /\ job'[c].at = "check"
  BY <1>1, <1>2, GotoJob DEF Pcs
<1>4. /\ links' \in Links /\ links'.previous = Desired(c).previous
      /\ links'.current = links.current /\ links'.public = links.public
  BY <1>1, <1>2 DEF Links, Job, Desired, Knows
<1>5. TypeOK'
  BY <1>1, <1>2, <1>3, <1>4 DEF TypeOK
<1>6. lock = c /\ LockInv'
  <2>1. lock = c
    BY <1>2 DEF IInv, LockInv, Held
  <2>2. QED
    BY <1>2, <1>3, <2>1, LockKept DEF Held
<1>7. Knows(c)'
  <2>1. Desired(c)' = Desired(c) /\ Rel(c)' = Rel(c)
    BY <1>2, <1>3 DEF Desired, Rel
  <2>2. QED
    BY <1>1, <1>2, <1>3, <1>4, <2>1 DEF Knows
<1>8. job'[c].at \in Held => Complete(job[c].before)'
  BY <1>2, <1>3 DEF IInv, BeforeInv, Complete, Held
<1>9. Complete(links)' /\ ReceiptInv'
  <2>1. Complete(links) /\ Complete(job[c].before) /\ ReceiptInv
    BY <1>2 DEF IInv, BeforeInv, Held
  <2>2. links'.previous \in {None, job[c].version, job[c].before.previous, job[c].before.current}
    BY <1>4 DEF Desired
  <2>3. QED
    BY <1>1, <1>2, <1>4, <2>1, <2>2 DEF Complete, ReceiptInv, Knows, Rel, ReleaseAssumption
<1>10. QED
  BY <1>3, <1>5, <1>6, <1>7, <1>8, <1>9, Together

\* The link current is put back.
LEMMA UndoCurrentStep ==
    ASSUME ReleaseAssumption, IInv, NEW c \in Controllers, SetLink(c, "undoCurrent") PROVE IInv'
<1>1. TypeOK /\ Knows(c) /\ job[c] \in Job /\ links \in Links
  BY JobShape DEF IInv, KnowsInv
<1>2. /\ job[c].at = "undoCurrent" /\ Goto(c, "undoPublic") /\ UNCHANGED <<release, staging, lock, adverse>>
      /\ links' = [links EXCEPT !.current = job[c].before.current]
  BY DEF SetLink, LinkOf, After, Desired, At
<1>3. /\ job' \in [Controllers -> Job] /\ \A d \in Controllers \ {c} : job'[d] = job[d]
      /\ job'[c].version = job[c].version /\ job'[c].pin = job[c].pin
      /\ job'[c].before = job[c].before /\ job'[c].at = "undoPublic"
  BY <1>1, <1>2, GotoJob DEF Pcs
<1>4. /\ links' \in Links /\ links'.current = job[c].before.current
      /\ links'.public = links.public /\ links'.previous = links.previous
  BY <1>1, <1>2 DEF Links, Job, Desired, Knows
<1>5. TypeOK'
  BY <1>1, <1>2, <1>3, <1>4 DEF TypeOK
<1>6. lock = c /\ LockInv'
  <2>1. lock = c
    BY <1>2 DEF IInv, LockInv, Held
  <2>2. QED
    BY <1>2, <1>3, <2>1, LockKept DEF Held
<1>7. Knows(c)'
  <2>1. Desired(c)' = Desired(c) /\ Rel(c)' = Rel(c)
    BY <1>2, <1>3 DEF Desired, Rel
  <2>2. QED
    BY <1>1, <1>2, <1>3, <1>4, <2>1 DEF Knows
<1>8. job'[c].at \in Held => Complete(job[c].before)'
  BY <1>2, <1>3 DEF IInv, BeforeInv, Complete, Held
<1>9. Complete(links)' /\ ReceiptInv'
  <2>1. Complete(links) /\ Complete(job[c].before) /\ ReceiptInv
    BY <1>2 DEF IInv, BeforeInv, Held
  <2>2. links'.current \in {None, job[c].before.current}
    BY <1>4
  <2>3. QED
    BY <1>1, <1>2, <1>4, <2>1, <2>2 DEF Complete, ReceiptInv, Knows, Rel, ReleaseAssumption
<1>10. QED
  BY <1>3, <1>5, <1>6, <1>7, <1>8, <1>9, Together

\* The link public is put back.
LEMMA UndoPublicStep ==
    ASSUME ReleaseAssumption, IInv, NEW c \in Controllers, SetLink(c, "undoPublic") PROVE IInv'
<1>1. TypeOK /\ Knows(c) /\ job[c] \in Job /\ links \in Links
  BY JobShape DEF IInv, KnowsInv
<1>2. /\ job[c].at = "undoPublic" /\ Goto(c, "undoPrevious") /\ UNCHANGED <<release, staging, lock, adverse>>
      /\ links' = [links EXCEPT !.public = job[c].before.public]
  BY DEF SetLink, LinkOf, After, Desired, At
<1>3. /\ job' \in [Controllers -> Job] /\ \A d \in Controllers \ {c} : job'[d] = job[d]
      /\ job'[c].version = job[c].version /\ job'[c].pin = job[c].pin
      /\ job'[c].before = job[c].before /\ job'[c].at = "undoPrevious"
  BY <1>1, <1>2, GotoJob DEF Pcs
<1>4. /\ links' \in Links /\ links'.public = job[c].before.public
      /\ links'.current = links.current /\ links'.previous = links.previous
  BY <1>1, <1>2 DEF Links, Job, Desired, Knows
<1>5. TypeOK'
  BY <1>1, <1>2, <1>3, <1>4 DEF TypeOK
<1>6. lock = c /\ LockInv'
  <2>1. lock = c
    BY <1>2 DEF IInv, LockInv, Held
  <2>2. QED
    BY <1>2, <1>3, <2>1, LockKept DEF Held
<1>7. Knows(c)'
  <2>1. Desired(c)' = Desired(c) /\ Rel(c)' = Rel(c)
    BY <1>2, <1>3 DEF Desired, Rel
  <2>2. QED
    BY <1>1, <1>2, <1>3, <1>4, <2>1 DEF Knows
<1>8. job'[c].at \in Held => Complete(job[c].before)'
  BY <1>2, <1>3 DEF IInv, BeforeInv, Complete, Held
<1>9. Complete(links)' /\ ReceiptInv'
  <2>1. Complete(links) /\ Complete(job[c].before) /\ ReceiptInv
    BY <1>2 DEF IInv, BeforeInv, Held
  <2>2. QED
    BY <1>1, <1>2, <1>4, <2>1 DEF Complete, ReceiptInv, Knows, Rel, ReleaseAssumption
<1>10. QED
  BY <1>3, <1>5, <1>6, <1>7, <1>8, <1>9, Together

\* The link previous is put back.
LEMMA UndoPreviousStep ==
    ASSUME ReleaseAssumption, IInv, NEW c \in Controllers, SetLink(c, "undoPrevious") PROVE IInv'
<1>1. TypeOK /\ Knows(c) /\ job[c] \in Job /\ links \in Links
  BY JobShape DEF IInv, KnowsInv
<1>2. /\ job[c].at = "undoPrevious" /\ Goto(c, "undone") /\ UNCHANGED <<release, staging, lock, adverse>>
      /\ links' = [links EXCEPT !.previous = job[c].before.previous]
  BY DEF SetLink, LinkOf, After, Desired, At
<1>3. /\ job' \in [Controllers -> Job] /\ \A d \in Controllers \ {c} : job'[d] = job[d]
      /\ job'[c].version = job[c].version /\ job'[c].pin = job[c].pin
      /\ job'[c].before = job[c].before /\ job'[c].at = "undone"
  BY <1>1, <1>2, GotoJob DEF Pcs
<1>4. /\ links' \in Links /\ links'.previous = job[c].before.previous
      /\ links'.current = links.current /\ links'.public = links.public
  BY <1>1, <1>2 DEF Links, Job, Desired, Knows
<1>5. TypeOK'
  BY <1>1, <1>2, <1>3, <1>4 DEF TypeOK
<1>6. lock = c /\ LockInv'
  <2>1. lock = c
    BY <1>2 DEF IInv, LockInv, Held
  <2>2. QED
    BY <1>2, <1>3, <2>1, LockKept DEF Held
<1>7. Knows(c)'
  <2>1. Desired(c)' = Desired(c) /\ Rel(c)' = Rel(c)
    BY <1>2, <1>3 DEF Desired, Rel
  <2>2. links' = job[c].before
    BY <1>1, <1>2, <1>4 DEF Knows, Links, Job, Desired
  <2>3. QED
    BY <1>1, <1>2, <1>3, <1>4, <2>1, <2>2 DEF Knows
<1>8. job'[c].at \in Held => Complete(job[c].before)'
  BY <1>2, <1>3 DEF IInv, BeforeInv, Complete, Held
<1>9. Complete(links)' /\ ReceiptInv'
  <2>1. Complete(links) /\ Complete(job[c].before) /\ ReceiptInv
    BY <1>2 DEF IInv, BeforeInv, Held
  <2>2. links'.previous \in {None, job[c].before.previous}
    BY <1>4
  <2>3. QED
    BY <1>1, <1>2, <1>4, <2>1, <2>2 DEF Complete, ReceiptInv, Knows, Rel, ReleaseAssumption
<1>10. QED
  BY <1>3, <1>5, <1>6, <1>7, <1>8, <1>9, Together

\* The links are checked as a whole.
LEMMA CheckStep ==
    ASSUME ReleaseAssumption, IInv, NEW c \in Controllers, Check(c) PROVE IInv'
<1>1. TypeOK /\ Knows(c) /\ job[c] \in Job /\ job[c].at = "check" /\ lock = c
  BY JobShape DEF IInv, KnowsInv, LockInv, Held, Check, At
<1>2. UNCHANGED <<links, release, staging, adverse>>
  BY DEF Check
<1>3. /\ job' \in [Controllers -> Job] /\ \A d \in Controllers \ {c} : job'[d] = job[d]
      /\ job'[c].version = job[c].version /\ job'[c].pin = job[c].pin
      /\ job'[c].before = job[c].before
      /\ \/ job'[c].at = "undoCurrent" /\ UNCHANGED lock
         \/ job'[c].at = "clean" /\ lock' = None
  <2>1. CASE links = Desired(c)
    BY <1>1, <2>1, LeaveJob DEF Check, Outcomes
  <2>2. CASE links # Desired(c)
    BY <1>1, <2>2, GotoJob DEF Check, Pcs
  <2>3. QED
    BY <2>1, <2>2
<1>4. TypeOK'
  BY <1>1, <1>2, <1>3 DEF TypeOK
<1>5. LockInv'
  BY <1>1, <1>3, LockKept DEF Held
<1>6. Knows(c)'
  BY <1>1, <1>2, <1>3 DEF Knows, Rel
<1>7. job'[c].at \in Held => Complete(job[c].before)'
  BY <1>1, <1>2, <1>3 DEF IInv, BeforeInv, Complete, Held
<1>8. Complete(links)' /\ ReceiptInv'
  BY <1>2 DEF IInv, Complete, ReceiptInv
<1>9. QED
  BY <1>1, <1>3, <1>4, <1>5, <1>6, <1>7, <1>8, Together

\* A failing call on the way forward starts the way back.
LEMMA FailsStep ==
    ASSUME ReleaseAssumption, IInv, NEW c \in Controllers, Fails(c) PROVE IInv'
<1>1. TypeOK /\ Knows(c) /\ job[c] \in Job
  BY JobShape DEF IInv, KnowsInv
<1>2. /\ job' \in [Controllers -> Job] /\ \A d \in Controllers \ {c} : job'[d] = job[d]
      /\ job'[c].version = job[c].version /\ job'[c].pin = job[c].pin
      /\ job'[c].before = job[c].before
      /\ job'[c].at = "undoCurrent"
  BY <1>1, GotoJob DEF Fails, Pcs
<1>3. TypeOK'
  BY <1>1, <1>2 DEF TypeOK, Fails, Adverse, ReleaseAssumption
<1>4. UNCHANGED <<links, release>> /\ LockInv'
  <2>1. UNCHANGED <<links, release>> /\ job[c].at \in {"current", "public", "previous", "check"}
    BY DEF Fails, At
  <2>2. job[c].at \in Held <=> lock = c
    BY DEF IInv, LockInv
  <2>3. QED
    BY <1>2, <2>1, <2>2, LockKept DEF Held, Fails
<1>5. Knows(c)'
  BY <1>1, <1>2, <1>4 DEF Knows, Rel, Desired, At, Fails
<1>6. job'[c].at \in Held => Complete(job[c].before)'
  BY <1>1, <1>2, <1>4 DEF IInv, BeforeInv, Complete, Held, At, Fails
<1>7. Complete(links)' /\ ReceiptInv'
  BY <1>4 DEF IInv, Complete, ReceiptInv
<1>8. QED
  BY <1>2, <1>3, <1>4, <1>5, <1>6, <1>7, Together

\* A failing call on the way back ends activate.
LEMMA UndoFailsStep ==
    ASSUME ReleaseAssumption, IInv, NEW c \in Controllers, UndoFails(c) PROVE IInv'
<1>1. TypeOK /\ Knows(c) /\ job[c] \in Job
  BY JobShape DEF IInv, KnowsInv
<1>2. /\ job' \in [Controllers -> Job] /\ \A d \in Controllers \ {c} : job'[d] = job[d]
      /\ job'[c].version = job[c].version /\ job'[c].pin = job[c].pin
      /\ job'[c].before = job[c].before
      /\ job'[c].at = "clean" /\ lock' = None
  BY <1>1, LeaveJob DEF UndoFails, Outcomes
<1>3. TypeOK'
  BY <1>1, <1>2 DEF TypeOK, UndoFails, Adverse, ReleaseAssumption
<1>4. UNCHANGED <<links, release>> /\ LockInv'
  <2>1. UNCHANGED <<links, release>> /\ job[c].at \in {"undoCurrent", "undoPublic", "undoPrevious", "undone"}
    BY DEF UndoFails, At
  <2>2. job[c].at \in Held <=> lock = c
    BY DEF IInv, LockInv
  <2>3. QED
    BY <1>2, <2>1, <2>2, LockKept DEF Held, UndoFails
<1>5. Knows(c)'
  BY <1>1, <1>2, <1>4 DEF Knows, Rel, Desired, At, UndoFails
<1>6. job'[c].at \in Held => Complete(job[c].before)'
  BY <1>1, <1>2, <1>4 DEF IInv, BeforeInv, Complete, Held, At, UndoFails
<1>7. Complete(links)' /\ ReceiptInv'
  BY <1>4 DEF IInv, Complete, ReceiptInv
<1>8. QED
  BY <1>2, <1>3, <1>4, <1>5, <1>6, <1>7, Together

\* The way back is complete.
LEMMA UndoneStep ==
    ASSUME ReleaseAssumption, IInv, NEW c \in Controllers, Undone(c) PROVE IInv'
<1>1. TypeOK /\ Knows(c) /\ job[c] \in Job
  BY JobShape DEF IInv, KnowsInv
<1>2. /\ job' \in [Controllers -> Job] /\ \A d \in Controllers \ {c} : job'[d] = job[d]
      /\ job'[c].version = job[c].version /\ job'[c].pin = job[c].pin
      /\ job'[c].before = job[c].before
      /\ job'[c].at = "clean" /\ lock' = None
  BY <1>1, LeaveJob DEF Undone, Outcomes
<1>3. TypeOK'
  BY <1>1, <1>2 DEF TypeOK, Undone
<1>4. UNCHANGED <<links, release>> /\ LockInv'
  <2>1. UNCHANGED <<links, release>> /\ job[c].at \in {"undone"}
    BY DEF Undone, At
  <2>2. job[c].at \in Held <=> lock = c
    BY DEF IInv, LockInv
  <2>3. QED
    BY <1>2, <2>1, <2>2, LockKept DEF Held, Undone
<1>5. Knows(c)'
  BY <1>1, <1>2, <1>4 DEF Knows, Rel, Desired, At, Undone
<1>6. job'[c].at \in Held => Complete(job[c].before)'
  BY <1>1, <1>2, <1>4 DEF IInv, BeforeInv, Complete, Held, At, Undone
<1>7. Complete(links)' /\ ReceiptInv'
  BY <1>4 DEF IInv, Complete, ReceiptInv
<1>8. QED
  BY <1>2, <1>3, <1>4, <1>5, <1>6, <1>7, Together

\* The staging directory is removed.
LEMMA CleanStep ==
    ASSUME ReleaseAssumption, IInv, NEW c \in Controllers, Clean(c) PROVE IInv'
<1>1. TypeOK /\ job[c] \in Job /\ links \in Links /\ Knows(c)
  BY JobShape DEF IInv, KnowsInv
<1>2. /\ \A d \in Controllers \ {c} : job'[d] = job[d]
      /\ job'[c] = Idle /\ job'[c].at = "idle"
  BY <1>1 DEF TypeOK, Clean, Idle, NoLinks, At
<1>3. TypeOK'
  <2>1. Idle \in Job
    BY DEF Idle, NoLinks, Links, Job, Pcs, Outcomes
  <2>2. QED
    BY <1>1, <1>2, <2>1 DEF TypeOK, Clean
<1>4. (UNCHANGED <<links, release>> \/ lock = c) /\ LockInv'
  <2>1. UNCHANGED <<links, release, lock>> /\ job[c].at = "clean"
    BY <1>1, <1>2 DEF IInv, LockInv, Held, Clean, Idle, NoLinks, At
  <2>2. QED
    BY <1>2, <2>1, LockKept DEF Held, Clean, Idle, NoLinks, At
<1>5. Knows(c)'
  BY <1>1, <1>2 DEF Knows, Rel, Desired, Clean, Idle, NoLinks, At
<1>6. job'[c].at \in Held => Complete(job[c].before)'
  BY <1>1, <1>2 DEF IInv, BeforeInv, Complete, Held, Clean, Idle, NoLinks, At
<1>7. Complete(links)'
  BY <1>1 DEF IInv, Complete, Clean, Idle, NoLinks, At
<1>8. ReceiptInv'
  BY <1>1 DEF IInv, ReceiptInv, Clean, Idle, NoLinks, At
<1>9. QED
  BY <1>2, <1>3, <1>4, <1>5, <1>6, <1>7, <1>8, Together

\* A killed controller leaves links and releases as they are.
LEMMA DiesStep ==
    ASSUME ReleaseAssumption, IInv, NEW c \in Controllers, Dies(c) PROVE IInv'
<1>1. TypeOK /\ job[c] \in Job /\ links \in Links /\ Knows(c)
  BY JobShape DEF IInv, KnowsInv
<1>2. /\ \A d \in Controllers \ {c} : job'[d] = job[d]
      /\ job'[c] = Idle /\ job'[c].at = "idle"
  BY <1>1 DEF TypeOK, Dies, Adverse, Idle, NoLinks, At
<1>3. TypeOK'
  <2>1. Idle \in Job
    BY DEF Idle, NoLinks, Links, Job, Pcs, Outcomes
  <2>2. QED
    BY <1>1, <1>2, <2>1 DEF TypeOK, Dies, Adverse, ReleaseAssumption
<1>4. (UNCHANGED <<links, release>> \/ lock = c) /\ LockInv'
  <2>1. UNCHANGED <<links, release>> /\ (lock = c => lock' = None) /\ (lock # c => UNCHANGED lock)
        /\ (lock # c => job[c].at \notin Held)
    BY <1>1, <1>2 DEF IInv, LockInv, Held, Dies, Adverse, Idle, NoLinks, At
  <2>2. QED
    BY <1>2, <2>1, LockKept DEF Held, Dies, Adverse, Idle, NoLinks, At
<1>5. Knows(c)'
  BY <1>1, <1>2 DEF Knows, Rel, Desired, Dies, Adverse, Idle, NoLinks, At
<1>6. job'[c].at \in Held => Complete(job[c].before)'
  BY <1>1, <1>2 DEF IInv, BeforeInv, Complete, Held, Dies, Adverse, Idle, NoLinks, At
<1>7. Complete(links)'
  BY <1>1 DEF IInv, Complete, Dies, Adverse, Idle, NoLinks, At
<1>8. ReceiptInv'
  BY <1>1 DEF IInv, ReceiptInv, Dies, Adverse, Idle, NoLinks, At
<1>9. QED
  BY <1>2, <1>3, <1>4, <1>5, <1>6, <1>7, <1>8, Together

-----------------------------------------------------------------------------
(* The theorems                                                            *)

LEMMA InitInv == ASSUME ReleaseAssumption, Init PROVE IInv
<1> USE DEF ReleaseAssumption, Init
<1>1. TypeOK
  <2>1. links \in Links
    BY DEF Links, NoLinks
  <2>2. Idle \in Job
    BY DEF Idle, NoLinks, Links, Job, Pcs, Outcomes
  <2>3. QED
    BY <2>1, <2>2 DEF TypeOK
<1>2. LockInv /\ BeforeInv
  BY DEF LockInv, BeforeInv, Idle, Held
<1>3. KnowsInv
  BY DEF KnowsInv, Knows, Idle
<1>4. Complete(links)
  BY DEF Complete, NoLinks
<1>5. ReceiptInv
  BY DEF ReceiptInv
<1>6. QED
  BY <1>1, <1>2, <1>3, <1>4, <1>5 DEF IInv

LEMMA StepInv == ASSUME ReleaseAssumption, IInv, [Next]_vars PROVE IInv'
<1>1. CASE UNCHANGED vars
  BY <1>1 DEF vars, IInv, TypeOK, LockInv, KnowsInv, Knows, Rel, Desired, BeforeInv, Complete,
              ReceiptInv
<1>2. CASE Next
  <2>1. PICK c \in Controllers :
           \/ \E v \in Versions, pin \in Pins, s \in BOOLEAN : Start(c, v, pin, s)
           \/ Step(c) \/ DownloadFails(c) \/ Fails(c) \/ UndoFails(c) \/ Dies(c)
    BY <1>2 DEF Next
  <2>2. CASE Step(c)
    <3>1. CASE \E pc \in DOMAIN After : SetLink(c, pc)
      <4>1. DOMAIN After = {"current", "public", "previous", "undoCurrent", "undoPublic",
                            "undoPrevious"}
        BY DEF After
      <4>2. QED
        BY <3>1, <4>1, CurrentStep, PublicStep, PreviousStep, UndoCurrentStep, UndoPublicStep,
           UndoPreviousStep
    <3>2. QED
      BY <2>2, <3>1, PrepareStep, DownloadStep, LockStep, InspectStep, PublishStep, ReceiptStep,
         CheckStep, UndoneStep, CleanStep DEF Step
  <2>3. QED
    BY <2>1, <2>2, StartStep, DownloadFailsStep, FailsStep, UndoFailsStep, DiesStep
<1>3. QED
  BY <1>1, <1>2

LEMMA Invariance == ASSUME ReleaseAssumption PROVE Spec => []IInv
<1>1. Init => IInv
  BY InitInv
<1>2. IInv /\ [Next]_vars => IInv'
  BY StepInv
<1>3. QED
  BY <1>1, <1>2, PTL DEF Spec

\* Links, releases and controllers keep the shape runtime_release_activate.py
\* writes, for any number of controllers, versions and pins.
THEOREM Typed == ASSUME ReleaseAssumption PROVE Spec => []TypeOK
<1>1. IInv => TypeOK
  BY DEF IInv
<1>2. QED
  BY <1>1, Invariance, PTL

\* Whatever fails or dies, the links name releases with a candidate in place,
\* and every receipt describes exactly the candidate beside it.
THEOREM SelectedCompleteAlways == ASSUME ReleaseAssumption PROVE Spec => []SelectedComplete
<1>1. IInv => SelectedComplete
  BY DEF IInv, Complete, ReceiptInv, SelectedComplete
<1>2. QED
  BY <1>1, Invariance, PTL

\* An activation whose restoring calls work puts back exactly what it found.
THEOREM CompensationExactAlways == ASSUME ReleaseAssumption PROVE Spec => []CompensationExact
<1>1. IInv => CompensationExact
  BY DEF IInv, KnowsInv, Knows, At, CompensationExact
<1>2. QED
  BY <1>1, Invariance, PTL

\* Who commits finds its own pin selected, and what a receipt describes is never
\* replaced, however many controllers activate at the same time.
THEOREM CommitsOwnPinAlways == ASSUME ReleaseAssumption PROVE Spec => [][CommitsOwnPin]_vars
<1>1. ASSUME IInv, [Next]_vars PROVE [CommitsOwnPin]_vars
  <2>1. SUFFICES ASSUME Next PROVE CommitsOwnPin
    BY <1>1
  <2>2. PICK c \in Controllers :
           \/ \E v \in Versions, pin \in Pins, s \in BOOLEAN : Start(c, v, pin, s)
           \/ Step(c) \/ DownloadFails(c) \/ Fails(c) \/ UndoFails(c) \/ Dies(c)
    BY <2>1 DEF Next
  <2>3. TypeOK /\ job[c] \in Job /\ links \in Links /\ Knows(c)
    BY <1>1, JobShape DEF IInv, KnowsInv
  <2>4. ASSUME NEW v \in Versions, release[v].receipt # None PROVE release'[v] = release[v]
    <3>1. CASE Publish(c)
      BY <2>3, <2>4, <3>1 DEF Publish, At, Knows, Rel, TypeOK
    <3>2. CASE Receipt(c)
      <4>1. release[v] \in Release
        BY <2>3 DEF TypeOK
      <4>2. QED
        BY <2>3, <2>4, <3>2, <4>1 DEF Receipt, Leave, At, Knows, Rel, TypeOK, Release
    <3>3. CASE ~ Publish(c) /\ ~ Receipt(c)
      <4>1. UNCHANGED release
        BY <2>2, <3>3 DEF Step, Start, Prepare, Download, Lock, Inspect, SetLink, Check, Undone,
                          Clean, DownloadFails, Fails, UndoFails, Dies
      <4>2. QED
        BY <4>1
    <3>4. QED
      BY <3>1, <3>2, <3>3
  <2>5. ASSUME NEW d \in Controllers, job'[d].outcome = "committed", job[d].outcome # "committed"
        PROVE  /\ links.current = job[d].version
               /\ release[job[d].version] = [candidate |-> job[d].pin, receipt |-> job[d].pin]
    <3>1. d = c
      BY <2>2, <2>3, <2>5
         DEF Step, Start, Prepare, Download, Lock, Inspect, Publish, Receipt, SetLink, Check,
             Undone, Clean, DownloadFails, Fails, UndoFails, Dies, Leave, Goto, TypeOK
    <3>2. Check(c) /\ links = Desired(c)
      <4>1. ASSUME NEW o \in Outcomes, Leave(c, o) PROVE job'[c].outcome = o
        BY <2>3, <4>1, LeaveJob
      <4>2. ASSUME NEW pc \in Pcs, Goto(c, pc) PROVE job'[c].outcome = job[c].outcome
        BY <2>3, <4>2, GotoJob
      <4>3. ~ (\E v \in Versions, pin \in Pins, s \in BOOLEAN : Start(c, v, pin, s))
        BY <2>3, <2>5, <3>1 DEF Start, Idle, TypeOK
      <4>4. ~ Clean(c) /\ ~ Dies(c)
        BY <2>3, <2>5, <3>1 DEF Clean, Dies, Idle, TypeOK
      <4>5. ~ Lock(c) /\ ~ DownloadFails(c)
        BY <2>3, <2>5, <3>1 DEF Lock, DownloadFails, TypeOK, Job
      <4>6. ASSUME NEW pc \in DOMAIN After PROVE ~ SetLink(c, pc)
        <5>1. After[pc] \in Pcs
          BY DEF After, Pcs
        <5>2. QED
          BY <2>5, <3>1, <4>2, <5>1 DEF SetLink
      <4>7. ~ Prepare(c) /\ ~ Download(c) /\ ~ Publish(c) /\ ~ Fails(c)
        BY <2>5, <3>1, <4>2 DEF Prepare, Download, Publish, Fails, Pcs
      <4>8. ~ Inspect(c) /\ ~ Undone(c) /\ ~ UndoFails(c)
        BY <2>5, <3>1, <4>1, <4>2 DEF Inspect, Undone, UndoFails, Pcs, Outcomes
      <4>9. ~ Receipt(c)
        BY <2>5, <3>1, <4>1, <4>2 DEF Receipt, Pcs, Outcomes
      <4>10. Check(c)
        BY <2>2, <4>3, <4>4, <4>5, <4>6, <4>7, <4>8, <4>9 DEF Step
      <4>11. QED
        BY <2>5, <3>1, <4>2, <4>10 DEF Check, Pcs
    <3>3. job[c].at = "check" /\ job[c].version \in Versions
      BY <2>3, <3>2 DEF Check, At, Knows
    <3>4. links.current = job[c].version
      BY <3>2 DEF Desired
    <3>5. release[job[c].version] \in Release
      BY <2>3, <3>3 DEF TypeOK
    <3>6. QED
      BY <2>3, <3>1, <3>3, <3>4, <3>5 DEF Knows, Rel, Release
  <2>6. QED
    BY <2>4, <2>5 DEF CommitsOwnPin
<1>2. QED
  BY <1>1, Invariance, PTL DEF Spec

=============================================================================
