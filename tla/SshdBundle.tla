----------------------------- MODULE SshdBundle -----------------------------
(***************************************************************************)
(* The package of recovery code that guards SSH changes: immutable         *)
(* generations, the publisher that selects one and arms its units, the     *)
(* dispatcher every unit and every remote command goes through, and the    *)
(* proof a change demands of the recovery service before it touches SSH.   *)
(***************************************************************************)
EXTENDS Integers, FiniteSets

CONSTANTS Gens,        \* generations of the recovery package
          Schema,      \* the newest state format a generation knows
          None,        \* no generation
          MaxRuns,     \* executions of the recovery service during one proof
          MaxChanges,  \* SSH changes that are prepared
          MaxFaults    \* kills, reboots, failing commands, operators

BundleAssumption ==
    /\ Schema \in [Gens -> Nat] /\ None \notin Gens
    /\ MaxRuns \in Nat /\ MaxChanges \in Nat /\ MaxFaults \in Nat

VARIABLES staged, gens,   \* directories under staging/ and generations/
          current, next,  \* the links current and .current-next
          journal,        \* install.json
          links,          \* the unit links are in place
          tx,             \* state of the SSH transaction
          txLock,         \* holder of transaction.lock
          pub,            \* the publisher
          proc,           \* dispatched processes, by who asked for them
          sys,            \* what systemd has loaded and enabled
          worker,         \* last execution of vpn-sshd-recover.service
          proof,          \* what the change under way was shown
          ssh,            \* the listener
          changes, faults

vars == <<staged, gens, current, next, journal, links, tx, txLock, pub, proc, sys, worker,
          proof, ssh, changes, faults>>
package == <<staged, gens, current, next, journal, links>>
bounds == <<changes, faults>>

Callers == {"boot", "timer", "change"}

NoJournal == [gen |-> None, prev |-> None]
NoProc == [at |-> "none", gen |-> None]
NoPub == [at |-> "none", gen |-> None]
NoProof == [id |-> 0, acquired |-> 0]

Pending == journal # NoJournal
Terminal == tx.status = "idle"
(* The reader of a generation finds the state terminal.                    *)
TerminalFor(g) == Schema[g] >= tx.schema /\ Terminal

Exclusive == {"stage", "journal", "next", "switch", "links", "final"}
(* bundle.lock: exclusive for the publisher, shared for what it selected.  *)
SharedFree == \A c \in Callers : proc[c].at = "none"
BundleFree == pub.at \notin Exclusive

Init ==
    /\ staged = {} /\ gens = {} /\ current = None /\ next = None
    /\ journal = NoJournal /\ links = FALSE
    /\ tx = [status |-> "idle", schema |-> 0] /\ txLock = "free"
    /\ pub = NoPub /\ proc = [c \in Callers |-> NoProc]
    /\ sys = [loaded |-> None, enabled |-> FALSE, timer |-> "off", persistent |-> FALSE, boot |-> "none"]
    /\ worker = [id |-> 0, result |-> "none"] /\ proof = NoProof
    /\ ssh = "up" /\ changes = 0 /\ faults = 0

-----------------------------------------------------------------------------
(* Publication.                                                            *)

(* The controller copies a complete generation before it asks for it.      *)
Stage(g) ==
    /\ ssh = "up" /\ g \notin staged \cup gens
    /\ staged' = staged \cup {g}
    /\ UNCHANGED <<gens, current, next, journal, links, tx, txLock, pub, proc, sys, worker,
                   proof, ssh, bounds>>

(* check-installation: the package is selected, loaded and enabled, and    *)
(* the boot run succeeded.                                                 *)
Capability(g) ==
    /\ current = g /\ links
    /\ sys.loaded = g /\ sys.enabled /\ sys.persistent /\ sys.timer = "on" /\ sys.boot = "ok"

Completed(results) == worker.result \in results

(* Mutation: only the generation that leaves reads the state.              *)
Admissible_old(g) ==
    /\ Pending => journal.gen = g
    /\ g \in staged \cup gens
    /\ LET prev == IF Pending THEN journal.prev ELSE current
       IN prev # None => TerminalFor(prev)

(* One installation at a time, and both generations find nothing pending.  *)
Admissible(g) ==
    /\ Pending => journal.gen = g
    /\ g \in staged \cup gens
    /\ LET prev == IF Pending THEN journal.prev ELSE current
       IN prev # None => TerminalFor(prev)
    /\ TerminalFor(g)

(* publisher.lock, bundle.lock and transaction.lock, none of them waited   *)
(* for.                                                                    *)
Publish(g) ==
    /\ ssh = "up" /\ pub = NoPub /\ SharedFree /\ txLock = "free"
    /\ Admissible(g)
    /\ IF current = g /\ ~Pending /\ links /\ Capability(g) /\ Completed({"ok"})
       THEN UNCHANGED <<pub, txLock>>
       ELSE /\ pub' = [at |-> IF g \in gens THEN "journal" ELSE "stage", gen |-> g]
            /\ txLock' = "pub"
    /\ UNCHANGED <<package, tx, proc, sys, worker, proof, ssh, bounds>>

PubTo(s) == pub' = [pub EXCEPT !.at = s]

RenameStage ==
    /\ pub.at = "stage"
    /\ staged' = staged \ {pub.gen} /\ gens' = gens \cup {pub.gen}
    /\ PubTo("journal")
    /\ UNCHANGED <<current, next, journal, links, tx, txLock, proc, sys, worker, proof, ssh, bounds>>

WriteJournal ==
    /\ pub.at = "journal"
    /\ journal' = IF Pending THEN journal ELSE [gen |-> pub.gen, prev |-> current]
    /\ PubTo("next")
    /\ UNCHANGED <<staged, gens, current, next, links, tx, txLock, proc, sys, worker, proof, ssh, bounds>>

(* A link left by somebody else is never overwritten.                      *)
PrepareSwitch ==
    /\ pub.at = "next" /\ next \in {None, pub.gen}
    /\ next' = pub.gen
    /\ PubTo("switch")
    /\ UNCHANGED <<staged, gens, current, journal, links, tx, txLock, proc, sys, worker, proof, ssh, bounds>>

Switch ==
    /\ pub.at = "switch"
    /\ current' = next /\ next' = None
    /\ PubTo("links")
    /\ UNCHANGED <<staged, gens, journal, links, tx, txLock, proc, sys, worker, proof, ssh, bounds>>

(* The unit links, and then bundle.lock and transaction.lock are released. *)
Links ==
    /\ pub.at = "links"
    /\ links' = TRUE
    /\ PubTo("reload") /\ txLock' = "free"
    /\ UNCHANGED <<staged, gens, current, next, journal, tx, proc, sys, worker, proof, ssh, bounds>>

-----------------------------------------------------------------------------
(* Activation.                                                             *)

DaemonReload ==
    /\ pub.at = "reload"
    /\ sys' = [sys EXCEPT !.loaded = current]
    /\ PubTo("stopTimer")
    /\ UNCHANGED <<package, tx, txLock, proc, worker, proof, ssh, bounds>>

StopTimer ==
    /\ pub.at = "stopTimer"
    /\ sys' = [sys EXCEPT !.timer = "off"]
    /\ PubTo("stopWorker")
    /\ UNCHANGED <<package, tx, txLock, proc, worker, proof, ssh, bounds>>

(* Stopping the service ends an execution under way.                       *)
StopWorker ==
    /\ pub.at = "stopWorker"
    /\ IF proc["timer"].at = "none" THEN UNCHANGED <<proc, worker, txLock>>
       ELSE /\ proc' = [proc EXCEPT !["timer"] = NoProc]
            /\ worker' = [worker EXCEPT !.result = "stopped"]
            /\ txLock' = IF txLock = "timer" THEN "free" ELSE txLock
    /\ PubTo("enable")
    /\ UNCHANGED <<package, tx, sys, proof, ssh, bounds>>

EnableBoot ==
    /\ pub.at = "enable"
    /\ sys' = [sys EXCEPT !.enabled = TRUE]
    /\ PubTo("startTimer")
    /\ UNCHANGED <<package, tx, txLock, proc, worker, proof, ssh, bounds>>

(* Starting the timer starts the boot run first.                           *)
EnableTimer ==
    /\ pub.at = "startTimer" /\ proc["boot"].at = "none"
    /\ sys' = [sys EXCEPT !.persistent = TRUE, !.boot = "running"]
    /\ proc' = [proc EXCEPT !["boot"] = [at |-> "select", gen |-> None]]
    /\ PubTo("startsTimer")
    /\ UNCHANGED <<package, tx, txLock, worker, proof, ssh, bounds>>

TimerStarted ==
    /\ pub.at = "startsTimer" /\ proc["boot"].at = "none"
    /\ IF sys.boot = "ok" THEN sys' = [sys EXCEPT !.timer = "on"] /\ PubTo("startWorker")
                          ELSE pub' = NoPub /\ UNCHANGED sys
    /\ UNCHANGED <<package, tx, txLock, proc, worker, proof, ssh, bounds>>

(* A new execution of the recovery service.  Only a proof tells executions *)
(* apart, so they are counted from the one it observed.                    *)
NextRun == IF proc["change"].at \in {"none", "select", "run"} THEN 1 ELSE worker.id + 1

StartsWorker ==
    /\ NextRun <= MaxRuns
    /\ worker' = [id |-> NextRun, result |-> "running"]
    /\ proc' = [proc EXCEPT !["timer"] = [at |-> "select", gen |-> None]]

(* systemctl start joins an execution that is under way.                   *)
StartWorker ==
    /\ pub.at = "startWorker"
    /\ IF proc["timer"].at = "none" THEN StartsWorker ELSE UNCHANGED <<proc, worker>>
    /\ PubTo("check")
    /\ UNCHANGED <<package, tx, txLock, sys, proof, ssh, bounds>>

(* check-installation waits for the execution; exit 75 is no proof.        *)
CheckInstallation ==
    /\ pub.at = "check" /\ proc["timer"].at = "none"
    /\ IF Capability(pub.gen) /\ Completed({"ok"}) THEN PubTo("relock") ELSE pub' = NoPub
    /\ UNCHANGED <<package, tx, txLock, proc, sys, worker, proof, ssh, bounds>>

(* The locks again; a process that was dispatched meanwhile fails the      *)
(* publication and leaves its journal.                                     *)
Relock ==
    /\ pub.at = "relock"
    /\ IF SharedFree /\ txLock = "free" THEN PubTo("final") /\ txLock' = "pub"
                                        ELSE pub' = NoPub /\ UNCHANGED txLock
    /\ UNCHANGED <<package, tx, proc, sys, worker, proof, ssh, bounds>>

Finish ==
    /\ pub.at = "final"
    /\ journal' = IF /\ current = pub.gen /\ journal.gen = pub.gen
                     /\ journal.prev # None => TerminalFor(journal.prev)
                     /\ TerminalFor(pub.gen) /\ links
                  THEN NoJournal ELSE journal
    /\ pub' = NoPub /\ txLock' = "free"
    /\ UNCHANGED <<staged, gens, current, next, links, tx, proc, sys, worker, proof, ssh, bounds>>

-----------------------------------------------------------------------------
(* The dispatcher and what it starts.                                      *)

(* selected: the shared lease, and while an installation is pending only   *)
(* recovery over a state with nothing to recover.                          *)
Selects(c) ==
    /\ BundleFree
    /\ c = "change" => ~Pending
    /\ current # None
    /\ IF Pending THEN txLock = "free" /\ TerminalFor(current) ELSE links

(* The lease is busy, or the lock taken under a pending installation.      *)
SelectBusy == ~BundleFree \/ (Pending /\ txLock # "free")

Exits(c, result) ==
    /\ proc' = [proc EXCEPT ![c] = NoProc]
    /\ CASE c = "timer" -> worker' = [worker EXCEPT !.result = result] /\ UNCHANGED sys
         [] c = "boot" -> /\ sys' = [sys EXCEPT !.boot = IF result = "busy" THEN "failed" ELSE result]
                          /\ UNCHANGED worker
         [] OTHER -> UNCHANGED <<sys, worker>>

Tick ==
    /\ ssh = "up" /\ sys.timer = "on" /\ proc["timer"].at = "none"
    /\ StartsWorker
    /\ UNCHANGED <<package, tx, txLock, pub, sys, proof, ssh, bounds>>

Select(c) ==
    /\ proc[c].at = "select"
    /\ IF Selects(c)
       THEN /\ proc' = [proc EXCEPT ![c] = [at |-> "run", gen |-> current]]
            /\ UNCHANGED <<worker, sys>>
       ELSE /\ Exits(c, IF SelectBusy THEN "busy" ELSE "failed")
    /\ UNCHANGED <<package, tx, txLock, pub, proof, ssh, bounds>>

(* recover: an undecided change is undone when its time is over, and       *)
(* always at boot.                                                         *)
Recover(c, expired) ==
    /\ c \in {"boot", "timer"} /\ proc[c].at = "run"
    /\ \/ /\ txLock # "free"
          /\ Exits(c, "busy")
          /\ UNCHANGED tx
       \/ /\ txLock = "free"
          /\ LET ok == Schema[proc[c].gen] >= tx.schema
             IN /\ Exits(c, IF ok THEN "ok" ELSE "failed")
                /\ tx' = IF ok /\ (c = "boot" \/ expired) THEN [tx EXCEPT !.status = "idle"] ELSE tx
    /\ UNCHANGED <<package, txLock, pub, proof, ssh, bounds>>

-----------------------------------------------------------------------------
(* A change of the SSH configuration.                                      *)

(* A remote command; preparing comes first and applying is a command of    *)
(* its own.                                                                *)
Ask ==
    /\ ssh = "up" /\ proc["change"].at = "none"
    /\ tx.status = "idle" => changes < MaxChanges
    /\ proc' = [proc EXCEPT !["change"] = [at |-> "select", gen |-> None]]
    /\ UNCHANGED <<package, tx, txLock, pub, sys, worker, proof, ssh, bounds>>

ChangeTo(s) == proc' = [proc EXCEPT !["change"].at = s]

(* prepare: the generation asked for is the selected one.                  *)
Prepare ==
    /\ proc["change"].at = "run" /\ tx.status = "idle" /\ txLock = "free"
    /\ Schema[proc["change"].gen] >= tx.schema /\ changes < MaxChanges
    /\ tx' = [status |-> "prepared", schema |-> Schema[proc["change"].gen]]
    /\ changes' = changes + 1
    /\ proc' = [proc EXCEPT !["change"] = NoProc]
    /\ UNCHANGED <<package, txLock, pub, sys, worker, proof, ssh, faults>>

(* apply: the previous execution is over and was no failure.               *)
Observe ==
    /\ proc["change"].at = "run" /\ tx.status = "prepared" /\ proc["timer"].at = "none"
    /\ IF Capability(proc["change"].gen) /\ Completed({"ok", "busy"})
       THEN ChangeTo("observed") ELSE proc' = [proc EXCEPT !["change"] = NoProc]
    /\ UNCHANGED <<package, tx, txLock, pub, sys, worker, proof, ssh, bounds>>

(* systemctl start: a new execution, or one the timer started meanwhile.   *)
StartProof ==
    /\ proc["change"].at = "observed"
    /\ IF proc["timer"].at = "none"
       THEN /\ NextRun <= MaxRuns
            /\ worker' = [id |-> NextRun, result |-> "running"]
            /\ proc' = [proc EXCEPT !["timer"] = [at |-> "select", gen |-> None],
                                    !["change"].at = "proving"]
       ELSE ChangeTo("proving") /\ UNCHANGED worker
    /\ proof' = [id |-> worker.id, acquired |-> 0]
    /\ UNCHANGED <<package, tx, txLock, pub, sys, ssh, bounds>>

(* The execution is a new one, it started after the question and ended     *)
(* with success.                                                           *)
Proven ==
    /\ proc["change"].at = "proving" /\ proc["timer"].at = "none"
    /\ IF Capability(proc["change"].gen) /\ Completed({"ok"}) /\ worker.id > proof.id
       THEN ChangeTo("proven") /\ proof' = [proof EXCEPT !.id = worker.id]
       ELSE proc' = [proc EXCEPT !["change"] = NoProc] /\ proof' = NoProof
    /\ UNCHANGED <<package, tx, txLock, pub, sys, worker, ssh, bounds>>

(* The transaction lock, which nobody waits for.                           *)
Acquire ==
    /\ proc["change"].at = "proven"
    /\ IF txLock = "free" /\ tx.status = "prepared"
       THEN /\ ChangeTo("locked") /\ txLock' = "change"
            /\ proof' = [proof EXCEPT !.acquired = worker.id]
       ELSE /\ proc' = [proc EXCEPT !["change"] = NoProc] /\ proof' = NoProof /\ UNCHANGED txLock
    /\ UNCHANGED <<package, tx, pub, sys, worker, ssh, bounds>>

(* The proof is still the last execution, or a later one that began under  *)
(* this lock is running or was turned away by it.                          *)
Fence ==
    /\ Capability(proc["change"].gen)
    /\ \/ worker.id = proof.id /\ Completed({"ok"})
       \/ worker.id > proof.acquired /\ Completed({"busy", "running"})

Arm ==
    /\ proc["change"].at = "locked"
    /\ IF Fence THEN tx' = [tx EXCEPT !.status = "applying"] ELSE tx' = tx
    /\ proc' = [proc EXCEPT !["change"] = NoProc] /\ txLock' = "free" /\ proof' = NoProof
    /\ UNCHANGED <<package, pub, sys, worker, ssh, bounds>>

(* confirm or rollback by the operator.                                    *)
Decide ==
    /\ proc["change"].at = "run" /\ tx.status \in {"prepared", "applying"} /\ txLock = "free"
    /\ tx' = [tx EXCEPT !.status = "idle"]
    /\ proc' = [proc EXCEPT !["change"] = NoProc]
    /\ UNCHANGED <<package, txLock, pub, sys, worker, proof, ssh, bounds>>

-----------------------------------------------------------------------------
(* Faults.                                                                 *)

Faulty == faults < MaxFaults /\ faults' = faults + 1

(* The publisher dies, or one of its commands fails.                       *)
PublisherFails ==
    /\ Faulty /\ pub # NoPub
    /\ pub' = NoPub
    /\ txLock' = IF txLock = "pub" THEN "free" ELSE txLock
    /\ UNCHANGED <<package, tx, proc, sys, worker, proof, ssh, changes>>

(* A dispatched process dies or fails.                                     *)
ProcessFails(c) ==
    /\ Faulty /\ proc[c].at # "none"
    /\ Exits(c, "killed")
    /\ txLock' = IF txLock = c THEN "free" ELSE txLock
    /\ proof' = IF c = "change" THEN NoProof ELSE proof
    /\ UNCHANGED <<package, tx, pub, ssh, changes>>

(* An operator stops the timer, though not while SSH is being changed.     *)
OperatorStops ==
    /\ Faulty /\ sys.timer = "on" /\ tx.status # "applying"
    /\ sys' = [sys EXCEPT !.timer = "off"]
    /\ UNCHANGED <<package, tx, txLock, pub, proc, worker, proof, ssh, changes>>

(* The host restarts: the enabled boot run comes before the listener.      *)
Reboot ==
    /\ Faulty
    /\ pub' = NoPub /\ txLock' = "free" /\ proof' = NoProof
    /\ worker' = [worker EXCEPT !.result = "none"]
    /\ LET gated == links /\ sys.enabled
       IN /\ ssh' = IF gated THEN "waits" ELSE "up"
          /\ sys' = [sys EXCEPT !.loaded = IF links THEN current ELSE None, !.timer = "off",
                                !.boot = IF gated THEN "running" ELSE "none"]
          /\ proc' = [c \in Callers |-> IF c = "boot" /\ gated THEN [at |-> "select", gen |-> None]
                                                              ELSE NoProc]
    /\ UNCHANGED <<package, tx, changes>>

(* After the boot run the listener and the timer start.                    *)
Booted ==
    /\ ssh = "waits" /\ proc["boot"].at = "none"
    /\ IF sys.boot = "ok"
       THEN /\ ssh' = "up"
            /\ sys' = [sys EXCEPT !.timer = IF sys.persistent THEN "on" ELSE "off"]
       ELSE ssh' = "closed" /\ UNCHANGED sys
    /\ UNCHANGED <<package, tx, txLock, pub, proc, worker, proof, bounds>>

(* A listener that stayed closed is started again from the console.        *)
StartFromConsole ==
    /\ ssh = "closed"
    /\ ssh' = "waits" /\ sys' = [sys EXCEPT !.boot = "running"]
    /\ proc' = [proc EXCEPT !["boot"] = [at |-> "select", gen |-> None]]
    /\ UNCHANGED <<package, tx, txLock, pub, worker, proof, bounds>>

-----------------------------------------------------------------------------

Publishing ==
    \/ RenameStage \/ WriteJournal \/ PrepareSwitch \/ Switch \/ Links \/ DaemonReload
    \/ StopTimer \/ StopWorker \/ EnableBoot \/ EnableTimer \/ TimerStarted \/ StartWorker
    \/ CheckInstallation \/ Relock \/ Finish

Recovers == \E c \in {"boot", "timer"} : Select(c) \/ \E e \in BOOLEAN : Recover(c, e)

Changing == Ask \/ Select("change") \/ Prepare \/ Observe \/ StartProof \/ Proven \/ Acquire
            \/ Arm \/ Decide

Next ==
    \/ \E g \in Gens : Stage(g) \/ Publish(g)
    \/ Publishing \/ Tick \/ Recovers \/ Changing \/ Booted \/ StartFromConsole
    \/ PublisherFails \/ (\E c \in Callers : ProcessFails(c)) \/ OperatorStops \/ Reboot

Spec == Init /\ [][Next]_vars

-----------------------------------------------------------------------------

(* Types, and who may hold the transaction lock.                           *)
TypeOK ==
    /\ staged \subseteq Gens /\ gens \subseteq Gens
    /\ current \in gens \cup {None} /\ next \in gens \cup {None}
    /\ journal \in [gen : gens \cup {None}, prev : gens \cup {None}]
    /\ links \in BOOLEAN /\ tx.status \in {"idle", "prepared", "applying"}
    /\ txLock \in {"free", "pub"} \cup Callers
    /\ txLock = "pub" <=> pub.at \in Exclusive
    /\ txLock = "change" <=> proc["change"].at = "locked"
    /\ worker.id \in 0 .. MaxRuns /\ changes \in 0 .. MaxChanges /\ faults \in 0 .. MaxFaults

(* A change runs the code of the selected generation, and no generation is *)
(* being installed: what prepares a change is what will recover it.        *)
ChangeRunsSelected ==
    \A s \in {proc["change"]} : s.at \notin {"none", "select"} =>
        ~Pending /\ s.gen = current /\ BundleFree

(* Whatever is undecided can be read and undone by the generation that the *)
(* next boot would start, and none is undecided while one is installed.    *)
AlwaysRecoverable ==
    /\ current # None => Schema[current] >= tx.schema
    /\ ~Terminal => current # None /\ links /\ sys.enabled /\ ~Pending

(* Wherever an installation is cut off, the run at boot is not refused: if *)
(* the listener stays closed the run itself was killed.                    *)
ListenerReturns == ssh = "closed" => sys.boot = "killed"

-----------------------------------------------------------------------------

=============================================================================
