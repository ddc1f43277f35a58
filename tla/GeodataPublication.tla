------------------------- MODULE GeodataPublication -------------------------
(***************************************************************************)
(* geodata_publish.py of the role geodata: a pair of pinned files is       *)
(* downloaded, checked, installed and adopted by Xray, or the prior pair   *)
(* is put back.  The journal directory .geodata-pending carries the old    *)
(* bytes and a phase; a process that dies anywhere is finished by the next *)
(* timer run under the same lock.  A file is its generation (bytes, mode   *)
(* and owner together), 0 when absent; nothing else writes the files.      *)
(***************************************************************************)
EXTENDS Naturals, FiniteSets

CONSTANTS Gens,       \* the pins a run may ask for
          Pin,        \* the pin the deployed timer asks for
          MaxFaults,  \* bound: kills, failed downloads and restarts, Xray's own restarts
          Cuts        \* whether a kill may fall inside a journal write or its removal

VARIABLES files,    \* geosite.dat and geoip.dat
          pend,     \* .geodata-pending
          receipt,  \* .geodata-activated.json
          sets,     \* .asset-candidates: complete staged pairs
          xray,     \* the service and the pair it opened when it started
          run,      \* the process that holds .geodata-lock
          faults
vars == <<files, pend, receipt, sets, xray, run, faults>>

Names == {"geosite", "geoip"}
Absent == [n \in Names |-> 0]
Pair(g) == [n \in Names |-> g]
Whole(f) == \E g \in Gens \cup {0} : f = Pair(g)

Phases == {"preparing", "publishing", "activating", "activated", "recovering"}
NoPend == [there |-> FALSE, snap |-> FALSE, litter |-> FALSE, phase |-> "preparing",
           prev |-> Absent, want |-> 0, olds |-> {}]
NoRun == [pc |-> "idle", want |-> 0, stage |-> FALSE, recovered |-> FALSE,
          inner |-> FALSE, adopted |-> FALSE, todo |-> {}]
Idle == run.pc = "idle"
At(pc) == run.pc = pc
Go(pc) == run' = [run EXCEPT !.pc = pc]
GoAll(pc) == run' = [run EXCEPT !.pc = pc, !.todo = Names]
Settled == Idle /\ ~pend.there
Kept == {n \in Names : pend.prev[n] # 0}

TypeOK ==
    /\ files \in [Names -> Gens \cup {0}]
    /\ pend \in [there : BOOLEAN, snap : BOOLEAN, litter : BOOLEAN, phase : Phases,
                 prev : [Names -> Gens \cup {0}], want : Gens \cup {0}, olds : SUBSET Names]
    /\ receipt \in Gens \cup {0} /\ sets \in SUBSET Gens
    /\ xray \in [up : BOOLEAN, loaded : [Names -> Gens \cup {0}]]
    /\ run \in [pc : {"idle", "recover", "restore", "reactivate", "clear", "read",
                      "fetch", "decide", "install", "marked", "activate", "adopted",
                      "receipt", "drop"},
                want : Gens \cup {0}, stage : BOOLEAN, recovered : BOOLEAN,
                inner : BOOLEAN, adopted : BOOLEAN, todo : SUBSET Names]
    /\ faults \in 0..MaxFaults

Init ==
    /\ files \in {Absent} \cup {Pair(g) : g \in Gens \ {Pin}}
    /\ pend = NoPend /\ run = NoRun /\ sets = {} /\ faults = 0
    /\ \E up \in BOOLEAN : xray = [up |-> up, loaded |-> files]
    /\ receipt \in IF files # Absent /\ xray.up THEN {files["geoip"]} ELSE {0}

(***************************************************************************)
(* vpn-xray-geodata-activate.sh: an inactive service is left alone.        *)
(***************************************************************************)
Restarted == xray' = [xray EXCEPT !.loaded = IF xray.up THEN files ELSE @]

\* A restart that fails, or outlives its 60 seconds and comes up later.
RestartBreaks ==
    /\ xray.up /\ faults < MaxFaults
    /\ faults' = faults + 1
    /\ \E up \in BOOLEAN : xray' = [up |-> up, loaded |-> files]

(***************************************************************************)
(* publish() takes the lock without waiting; recover() looks at a journal  *)
(* that an earlier process left.                                           *)
(***************************************************************************)
Begin(g, stage) ==
    /\ Idle
    /\ run' = [NoRun EXCEPT !.pc = "recover", !.want = g, !.stage = stage]
    /\ UNCHANGED <<files, pend, receipt, sets, xray, faults>>

\* What recover() accepts: a readable snapshot, no unknown entry, and the old
\* bytes of every file that was there.
Known == pend.snap /\ ~pend.litter /\ (pend.phase # "preparing" => Kept \subseteq pend.olds)

RecoverNothing ==
    /\ At("recover") /\ ~pend.there
    /\ Go("read")
    /\ UNCHANGED <<files, pend, receipt, sets, xray, faults>>

RecoverRefuses ==
    /\ At("recover") /\ pend.there /\ ~Known
    /\ run' = NoRun
    /\ UNCHANGED <<files, pend, receipt, sets, xray, faults>>

RecoverPrepared ==
    /\ At("recover") /\ pend.there /\ Known /\ pend.phase = "preparing"
    /\ Go("clear")
    /\ UNCHANGED <<files, pend, receipt, sets, xray, faults>>

RecoverMarks ==
    /\ At("recover") /\ pend.there /\ Known /\ pend.phase # "preparing"
    /\ pend' = [pend EXCEPT !.phase = "recovering"]
    /\ GoAll("restore")
    /\ UNCHANGED <<files, receipt, sets, xray, faults>>

Restore(n) ==
    /\ At("restore") /\ n \in run.todo
    /\ files' = [files EXCEPT ![n] = pend.prev[n]]
    /\ run' = [run EXCEPT !.todo = @ \ {n},
                          !.pc = IF run.todo # {n} THEN "restore"
                                 ELSE IF Kept = Names THEN "reactivate" ELSE "clear"]
    /\ UNCHANGED <<pend, receipt, sets, xray, faults>>

Reactivate ==
    /\ At("reactivate") /\ Restarted
    /\ Go("clear")
    /\ UNCHANGED <<files, pend, receipt, sets, faults>>

\* The journal is kept: manual-recovery-required, or the next run recovers again.
ReactivateFails ==
    /\ At("reactivate") /\ RestartBreaks
    /\ run' = NoRun
    /\ UNCHANGED <<files, pend, receipt, sets>>

\* rmtree(pending); the inner recovery ends the run as publication-compensated.
Clear ==
    /\ At("clear")
    /\ pend' = NoPend
    /\ run' = IF run.inner THEN NoRun ELSE [run EXCEPT !.pc = "read", !.recovered = TRUE]
    /\ UNCHANGED <<files, receipt, sets, xray, faults>>

(***************************************************************************)
(* _publish_locked(): the new journal appears by one rename; downloads and *)
(* old bytes go into it before anything is installed.                      *)
(***************************************************************************)
OpenJournal ==
    /\ At("read")
    /\ pend' = [there |-> TRUE, snap |-> TRUE, litter |-> FALSE, phase |-> "preparing",
                prev |-> files, want |-> run.want, olds |-> {}]
    /\ GoAll("fetch")
    /\ UNCHANGED <<files, receipt, sets, xray, faults>>

Fetch(n) ==
    /\ At("fetch") /\ n \in run.todo
    /\ pend' = [pend EXCEPT !.olds = IF files[n] # 0 THEN @ \cup {n} ELSE @]
    /\ run' = [run EXCEPT !.todo = @ \ {n}, !.pc = IF run.todo = {n} THEN "decide" ELSE @]
    /\ UNCHANGED <<files, receipt, sets, xray, faults>>

\* A failed download, a wrong checksum or a failed write before the phase changes.
FetchFails ==
    /\ run.pc \in {"fetch", "decide"} /\ faults < MaxFaults
    /\ faults' = faults + 1
    /\ Go("drop")
    /\ UNCHANGED <<files, pend, receipt, sets, xray>>

StagePair ==
    /\ At("decide") /\ run.stage
    /\ sets' = sets \cup {run.want}
    /\ Go("drop")
    /\ UNCHANGED <<files, pend, receipt, xray, faults>>

Unchanged == files = Pair(run.want) /\ receipt = run.want /\ ~run.recovered

Skip ==
    /\ At("decide") /\ ~run.stage /\ Unchanged
    /\ Go("drop")
    /\ UNCHANGED <<files, pend, receipt, sets, xray, faults>>

MarkPublishing ==
    /\ At("decide") /\ ~run.stage /\ ~Unchanged
    /\ pend' = [pend EXCEPT !.phase = "publishing"]
    /\ GoAll("install")
    /\ UNCHANGED <<files, receipt, sets, xray, faults>>

Install(n) ==
    /\ At("install") /\ n \in run.todo
    /\ files' = [files EXCEPT ![n] = run.want]
    /\ run' = [run EXCEPT !.todo = @ \ {n}, !.pc = IF run.todo = {n} THEN "marked" ELSE @]
    /\ UNCHANGED <<pend, receipt, sets, xray, faults>>

MarkActivating ==
    /\ At("marked")
    /\ pend' = [pend EXCEPT !.phase = "activating"]
    /\ Go("activate")
    /\ UNCHANGED <<files, receipt, sets, xray, faults>>

Activate ==
    /\ At("activate") /\ Restarted
    /\ run' = [run EXCEPT !.pc = "adopted", !.adopted = xray.up]
    /\ UNCHANGED <<files, pend, receipt, sets, faults>>

Compensate == run' = [run EXCEPT !.pc = "recover", !.inner = TRUE]

ActivateFails ==
    /\ At("activate") /\ RestartBreaks
    /\ Compensate
    /\ UNCHANGED <<files, pend, receipt, sets>>

\* A failed write after the phase changed is compensated at once.
WriteFails ==
    /\ run.pc \in {"install", "marked", "adopted", "receipt"} /\ faults < MaxFaults
    /\ faults' = faults + 1
    /\ Compensate
    /\ UNCHANGED <<files, pend, receipt, sets, xray>>

MarkActivated ==
    /\ At("adopted")
    /\ pend' = [pend EXCEPT !.phase = "activated"]
    /\ Go("receipt")
    /\ UNCHANGED <<files, receipt, sets, xray, faults>>

WriteReceipt ==
    /\ At("receipt")
    /\ receipt' = IF run.adopted THEN run.want ELSE 0
    /\ Go("drop")
    /\ UNCHANGED <<files, pend, sets, xray, faults>>

\* The finally clause: rmtree(pending) and the answer.
Drop ==
    /\ At("drop")
    /\ pend' = NoPend /\ run' = NoRun
    /\ UNCHANGED <<files, receipt, sets, xray, faults>>

(***************************************************************************)
(* Kills.  Between writes they leave what is on disk; inside, a temporary  *)
(* file stays beside snapshot.json or the directory is partly removed.     *)
(***************************************************************************)
Kill ==
    /\ ~Idle /\ faults < MaxFaults
    /\ faults' = faults + 1
    /\ run' = NoRun
    /\ UNCHANGED <<files, pend, receipt, sets, xray>>

\* persist() of a phase, or replace() of an old file, dies before its rename.
CutWrite ==
    /\ Cuts /\ faults < MaxFaults
    /\ \/ run.pc \in {"marked", "adopted"}
       \/ At("decide") /\ ~run.stage /\ ~Unchanged
       \/ At("fetch") /\ \E n \in run.todo : files[n] # 0
       \/ At("recover") /\ pend.there /\ Known /\ pend.phase # "preparing"
    /\ pend' = [pend EXCEPT !.litter = TRUE]
    /\ run' = NoRun /\ faults' = faults + 1
    /\ UNCHANGED <<files, receipt, sets, xray>>

CutRemoval ==
    /\ Cuts /\ faults < MaxFaults
    /\ run.pc \in {"clear", "drop"}
    /\ \E snap \in BOOLEAN, left \in SUBSET pend.olds :
          pend' = [pend EXCEPT !.snap = snap, !.olds = left]
    /\ run' = NoRun /\ faults' = faults + 1
    /\ UNCHANGED <<files, receipt, sets, xray>>

\* Xray ends, and systemd, the watchdog or an operator starts it again.
XrayStops ==
    /\ xray.up /\ faults < MaxFaults
    /\ faults' = faults + 1
    /\ xray' = [xray EXCEPT !.up = FALSE]
    /\ UNCHANGED <<files, pend, receipt, sets, run>>

XrayStarts ==
    /\ ~xray.up
    /\ xray' = [up |-> TRUE, loaded |-> files]
    /\ UNCHANGED <<files, pend, receipt, sets, run, faults>>

Continue ==
    \/ RecoverNothing \/ RecoverRefuses \/ RecoverPrepared \/ RecoverMarks
    \/ \E n \in Names : Restore(n) \/ Fetch(n) \/ Install(n)
    \/ Reactivate \/ Clear \/ OpenJournal \/ StagePair \/ Skip \/ MarkPublishing
    \/ MarkActivating \/ Activate \/ MarkActivated \/ WriteReceipt \/ Drop
Fault == ReactivateFails \/ FetchFails \/ ActivateFails \/ WriteFails \/ Kill \/ CutWrite
         \/ CutRemoval \/ XrayStops
Next == \/ \E g \in Gens, stage \in BOOLEAN : Begin(g, stage)
        \/ Continue \/ Fault \/ XrayStarts

Spec == Init /\ [][Next]_vars

\* The deployed timer asks for the one pin, and a run that started goes on.
Timer == Begin(Pin, FALSE)
TimedNext == Timer \/ Continue \/ Fault \/ XrayStarts

(***************************************************************************)
(* Properties                                                              *)
(***************************************************************************)

\* Whatever was killed or failed before, once no journal is left and nobody runs
\* (the end of publish()), the two files are one generation, and a running Xray has
\* opened exactly them, or there is no prior pair that could be put back.
SettledWhole ==
    Settled => /\ Whole(files)
               /\ (xray.up /\ files # Absent => xray.loaded = files)

\* At every moment a complete pair can be had: the installed files, or the old bytes
\* of a journal that recover() can read (replace() and persist() around _publish_locked).
PairKept ==
    \/ Whole(files)
    \/ /\ pend.there /\ pend.snap /\ pend.phase # "preparing"
       /\ Kept \subseteq pend.olds /\ Whole(pend.prev)

=============================================================================
