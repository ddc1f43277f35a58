---------------------------- MODULE EvidenceState ----------------------------
(***************************************************************************)
(* Recurring PASS evidence of the AWG lane on the sentinel: the installer  *)
(* of a source generation, the launcher with its client handoff, and       *)
(* record_recurring_state() of real-vps-awg-nat.py.  Launcher and          *)
(* installer hold the lane lock; time is counted in units of the schedule. *)
(***************************************************************************)
EXTENDS Naturals, FiniteSets

CONSTANTS Sources,   \* source generations 1..Sources
          MaxRuns,   \* bound: manifests; the last two are made without a kill
          MaxKills,  \* bound: kills and reboots
          MaxTime,   \* bound: the clock
          MaxNonces, \* bound: nonces that anyone still holds
          MaxAge     \* RECURRING_PAIR_MAX_AGE_SECONDS

VARIABLES src, unit, timer,           \* current source, installed producers, timer enabled
          pend, latest, ptmp, ltmp,   \* evidence files
          hist,                       \* history/ and legacy/
          inbox, signed,              \* client handoffs delivered; nonces answered
          proc,                       \* holder of the lane lock
          seen,                       \* evidence that ever had a canonical name
          nid, now, kills
files == <<pend, latest, ptmp, ltmp, hist>>
vars == <<src, unit, timer, pend, latest, ptmp, ltmp, hist, inbox, signed, proc, seen, nid, now,
          kills>>

None == [src |-> 0, id |-> 0, rep |-> 0, t |-> 0, whole |-> FALSE]
\* A manifest of the version before; its source is of no interest.
Legacy == [None EXCEPT !.whole = TRUE]
Torn == [None EXCEPT !.id = 1]
Gen == 1..Sources
Manifest == [src : Gen, id : 1..MaxRuns, rep : 1..MaxRuns, t : 0..MaxTime, whole : {TRUE}]
Has(m) == m # None
\* validate_manifest(), validate_client_acceptance(): a whole PASS of this version.
Valid(m) == m \in Manifest
Fresh(m) == now - m.t <= MaxAge

Nonces == 1..MaxNonces
\* Nonces nobody holds.  They are only compared, so it does not matter which is drawn.
FreeNonces == Nonces \ (signed \cup {e.nonce : e \in inbox})
Idle == [who |-> "idle", pc |-> "none", m |-> None, nonce |-> 0, to |-> 0]
Pcs == {"none", "wait", "lane", "rptmp", "rltmp", "apend", "alatest", "check", "unpend", "write",
        "rename", "drop", "unit", "stop", "ipend", "ilatest", "iptmp", "iltmp", "start"}

TypeOK ==
    /\ src \in Gen /\ unit \in Gen /\ timer \in BOOLEAN
    /\ pend \in Manifest \cup {None} /\ latest \in Manifest \cup {None, Legacy}
    /\ ptmp \in Manifest \cup {None, Torn} /\ ltmp \in Manifest \cup {None, Torn}
    /\ hist \subseteq Manifest \cup {Legacy}
    /\ inbox \subseteq [nonce : Nonces, rep : 1..MaxRuns] /\ signed \subseteq Nonces
    /\ proc.who \in {"idle", "launcher", "installer"} /\ proc.pc \in Pcs
    /\ seen \subseteq Manifest
    /\ nid \in 0..MaxRuns /\ now \in 0..MaxTime /\ kills \in 0..MaxKills
    /\ \A e \in inbox : e.nonce \in signed

Init ==
    /\ src = 1 /\ unit = 1 /\ timer = FALSE
    /\ pend = None /\ latest \in {None, Legacy} /\ ptmp = None /\ ltmp = None
    /\ hist = {} /\ inbox = {} /\ signed = {} /\ proc = Idle /\ seen = {}
    /\ nid = 0 /\ now = 0 /\ kills = 0

Goes(pc) == proc' = [proc EXCEPT !.pc = pc]
Stops == proc' = Idle
At(who, pc) == proc.who = who /\ proc.pc = pc

(***************************************************************************)
(* install-real-vps-awg-nat-local.sh                                       *)
(***************************************************************************)
InstallBegin(s) ==
    /\ proc = Idle
    /\ src' = s
    /\ proc' = [Idle EXCEPT !.who = "installer", !.pc = "unit", !.to = s]
    /\ UNCHANGED <<unit, timer, files, inbox, signed, seen, nid, now, kills>>
InstallUnits ==
    /\ At("installer", "unit") /\ unit' = proc.to /\ Goes("stop")
    /\ UNCHANGED <<src, timer, files, inbox, signed, seen, nid, now, kills>>
\* The timer stops; archive_legacy_latest()
InstallStop ==
    /\ At("installer", "stop") /\ timer' = FALSE
    /\ latest' = IF latest = Legacy THEN None ELSE latest
    /\ hist' = IF latest = Legacy THEN hist \cup {Legacy} ELSE hist
    /\ Goes("ipend")
    /\ UNCHANGED <<src, unit, pend, ptmp, ltmp, inbox, signed, seen, nid, now, kills>>

\* prepare_retained_state(): a name of another generation goes to the history; one of
\* this generation must still be fresh.
Foreign(m) == Has(m) /\ m.src # proc.to
Kept(m, next) == IF Has(m) /\ ~Foreign(m) /\ ~Fresh(m) THEN Stops ELSE Goes(next)
Archived(m) == hist' = IF Foreign(m) THEN hist \cup {m} ELSE hist
InstallPending ==
    /\ At("installer", "ipend") /\ Archived(pend) /\ Kept(pend, "ilatest")
    /\ pend' = IF Foreign(pend) THEN None ELSE pend
    /\ UNCHANGED <<src, unit, timer, latest, ptmp, ltmp, inbox, signed, seen, nid, now, kills>>
InstallLatest ==
    /\ At("installer", "ilatest") /\ Archived(latest) /\ Kept(latest, "iptmp")
    /\ latest' = IF Foreign(latest) THEN None ELSE latest
    /\ UNCHANGED <<src, unit, timer, pend, ptmp, ltmp, inbox, signed, seen, nid, now, kills>>
\* _recover_state_temporary(): what is torn or old is discarded.
Recovered(m) == IF Valid(m) /\ Fresh(m) THEN m ELSE None
InstallTemps ==
    /\ \/ /\ At("installer", "iptmp") /\ Archived(Recovered(ptmp)) /\ Goes("iltmp")
          /\ ptmp' = IF Foreign(Recovered(ptmp)) THEN None ELSE Recovered(ptmp)
          /\ UNCHANGED ltmp
       \/ /\ At("installer", "iltmp") /\ Archived(Recovered(ltmp)) /\ Goes("start")
          /\ ltmp' = IF Foreign(Recovered(ltmp)) THEN None ELSE Recovered(ltmp)
          /\ UNCHANGED ptmp
    /\ UNCHANGED <<src, unit, timer, pend, latest, inbox, signed, seen, nid, now, kills>>
InstallStart ==
    /\ At("installer", "start") /\ timer' = TRUE /\ Stops
    /\ UNCHANGED <<src, unit, files, inbox, signed, seen, nid, now, kills>>

(***************************************************************************)
(* run-real-vps-awg-nat-local.sh                                           *)
(***************************************************************************)
\* Installed producers match the source; create_client_acceptance_request()
LaneBegin ==
    /\ proc = Idle /\ unit = src /\ nid < MaxRuns
    /\ \E n \in FreeNonces : (\A k \in FreeNonces : n <= k) /\
         proc' = [Idle EXCEPT !.who = "launcher", !.pc = "wait", !.nonce = n, !.to = src]
    /\ UNCHANGED <<src, unit, timer, files, inbox, signed, seen, nid, now, kills>>

\* The client answers a request with a new report, or with the one before; the
\* relay may deliver it late.
Sign(rep) ==
    /\ At("launcher", "wait") /\ proc.nonce \notin signed /\ rep \in {nid, nid + 1}
    /\ signed' = signed \cup {proc.nonce}
    /\ inbox' = inbox \cup {[nonce |-> proc.nonce, rep |-> rep]}
    /\ UNCHANGED <<src, unit, timer, files, proc, seen, nid, now, kills>>

\* validate_client_acceptance_handoff(): nonce and invocation of this request, signed.
Answers(e) == e.nonce = proc.nonce
\* consume_client_acceptance_handoff()
Consume(e) ==
    /\ At("launcher", "wait") /\ e \in inbox /\ Answers(e)
    /\ inbox' = inbox \ {e} /\ signed' = signed \ {e.nonce}
    /\ proc' = [proc EXCEPT !.pc = "lane", !.m = [None EXCEPT !.rep = e.rep]]
    /\ UNCHANGED <<src, unit, timer, files, seen, nid, now, kills>>

\* No handoff in time, a refused one, or a lane without PASS; the trap removes the handoff.
GivesUp ==
    /\ proc.who = "launcher" /\ proc.pc \in {"wait", "lane"} /\ Stops
    /\ inbox' = {e \in inbox : e.nonce # proc.nonce} /\ signed' = signed \ {proc.nonce}
    /\ UNCHANGED <<src, unit, timer, files, seen, nid, now, kills>>

\* The lane passes: main() writes the manifest, and it is recorded.
LanePasses ==
    /\ At("launcher", "lane")
    /\ nid' = nid + 1
    /\ proc' = [proc EXCEPT !.pc = "rptmp",
                            !.m = [src |-> proc.to, id |-> nid + 1, rep |-> @.rep, t |-> now,
                                   whole |-> TRUE]]
    /\ UNCHANGED <<src, unit, timer, files, inbox, signed, seen, now, kills>>

(***************************************************************************)
(* record_recurring_state()                                                *)
(***************************************************************************)
\* validate_recurring_pair(): one source, ordered, distinct invocations and reports.
Pair(a, b) ==
    /\ Valid(a) /\ Valid(b) /\ Fresh(a) /\ Fresh(b)
    /\ a.src = b.src /\ a.id < b.id /\ a.rep < b.rep

Recording(pc) == At("launcher", pc)
RecoverPending ==
    /\ Recording("rptmp")
    /\ LET m == Recovered(ptmp) IN
         IF Has(m) /\ (Has(pend) \/ Has(latest))
           THEN Stops /\ UNCHANGED <<ptmp, pend, seen>>
           ELSE /\ Goes("rltmp") /\ ptmp' = None
                /\ pend' = IF Has(m) THEN m ELSE pend
                /\ seen' = IF Has(m) THEN seen \cup {m} ELSE seen
    /\ UNCHANGED <<src, unit, timer, latest, ltmp, hist, inbox, signed, nid, now, kills>>
RecoverLatest ==
    /\ Recording("rltmp")
    /\ LET m == Recovered(ltmp)  prior == IF Has(latest) THEN latest ELSE pend IN
         IF Has(m) /\ ~Pair(prior, m) THEN Stops /\ UNCHANGED <<ltmp, latest, seen>>
         ELSE /\ Goes("apend") /\ ltmp' = None
              /\ latest' = IF Has(m) THEN m ELSE latest
              /\ seen' = IF Has(m) THEN seen \cup {m} ELSE seen
    /\ UNCHANGED <<src, unit, timer, pend, ptmp, hist, inbox, signed, nid, now, kills>>

\* Both are read first: a name that does not hold a manifest of this version ends it.
Readable == \A m \in {pend, latest} : Has(m) => Valid(m)
\* _archive_prior_generation()
ArchivePending ==
    /\ Recording("apend") /\ Archived(pend)
    /\ IF Readable THEN Goes("alatest") /\ pend' = IF Foreign(pend) THEN None ELSE pend
       ELSE Stops /\ UNCHANGED pend
    /\ UNCHANGED <<src, unit, timer, latest, ptmp, ltmp, inbox, signed, seen, nid, now, kills>>
ArchiveLatest ==
    /\ Recording("alatest") /\ Archived(latest) /\ Goes("check")
    /\ latest' = IF Foreign(latest) THEN None ELSE latest
    /\ UNCHANGED <<src, unit, timer, pend, ptmp, ltmp, inbox, signed, seen, nid, now, kills>>

\* Retained evidence is fresh; a pending one beside the latest has been published.
Check ==
    /\ Recording("check")
    /\ IF \/ \E m \in {pend, latest} : Has(m) /\ ~Fresh(m)
          \/ Has(pend) /\ Has(latest) /\ ~Pair(pend, latest)
         THEN Stops
         ELSE Goes(IF Has(pend) /\ Has(latest) THEN "unpend" ELSE "write")
    /\ UNCHANGED <<src, unit, timer, files, inbox, signed, seen, nid, now, kills>>
UnlinkPending ==
    /\ Recording("unpend") /\ pend' = None /\ Goes("write")
    /\ UNCHANGED <<src, unit, timer, latest, ptmp, ltmp, hist, inbox, signed, seen, nid, now,
                   kills>>

\* _atomic_state_manifest(): temporary, rename.  O_EXCL: it must not be there.
ToLatest == Has(pend) \/ Has(latest)
Prior == IF Has(latest) THEN latest ELSE pend
WriteTemp ==
    /\ Recording("write")
    /\ IF ToLatest
         THEN /\ UNCHANGED ptmp
              /\ IF Pair(Prior, proc.m) /\ ltmp = None THEN ltmp' = proc.m /\ Goes("rename")
                 ELSE Stops /\ UNCHANGED ltmp
         ELSE /\ UNCHANGED ltmp
              /\ IF ptmp = None THEN ptmp' = proc.m /\ Goes("rename")
                 ELSE Stops /\ UNCHANGED ptmp
    /\ UNCHANGED <<src, unit, timer, pend, latest, hist, inbox, signed, seen, nid, now, kills>>
Rename ==
    /\ Recording("rename")
    /\ IF ToLatest THEN latest' = ltmp /\ ltmp' = None /\ Goes("drop") /\ UNCHANGED <<pend, ptmp>>
       ELSE pend' = ptmp /\ ptmp' = None /\ Stops /\ UNCHANGED <<latest, ltmp>>
    /\ seen' = seen \cup {proc.m}
    /\ UNCHANGED <<src, unit, timer, hist, inbox, signed, nid, now, kills>>
DropPending ==
    /\ Recording("drop") /\ pend' = None /\ Stops
    /\ UNCHANGED <<src, unit, timer, latest, ptmp, ltmp, hist, inbox, signed, seen, nid, now,
                   kills>>

(***************************************************************************)
(* Environment                                                             *)
(***************************************************************************)
\* A kill at any point; in the middle of a write it leaves a torn temporary.
Kill ==
    /\ proc # Idle /\ kills < MaxKills /\ nid < MaxRuns - 1
    /\ kills' = kills + 1 /\ Stops
    /\ \/ UNCHANGED files
       \/ /\ Recording("rename") /\ UNCHANGED <<pend, latest, hist>>
          /\ ptmp' = (IF Has(ptmp) THEN Torn ELSE ptmp)
          /\ ltmp' = (IF Has(ltmp) THEN Torn ELSE ltmp)
    /\ UNCHANGED <<src, unit, timer, inbox, signed, seen, nid, now>>
Tick == now < MaxTime /\ now' = now + 1
        /\ UNCHANGED <<src, unit, timer, files, inbox, signed, proc, seen, nid, kills>>
\* An answer of an invocation that is gone is cleared by the relay.
Clears ==
    /\ proc = Idle /\ (inbox # {} \/ signed # {})
    /\ inbox' = {} /\ signed' = {}
    /\ UNCHANGED <<src, unit, timer, files, proc, seen, nid, now, kills>>

InstallStep ==
    InstallUnits \/ InstallStop \/ InstallPending \/ InstallLatest \/ InstallTemps \/ InstallStart
Record ==
    \/ RecoverPending \/ RecoverLatest \/ ArchivePending \/ ArchiveLatest \/ Check
    \/ UnlinkPending \/ WriteTemp \/ Rename \/ DropPending
Handoff == (\E rep \in 1..MaxRuns : Sign(rep)) \/ (\E e \in inbox : Consume(e))
Next ==
    \/ \E s \in Gen : InstallBegin(s)
    \/ InstallStep \/ LaneBegin \/ Handoff \/ GivesUp \/ LanePasses \/ Record
    \/ Kill \/ Tick \/ Clears

Spec == Init /\ [][Next]_vars

(***************************************************************************)
(* Properties                                                              *)
(***************************************************************************)
\* Whatever is killed, latest.json is backed: an earlier PASS of the same source with an
\* older report of its own was recorded before it.
LatestIsSecond ==
    Has(latest) /\ latest # Legacy =>
        \E m \in seen : m.src = latest.src /\ m.id < latest.id /\ m.rep < latest.rep

\* Evidence that was recorded is in the state, in the history, or superseded by a later
\* PASS of its source.
NothingLost ==
    \A m \in seen :
        \/ m \in {pend, latest} \cup hist
        \/ \E n \in seen : n.src = m.src /\ n.id > m.id

=============================================================================
