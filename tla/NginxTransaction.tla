-------------------------- MODULE NginxTransaction --------------------------
(***************************************************************************)
(* Publications of the nginx configuration: nginx_transaction.py, the site *)
(* journal that spans a whole deployment, and the public certificate       *)
(* issuer activate_public_tls.py that shares its lock.                     *)
(*                                                                         *)
(* Every writer takes the unit's lock without waiting, so one run is       *)
(* active at a time and a refused start changes nothing.  What makes the   *)
(* program hard is what a dead run leaves: pending.json (one publication), *)
(* site.json (a deployment), public-tls-issuer.json (a certificate request *)
(* that may outlive its coordinator), half of the files, or a receipt that *)
(* claims what nginx does not serve.                                       *)
(*                                                                         *)
(* A request publishes one version of all the files of its owner, and      *)
(* starts and enables nginx; version Absent retires them and does neither. *)
(* These are the two shapes the roles use.                                 *)
(***************************************************************************)
EXTENDS Naturals, FiniteSets

CONSTANTS Owners,        \* names of publishers, receipts are kept per owner
          PathsOf,       \* the files each owner publishes
          SiteOwners,    \* SITE_OWNERS: the owners a deployment captures
          Tls,           \* the owner "public-tls"
          Versions,      \* contents a file may have
          Revocations,   \* what a deployment may carry; one of them is none
          Ops,           \* the commands an instance calls
          TimerEnabled,  \* vpn-public-tls.timer runs (after the first commit)
          MaxFaults      \* kills, reboots, failing commands, starts by hand

OwnersAssumption ==
    /\ SiteOwners \subseteq Owners /\ Tls \in SiteOwners
    /\ PathsOf \in [Owners -> SUBSET (UNION {PathsOf[o] : o \in Owners})]
    /\ \A o, q \in Owners : o # q => PathsOf[o] \cap PathsOf[q] = {}
    /\ MaxFaults \in Nat /\ TimerEnabled \in BOOLEAN

Absent == 0
Contents == Versions \cup {Absent}
Paths == UNION {PathsOf[o] : o \in Owners}
SitePaths == UNION {PathsOf[o] : o \in SiteOwners}

NoReceipt == [kind |-> "none", v |-> Absent]
Active(v) == [kind |-> "active", v |-> v]
Inactive == [kind |-> "inactive", v |-> Absent]
Receipts == {NoReceipt, Inactive} \cup {Active(v) : v \in Contents}

Off == [on |-> FALSE, cfg |-> [p \in Paths |-> Absent]]
Serving(f) == [on |-> TRUE, cfg |-> f]

None == [phase |-> "none"]

Publishing == {"publish", "issue", "renew", "retire"}
Issuing == {"issue", "renew"}
SiteOps == {"begin", "restore", "commit", "recover_commit"}

Jobs == [op : {"publish"}, o : Owners, v : Contents, rev : {"none"}]
        \cup [op : Issuing, o : {Tls}, v : Versions, rev : {"none"}]
        \cup [op : {"retire"}, o : {Tls}, v : {Absent}, rev : {"none"}]
        \cup [op : SiteOps, o : {Tls}, v : {Absent}, rev : Revocations]

VARIABLES file,      \* content of every published path
          receipt,   \* <owner>.activated.json
          nginx,     \* running or not, and the configuration it has loaded
          enabled,   \* the unit starts at boot
          pending,   \* pending.json
          site,      \* site.json
          lease,     \* public-tls-issuer.json: none, of this boot or earlier
          issuer,    \* the issuer's transient unit
          job, pc,   \* the run that holds the lock, and where it is
          left,      \* paths or owners its loop has still to write
          facts,     \* what the run found: recovered, changed, due, issued
          outer,     \* the egress and firewall journals of the deployment
          faults

vars == <<file, receipt, nginx, enabled, pending, site, lease, issuer, job,
          pc, left, facts, outer, faults>>
disk == <<file, receipt>>
unit == <<nginx, enabled>>
tls == <<lease, issuer>>
other == <<outer, faults>>
run == <<job, pc, left, facts>>

NoFacts == [recovered |-> FALSE, changed |-> FALSE, due |-> FALSE, on |-> FALSE,
            issued |-> "no"]
NoJob == [op |-> "none", o |-> Tls, v |-> Absent, rev |-> "none"]

Idle == pc = "idle"
Starts(j) == j.v # Absent

Init == /\ file = [p \in Paths |-> Absent]
        /\ receipt = [o \in Owners |-> NoReceipt]
        /\ nginx = Off /\ enabled = FALSE
        /\ pending = None /\ site = None
        /\ lease = "none" /\ issuer = "none"
        /\ job = NoJob /\ pc = "idle" /\ left = {} /\ facts = NoFacts
        /\ outer = "closed" /\ faults = 0

Goto(l) == pc' = l /\ UNCHANGED <<job, left, facts>>
Leave == pc' = "idle" /\ job' = NoJob /\ left' = {} /\ facts' = NoFacts

-----------------------------------------------------------------------------
(* The lock, and what a start is refused for. *)

SiteAdmits(j) ==
    CASE j.op = "begin" -> site = None
      [] j.op = "restore" -> site # None /\ site.phase # "committing"
      [] j.op = "commit" -> site # None /\ site.phase # "restoring" /\ pending = None
      [] j.op = "recover_commit" -> site # None /\ site.phase = "committing"
      [] OTHER -> TRUE

SameRevocation(j) ==
    (j.op \in SiteOps /\ site # None /\ site.phase = "committing") =>
        site.rev = j.rev

\* A receipt that is there vouches for all the files of its owner.
Vouched(o) == receipt[o] # NoReceipt => \A p \in PathsOf[o] : file[p] = receipt[o].v

Start(j) ==
    /\ Idle
    /\ lease = "none" \/ j.op \in Issuing \cup {"retire"}
    /\ SiteAdmits(j) /\ SameRevocation(j)
    /\ job' = j /\ left' = {} /\ facts' = NoFacts
    /\ pc' = CASE j.op \in Issuing \cup {"retire"} -> "lease"
               [] j.op = "publish" -> "admit"
               [] j.op = "begin" /\ pending # None -> "recover"
               [] j.op = "begin" -> "capture"
               [] j.op = "restore" /\ pending # None -> "recover"
               [] j.op = "restore" -> "verify"
               [] OTHER -> "decide"
    /\ UNCHANGED <<disk, unit, pending, site, tls, other>>

-----------------------------------------------------------------------------
(* recover: a pending publication is taken back before anything else. *)

After == CASE job.op \in Publishing -> "plan"
           [] job.op = "restore" -> "verify"
           [] OTHER -> "idle"

RecoverAdmits ==
    /\ receipt[pending.o] \in {pending.receipt}
        \cup (IF pending.phase \in {"activated", "recovering"}
              THEN {Active(pending.v)}
                   \cup (IF ~pending.on /\ pending.v = Absent THEN {NoReceipt} ELSE {})
              ELSE {})
    /\ \A p \in PathsOf[pending.o] : file[p] \in {pending.prev[p], pending.v}
    /\ job.op = "restore" => pending.o \in SiteOwners

Recover ==
    /\ pc = "recover"
    /\ IF ~RecoverAdmits
       THEN Leave /\ UNCHANGED pending
       ELSE IF pending.phase = "prepared"
       THEN Goto("r_receipt") /\ UNCHANGED pending
       ELSE /\ pending' = [pending EXCEPT !.phase = "recovering"]
            /\ Goto("r_stop")
    /\ UNCHANGED <<disk, unit, site, tls, other>>

\* Stop a unit that was not running when the writer began, then write back
\* every path that differs.
WriteBack(prior, paths, l) ==
    /\ nginx' = IF prior.on THEN nginx ELSE Off
    /\ left' = paths /\ pc' = l
    /\ UNCHANGED <<disk, enabled, pending, site, tls, job, facts, other>>

WritePath(l, content) ==
    /\ pc = l /\ left # {}
    /\ \E p \in left : file' = [file EXCEPT ![p] = content[p]] /\ left' = left \ {p}
    /\ UNCHANGED <<receipt, unit, pending, site, tls, job, pc, facts, other>>

\* Enablement goes back, and a unit that was running is restarted.
Restart(prior, l) ==
    /\ enabled' = prior.enabled
    /\ nginx' = IF prior.on THEN Serving(file) ELSE nginx
    /\ Goto(l)
    /\ UNCHANGED <<disk, pending, site, tls, other>>

RecoverStop == /\ pc = "r_stop"
               /\ WriteBack(pending, {p \in PathsOf[pending.o] : file[p] # pending.prev[p]}, "r_files")
RecoverFile == WritePath("r_files", pending.prev)
RecoverStart == pc = "r_files" /\ left = {} /\ Restart(pending, "r_receipt")

RecoverReceipt ==
    /\ pc = "r_receipt"
    /\ receipt' = [receipt EXCEPT ![pending.o] = pending.receipt]
    /\ Goto("r_clear")
    /\ UNCHANGED <<file, unit, pending, site, tls, other>>

RecoverClear ==
    /\ pc = "r_clear" /\ pending' = None
    /\ IF After = "idle" THEN Leave
       ELSE pc' = After /\ facts' = [facts EXCEPT !.recovered = TRUE]
            /\ UNCHANGED <<job, left>>
    /\ UNCHANGED <<disk, unit, site, tls, other>>

-----------------------------------------------------------------------------
(* The site journal admits a write before the publication's own journal. *)

VerifySite == /\ \A p \in SitePaths : file[p] \in site.allowed[p]
              /\ \A o \in SiteOwners : receipt[o] \in site.receiptsAllowed[o]

Authorizes(j) ==
    site = None \/ (/\ j.o \in SiteOwners /\ site.phase = "open" /\ VerifySite
                    /\ \A p \in PathsOf[j.o] : Cardinality(site.allowed[p] \cup {j.v}) <= 4)

\* Mutation: only the receipt is admitted, the files are left as captured.
AuthorizedReceiptOnly(j, r) ==
    IF site = None THEN None
    ELSE [site EXCEPT !.receiptsAllowed[j.o] = @ \cup {r, NoReceipt}]

Authorized(j, r) ==
    IF site = None THEN None
    ELSE [site EXCEPT
            !.allowed = [p \in SitePaths |->
                            IF p \in PathsOf[j.o] THEN @[p] \cup {j.v} ELSE @[p]],
            !.receiptsAllowed[j.o] = @ \cup {r, NoReceipt}]

-----------------------------------------------------------------------------
(* publish *)

Admit ==
    /\ pc = "admit"
    /\ IF lease # "none" \/ (job.op = "renew" /\ site # None) THEN Leave
       ELSE Goto(IF pending = None THEN "plan" ELSE "recover")
    /\ UNCHANGED <<disk, unit, pending, site, tls, other>>

Changed(j) == \E p \in PathsOf[j.o] : file[p] # j.v
\* Witnesses must hold, except for a file that is gone and is to go anyway.
Foreign(j) == receipt[j.o] # NoReceipt /\ \E p \in PathsOf[j.o] :
                file[p] # receipt[j.o].v /\ ~(file[p] = Absent /\ j.v = Absent)
Retired(j) == ~Vouched(j.o) /\ ~Foreign(j)
Due(j) == Retired(j) \/ receipt[j.o] # Active(j.v)
\* Nothing to change, nothing to start: most retirements end here.
Nothing(j) == ~Starts(j) /\ ~Changed(j) /\ ~facts.recovered

\* A receipt of an inactive unit is taken over without a reload when the
\* master started after it was written: ticks and boots are a choice here.
Adoptable(j) == ~Starts(j) /\ ~Changed(j) /\ ~Retired(j) /\ nginx.on
                /\ receipt[j.o] = Inactive

PlanRefused ==
    /\ pc = "plan"
    /\ Foreign(job) \/ (~Authorizes(job) /\ ~(Nothing(job) /\ nginx.on /\ ~Due(job)))
    /\ Leave
    /\ UNCHANGED <<disk, unit, pending, site, tls, other>>

PlanUnchanged ==
    /\ pc = "plan" /\ ~Foreign(job) /\ Nothing(job) /\ nginx.on /\ ~Due(job)
    /\ Leave
    /\ UNCHANGED <<disk, unit, pending, site, tls, other>>

PlanInactive ==
    /\ pc = "plan" /\ ~Foreign(job) /\ Nothing(job) /\ ~nginx.on /\ Authorizes(job)
    /\ site' = Authorized(job, Inactive)
    /\ Goto("witness")
    /\ UNCHANGED <<disk, unit, pending, tls, other>>

Witness ==
    /\ pc = "witness"
    /\ receipt' = [receipt EXCEPT ![job.o] = Inactive]
    /\ Leave
    /\ UNCHANGED <<file, unit, pending, site, tls, other>>

PlanWrite ==
    /\ pc = "plan" /\ ~Foreign(job) /\ Authorizes(job)
    /\ ~(Nothing(job) /\ (~nginx.on \/ ~Due(job)))
    /\ site' = Authorized(job, Active(job.v))
    /\ \E adopted \in BOOLEAN :
         /\ adopted => Adoptable(job)
         /\ facts' = [facts EXCEPT !.changed = Changed(job),
                                   !.due = Due(job) /\ ~adopted,
                                   !.on = nginx.on]
    /\ pc' = "prepare" /\ UNCHANGED <<job, left>>
    /\ UNCHANGED <<disk, unit, pending, tls, other>>

Prepare ==
    /\ pc = "prepare"
    /\ pending' = [phase |-> "prepared", o |-> job.o, v |-> job.v,
                   prev |-> [p \in PathsOf[job.o] |-> file[p]],
                   on |-> facts.on, enabled |-> enabled,
                   receipt |-> receipt[job.o]]
    /\ Goto("validate")
    /\ UNCHANGED <<disk, unit, site, tls, other>>

\* nginx -t on the candidate; the snapshot of a refused one is disposable.
Validate ==
    /\ pc = "validate"
    /\ \/ /\ pending' = [pending EXCEPT !.phase = "publishing"]
          /\ left' = {p \in PathsOf[job.o] : file[p] # job.v}
          /\ pc' = "files" /\ UNCHANGED <<job, facts>>
       \/ pending' = None /\ Leave
    /\ UNCHANGED <<disk, unit, site, tls, other>>

PublishFile == WritePath("files", [p \in Paths |-> job.v])

Enable ==
    /\ pc = "files" /\ left = {}
    /\ enabled' = (enabled \/ Starts(job))
    /\ pending' = [pending EXCEPT !.phase = "activating"]
    /\ Goto("activate")
    /\ UNCHANGED <<disk, nginx, site, tls, other>>

Reloads == IF pending.on THEN facts.changed \/ facts.due ELSE Starts(job)

\* Reload or start, and wait until fresh workers have adopted the files.
\* A failed activation leaves the old workers or none.
Activate ==
    /\ pc = "activate"
    /\ \/ /\ nginx' = IF Reloads THEN Serving(file) ELSE nginx
          /\ Goto("accept")
       \/ Reloads /\ nginx' \in {nginx, Off} /\ Goto("undo")
    /\ UNCHANGED <<disk, enabled, pending, site, tls, other>>

Accept ==
    /\ pc = "accept"
    /\ pending' = [pending EXCEPT !.phase = "activated"]
    /\ Goto("receipt")
    /\ UNCHANGED <<disk, unit, site, tls, other>>

\* What nginx has not adopted is not vouched for.
KeepReceipt ==
    /\ pc = "receipt"
    /\ receipt' = [receipt EXCEPT ![job.o] = IF pending.on \/ Starts(job)
                                             THEN Active(job.v) ELSE NoReceipt]
    /\ Goto("close")
    /\ UNCHANGED <<file, unit, pending, site, tls, other>>

Close ==
    /\ pc = "close" /\ pending' = None /\ Leave
    /\ UNCHANGED <<disk, unit, site, tls, other>>

(* Compensation of a publication that failed in this run. *)

Undo == /\ pc = "undo"
        /\ WriteBack(pending, {p \in PathsOf[job.o] : file[p] # pending.prev[p]}, "u_files")
UndoFile == WritePath("u_files", pending.prev)
UndoStart == pc = "u_files" /\ left = {} /\ Restart(pending, "close")

-----------------------------------------------------------------------------
(* The site journal: begin, restore, commit, recover-commit. *)

Unclaimed == \E o \in SiteOwners :
    \/ ~Vouched(o)
    \/ receipt[o] = NoReceipt /\ \E p \in PathsOf[o] : file[p] # Absent

Capture ==
    /\ pc = "capture"
    /\ site' = IF pending # None \/ Unclaimed THEN site
               ELSE [phase |-> "open", files |-> [p \in SitePaths |-> file[p]],
                     receipts |-> [o \in SiteOwners |-> receipt[o]],
                     allowed |-> [p \in SitePaths |-> {file[p]}],
                     receiptsAllowed |-> [o \in SiteOwners |-> {receipt[o]}],
                     on |-> nginx.on, enabled |-> enabled, rev |-> "none"]
    /\ outer' = IF site' = None THEN outer ELSE "open"
    /\ Leave
    /\ UNCHANGED <<disk, unit, pending, tls, faults>>

Verify ==
    /\ pc = "verify"
    /\ IF VerifySite THEN site' = [site EXCEPT !.phase = "restoring"] /\ Goto("s_stop")
                     ELSE Leave /\ UNCHANGED site
    /\ UNCHANGED <<disk, unit, pending, tls, other>>

SiteStop == /\ pc = "s_stop"
            /\ WriteBack(site, {p \in SitePaths : file[p] # site.files[p]}, "s_files")
SiteFile == WritePath("s_files", site.files)

SiteFilesDone ==
    /\ pc = "s_files" /\ left = {}
    /\ left' = SiteOwners /\ pc' = "s_receipts"
    /\ UNCHANGED <<disk, unit, pending, site, tls, job, facts, other>>

SiteReceipt ==
    /\ pc = "s_receipts" /\ left # {}
    /\ \E o \in left : /\ receipt' = [receipt EXCEPT ![o] = site.receipts[o]]
                       /\ left' = left \ {o}
    /\ UNCHANGED <<file, unit, pending, site, tls, job, pc, facts, other>>

SiteStart == pc = "s_receipts" /\ left = {} /\ Restart(site, "s_clear")

\* The accepted files are frozen before the other journals are closed: a
\* retry may only roll the decision forward.
Decide ==
    /\ pc = "decide"
    /\ IF VerifySite /\ \A o \in SiteOwners : Vouched(o)
       THEN /\ site' = IF site.phase = "committing" THEN site
                       ELSE [site EXCEPT
                               !.phase = "committing", !.rev = job.rev,
                               !.allowed = [p \in SitePaths |-> {file[p]}],
                               !.receiptsAllowed = [o \in SiteOwners |-> {receipt[o]}]]
            /\ Goto("finish")
       ELSE Leave /\ UNCHANGED site
    /\ UNCHANGED <<disk, unit, pending, tls, other>>

\* finish of the egress route and of the firewall: their journals close for
\* good, and the rest of the deployment can no longer be taken back.
Finish == /\ pc = "finish" /\ Goto("s_clear") /\ outer' = "closed"
          /\ UNCHANGED <<disk, unit, pending, site, tls, faults>>

SiteClear ==
    /\ pc = "s_clear" /\ site' = None /\ Leave
    /\ UNCHANGED <<disk, unit, pending, tls, other>>

-----------------------------------------------------------------------------
(* The certificate issuer: a transient unit that survives its coordinator. *)

Missing == issuer \in {"none", "submitted"}     \* LoadState=not-found

LeaseClear == Missing /\ lease = "earlier"

\* recover_issuer, before a request and again after it.
Lease ==
    /\ pc = "lease"
    /\ CASE lease = "none" -> Goto("leased") /\ UNCHANGED issuer
         [] lease # "none" /\ LeaseClear -> Goto("unlease") /\ UNCHANGED issuer
         [] lease # "none" /\ issuer = "ended" -> issuer' = "none" /\ Goto("unlease")
         [] OTHER -> Leave /\ UNCHANGED issuer
    /\ UNCHANGED <<disk, unit, pending, site, lease, other>>

Unlease ==
    /\ pc = "unlease" /\ lease' = "none" /\ Goto("leased")
    /\ UNCHANGED <<disk, unit, pending, site, issuer, other>>

\* Lease closed: go on to the request, or to the publication after it.
Leased ==
    /\ pc = "leased"
    /\ IF job.op = "retire"
       THEN IF receipt[Tls] = NoReceipt THEN Leave ELSE Goto("admit")
       ELSE IF facts.issued = "yes" THEN Goto("admit")
       ELSE IF facts.issued = "failed" \/ (job.op = "renew" /\ site # None) \/ ~Missing THEN Leave
       ELSE Goto("claim")
    /\ UNCHANGED <<disk, unit, pending, site, tls, other>>

Claim ==
    /\ pc = "claim" /\ lease' = "this" /\ Goto("launch")
    /\ UNCHANGED <<disk, unit, pending, site, issuer, other>>

\* systemd-run; the request is submitted but the unit is not there yet.
Launch ==
    /\ pc = "launch" /\ issuer' = "submitted" /\ Goto("poll")
    /\ UNCHANGED <<disk, unit, pending, site, lease, other>>

\* systemd-run fails or times out; whether it submitted is not known.
LaunchFails ==
    /\ pc = "launch" /\ faults < MaxFaults /\ faults' = faults + 1
    /\ issuer' \in {"none", "submitted"}
    /\ pc' = "lease" /\ facts' = [facts EXCEPT !.issued = "failed"]
    /\ UNCHANGED <<disk, unit, pending, site, lease, job, left, outer>>

\* The unit has ended; only a successful one leads to a publication.
Poll ==
    /\ pc = "poll" /\ issuer = "ended"
    /\ pc' = "lease" /\ UNCHANGED <<job, left>>
    /\ \E r \in {"yes", "failed"} : facts' = [facts EXCEPT !.issued = r]
    /\ UNCHANGED <<disk, unit, pending, site, tls, other>>

IssuerRuns ==
    /\ issuer' = CASE issuer = "submitted" -> "running"
                   [] issuer = "running" -> "ended"
                   [] OTHER -> issuer
    /\ issuer \in {"submitted", "running"}
    /\ UNCHANGED <<disk, unit, pending, site, lease, run, other>>

-----------------------------------------------------------------------------
(* Failures. *)

Faulty == faults < MaxFaults /\ faults' = faults + 1

\* A write raises: the run compensates itself.
WriteFails ==
    /\ pc = "files" /\ Faulty /\ Goto("undo")
    /\ UNCHANGED <<disk, unit, pending, site, tls, outer>>

\* A command of a recovery, a compensation, a restore or a finish fails: the
\* run ends and its journal stays.
CommandFails ==
    /\ (pc \in {"r_files", "u_files", "s_receipts"} /\ left = {}) \/ pc = "finish"
    /\ Faulty /\ Leave
    /\ nginx' \in {nginx, Off}
    /\ UNCHANGED <<disk, enabled, pending, site, tls, outer>>

Kill == /\ ~Idle /\ Faulty /\ Leave
        /\ UNCHANGED <<disk, unit, pending, site, tls, outer>>

Boot == /\ nginx' = IF enabled THEN Serving(file) ELSE Off
        /\ lease' = IF lease = "this" THEN "earlier" ELSE lease
        /\ issuer' = "none"
        /\ Leave
        /\ UNCHANGED <<disk, enabled, pending, site, outer>>

Reboot == Faulty /\ Boot

\* The reboot that an unconfirmed launch asks for.
AskedReboot == /\ Idle /\ lease = "this" /\ issuer = "none"
               /\ Boot /\ UNCHANGED faults

\* nginx stops between two runs, or is started by hand: between two runs, or
\* while a retirement that leaves it alone goes forward.
Forward == {"plan", "witness", "prepare", "validate", "files", "activate",
            "accept", "receipt", "close"}
Operator ==
    /\ Faulty
    /\ IF nginx.on THEN Idle /\ nginx' = Off
       ELSE /\ Idle \/ (pc \in Forward /\ job.op = "publish" /\ ~Starts(job))
            /\ nginx' = Serving(file)
    /\ UNCHANGED <<disk, enabled, pending, site, tls, run, outer>>

-----------------------------------------------------------------------------
Recovering == Recover \/ RecoverStop \/ RecoverFile \/ RecoverStart
              \/ RecoverReceipt \/ RecoverClear
Publication == Admit \/ PlanRefused \/ PlanUnchanged \/ PlanInactive \/ Witness
               \/ PlanWrite \/ Prepare \/ Validate \/ PublishFile \/ Enable
               \/ Activate \/ Accept \/ KeepReceipt \/ Close
               \/ Undo \/ UndoFile \/ UndoStart
Restoring == Verify \/ SiteStop \/ SiteFile \/ SiteFilesDone \/ SiteReceipt
             \/ SiteStart \/ SiteClear
Committing == Capture \/ Decide \/ Finish
Issuance == Lease \/ Unlease \/ Leased \/ Claim \/ Launch \/ Poll

Step == Recovering \/ Publication \/ Restoring \/ Committing \/ Issuance

Failure == WriteFails \/ CommandFails \/ LaunchFails \/ Kill \/ Reboot

Calls == {j \in Jobs : j.op \in Ops /\ (j.op = "renew" => TimerEnabled)}

Next == \/ \E j \in Calls : Start(j)
        \/ Step \/ IssuerRuns \/ Failure \/ AskedReboot \/ Operator

Spec == Init /\ [][Next]_vars

-----------------------------------------------------------------------------
(* Properties *)

PendingRecords ==
    UNION {[phase : {"prepared", "publishing", "activating", "activated", "recovering"},
            o : {o}, v : Contents, prev : [PathsOf[o] -> Contents],
            on : BOOLEAN, enabled : BOOLEAN, receipt : Receipts] : o \in Owners}

\* Types of the files, receipts, journals and the lease (nginx_transaction.py).
TypeOK ==
    /\ file \in [Paths -> Contents] /\ receipt \in [Owners -> Receipts]
    /\ nginx.on \in BOOLEAN /\ nginx.cfg \in [Paths -> Contents]
    /\ enabled \in BOOLEAN
    /\ pending = None \/ pending \in PendingRecords
    /\ site # None =>
         /\ site.phase \in {"open", "restoring", "committing"}
         /\ site.files \in [SitePaths -> Contents]
         /\ site.receipts \in [SiteOwners -> Receipts]
         /\ site.allowed \in [SitePaths -> SUBSET Contents]
         /\ site.receiptsAllowed \in [SiteOwners -> SUBSET Receipts]
         /\ site.on \in BOOLEAN /\ site.enabled \in BOOLEAN
         /\ site.rev \in Revocations
    /\ lease \in {"none", "this", "earlier"}
    /\ issuer \in {"none", "submitted", "running", "ended"}
    /\ job \in Jobs \cup {NoJob} /\ left \subseteq Paths \cup Owners
    /\ outer \in {"open", "closed"} /\ faults \in 0..MaxFaults

Settled == pending = None /\ (site # None => site.phase # "restoring")

\* A receipt is what later publications skip their reload for
\* (nginx_transaction.py publish, activation_due): outside a publication and
\* a restore, the files are the ones it names, and an nginx that runs has
\* loaded them, whoever died, rebooted or stopped nginx before.
ReceiptIsServed ==
    Settled => \A o \in Owners :
        receipt[o] # NoReceipt =>
            \A p \in PathsOf[o] : /\ file[p] = receipt[o].v
                                  /\ nginx.on => nginx.cfg[p] = receipt[o].v

\* A publication ends as a whole (publish, its compensation and recover): when
\* pending.json goes, all the files and the receipt are the new ones or all
\* are the old ones, and what is vouched for is what a running nginx serves.
PublicationIsWhole ==
    (pending # None /\ pending' = None) =>
     /\ \/ /\ \A p \in PathsOf[pending.o] : file'[p] = pending.v
           /\ receipt'[pending.o] = (IF pending.on \/ pending.v # Absent
                                     THEN Active(pending.v) ELSE NoReceipt)
        \/ /\ \A p \in PathsOf[pending.o] : file'[p] = pending.prev[p]
           /\ receipt'[pending.o] = pending.receipt
           /\ enabled' = pending.enabled
     /\ (nginx'.on /\ receipt'[pending.o] # NoReceipt) =>
           \A p \in PathsOf[pending.o] : nginx'.cfg[p] = file'[p]

\* A deployment ends as a whole (site_transaction): restored files, receipts
\* and enablement are the captured ones, committed ones those of the decision,
\* and a restore never follows the closing of the other journals.
DeploymentIsWhole ==
    (site # None /\ site' = None) =>
     IF site.phase = "committing" THEN VerifySite /\ outer = "closed"
     ELSE /\ outer = "open"
          /\ \A p \in SitePaths : file[p] = site.files[p]
          /\ \A o \in SiteOwners : receipt[o] = site.receipts[o]
          /\ enabled = site.enabled
          /\ nginx.on => \A p \in SitePaths : nginx.cfg[p] = site.files[p]

\* No state a dead run leaves makes a later recover or restore refuse with
\* foreign-publication or foreign-receipt (recover, verify_site): the journals
\* always admit what is on disk.
NeverForeign ==
    /\ pending # None =>
         /\ receipt[pending.o] \in {pending.receipt, Active(pending.v), NoReceipt}
         /\ \A p \in PathsOf[pending.o] : file[p] \in {pending.prev[p], pending.v}
    /\ pc # "recover" \/ RecoverAdmits
    /\ pc # "verify" \/ VerifySite

\* While a certificate request may still run, after its coordinator was killed
\* too, no other writer moves a file, a receipt or a journal
\* (require_issuer_closed, recover_issuer).
IssuerUndisturbed ==
    (issuer \in {"submitted", "running"}) => UNCHANGED <<disk, pending, site>>

=============================================================================
