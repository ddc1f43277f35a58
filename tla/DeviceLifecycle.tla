--------------------------- MODULE DeviceLifecycle ---------------------------
(***************************************************************************)
(* Issue, refresh and revocation of one device across the whole fleet      *)
(* (device_lifecycle.py).  Every host has an encrypted document (its        *)
(* authority) and a runtime deployed from it; some hosts are publishers of *)
(* subscription links.  An operation journals its complete intent in one   *)
(* of the documents, then writes every document, adopts every runtime,     *)
(* publishes every link and records each step, so that it can be resumed   *)
(* after an interruption at any point.  A refused check saves nothing.     *)
(*                                                                         *)
(* Documents also change under the operation: the operator edits them, the *)
(* token issuer (issue_sub_token.py) publishes links under the writer's    *)
(* lock of its own document, a host is redeployed, links expire.           *)
(***************************************************************************)
EXTENDS FiniteSets, Integers

CONSTANTS
  Hosts,       \* the complete inventory
  Publishers,  \* the hosts that publish links
  Ops,         \* operations, each with its own manifest and UUID
  ActionOf,    \* what each operation does
  JournalAt,   \* the host whose document holds its journal
  Delivery,    \* the hosts an issue or a refresh delivers
  Native,      \* the operations that deliver a file instead of a link
  None,        \* no link, no operation, no host
  MaxForeign,  \* bound on edits, issued links and expirations
  MaxStops     \* bound on interruptions

Actions == {"issue", "refresh", "revoke"}

FleetAssumption ==
  /\ IsFiniteSet(Hosts) /\ Publishers \subseteq Hosts
  /\ ActionOf \in [Ops -> Actions] /\ JournalAt \in [Ops -> Hosts]
  /\ Delivery \subseteq Hosts /\ Delivery # {}
  /\ Native \subseteq Ops
  /\ Publishers = {} => \A o \in Ops : ActionOf[o] # "revoke" => o \in Native
LimitsAssumption == MaxForeign \in Nat /\ MaxStops \in Nat

\* A token is known by its maker and its publisher: the link an operation
\* issues, a revocation's canary, or a link of the token issuer.
Issuer == "issuer"
Reissued == "reissued"
Canary == "canary"
Token == [by : Ops \cup {Issuer}, at : Publishers]
TokenOf(maker, h) == [by |-> maker, at |-> h]
IsCanary(t) == t.by # Issuer /\ ActionOf[t.by] = "revoke"

\* What a link's document was rendered by
Payload == Ops \cup {Issuer, Reissued, Canary}

\* The content of a document that an operation reads or writes; stamp stands
\* for everything else in it.
Document == [cred : {"none", "device"}, registry : {"none", "active", "revoked"},
             revoked : SUBSET Token, rendered : Ops \cup {None}, stamp : 0 .. MaxForeign]
Runtime == [cred : {"none", "device"}, revoked : SUBSET Token]

Phases == {"none", "prepared", "authority-written", "runtime-adopted", "complete"}
Grant == [token : Token, before : Payload \cup {None}, after : Payload]
Journal == [phase : Phases, before : [Hosts -> Document], after : [Hosts -> Document],
            profiles : SUBSET Hosts, grants : SUBSET Grant, written : SUBSET Hosts,
            adopted : SUBSET Hosts, published : SUBSET Token, positive : SUBSET Publishers,
            started : SUBSET Publishers, cleaned : SUBSET Publishers]

VARIABLES
  doc,      \* the content of each host's encrypted document
  runtime,  \* what each host was last deployed with
  route,    \* does the running link service obey the revocation file?
  links,    \* the published documents, by token
  expired,  \* the tokens past their expiry
  journal,  \* the journal of each operation
  output,   \* the recipient files written
  issuer,   \* the token issuer: the document it has locked and its copy of it
  job,      \* the command that holds the locks of the whole inventory
  foreign,  \* edits, issued links and expirations so far
  stops     \* interruptions so far

fleet == <<doc, runtime, route, links, expired>>
environment == <<issuer, foreign, stops>>
vars == <<fleet, journal, output, environment, job>>

Steps == {"idle", "save", "fence", "snapshot", "canary", "read", "write", "written", "adopt",
          "apply", "probe", "publish", "grant", "record", "reprobe", "deny", "clean", "cleaned",
          "complete"}
\* next: where a fence returns to; item: the host or token at hand; seen: what a
\* loop over publishers or links has visited in this run
Job == [op : Ops \cup {None}, pc : Steps, next : Steps, item : Hosts \cup Token \cup {None},
        seen : SUBSET (Hosts \cup Token)]
NoDocument == [cred |-> "none", registry |-> "none", revoked |-> {}, rendered |-> None, stamp |-> 0]
Away == [at |-> None, sent |-> "no", copy |-> NoDocument]
Idle == [op |-> None, pc |-> "idle", next |-> "idle", item |-> None, seen |-> {}]

-----------------------------------------------------------------------------
(* What inspect() finds *)

\* discover(): a protocol credential or a registry row
Found(d) == d.cred = "device" \/ d.registry # "none"

\* the device's links on host h
Rows(h) == { t \in Token : t.at = h /\ ~ IsCanary(t) /\ links[t] # None }
AllRows == UNION { Rows(h) : h \in Publishers }

Revoked(t) == t \in runtime[t.at].revoked
Active(t) == ~ Revoked(t) /\ t \notin expired

NoJournal == [phase |-> "none", before |-> [h \in Hosts |-> NoDocument],
              after |-> [h \in Hosts |-> NoDocument], profiles |-> {}, grants |-> {},
              written |-> {}, adopted |-> {}, published |-> {}, positive |-> {},
              started |-> {}, cleaned |-> {}]

Unfinished(o) == journal[o].phase \notin {"none", "complete"}

\* inspect(): is the operation admitted?
Admitted(o) ==
  /\ \A p \in Ops : ~ Unfinished(p)
  /\ CASE ActionOf[o] = "issue" -> AllRows = {} /\ \A h \in Hosts : ~ Found(doc[h])
       [] ActionOf[o] = "refresh" -> /\ \A h \in Delivery : doc[h].registry = "active"
                                      /\ IF o \in Native THEN AllRows = {}
                                         ELSE \E t \in AllRows : Active(t)
       [] OTHER -> AllRows # {} \/ \E h \in Hosts : Found(doc[h])

-----------------------------------------------------------------------------
(* prepare(): the complete intent, fixed before anything changes *)

Publisher == CHOOSE h \in Publishers : TRUE

After(o, h) ==
  CASE ActionOf[o] = "issue" ->
         IF h \in Delivery THEN [doc[h] EXCEPT !.cred = "device", !.registry = "active", !.rendered = o]
         ELSE doc[h]
    [] ActionOf[o] = "refresh" -> IF h \in Delivery THEN [doc[h] EXCEPT !.rendered = o] ELSE doc[h]
    [] OTHER -> [doc[h] EXCEPT !.cred = "none",
                               !.registry = IF @ = "none" THEN @ ELSE "revoked",
                               !.revoked = IF h \in Publishers THEN @ \cup Rows(h) \cup {TokenOf(o, h)}
                                           ELSE @]

GrantsOf(o) ==
  CASE o \in Native /\ ActionOf[o] # "revoke" -> {}
    [] o \notin Native /\ ActionOf[o] = "issue" ->
         {[token |-> TokenOf(o, Publisher), before |-> None, after |-> o]}
    [] o \notin Native /\ ActionOf[o] = "refresh" ->
         { [token |-> t, before |-> links[t], after |-> o] : t \in { u \in AllRows : Active(u) } }
    [] OTHER -> { [token |-> t, before |-> links[t], after |-> links[t]] : t \in AllRows }

Profiles(o) == IF ActionOf[o] = "revoke" THEN { h \in Hosts : doc[h].cred = "device" } ELSE Delivery

\* The approval binds documents and snapshots, so what prepare() inspects is
\* what was reviewed; a manifest's UUID is new.
Prepare(o) ==
  /\ job = Idle /\ journal[o].phase = "none" /\ Admitted(o)
  /\ issuer.at # JournalAt[o]
  /\ journal' = [journal EXCEPT ![o] = [NoJournal EXCEPT
       !.phase = "prepared", !.before = doc, !.after = [h \in Hosts |-> After(o, h)],
       !.profiles = Profiles(o), !.grants = GrantsOf(o)]]
  /\ UNCHANGED <<fleet, output, environment, job>>

-----------------------------------------------------------------------------
(* Control of run() *)

op == job.op
J == journal[job.op]
Revoking == ActionOf[job.op] = "revoke"
Known == { g.token : g \in J.grants }

At(step) == job.op # None /\ job.pc = step
Goto(step) == job' = [job EXCEPT !.pc = step]
Fence(next, item) == job' = [job EXCEPT !.pc = "fence", !.next = next, !.item = item]

\* _save(): under the writer's lock of a document still before or after
MaySave == issuer.at # JournalAt[op] /\ doc[JournalAt[op]] \in {J.before[JournalAt[op]], J.after[JournalAt[op]]}
Save(j) == MaySave /\ journal' = [journal EXCEPT ![op] = j]

\* mutant: only the runtimes of changed documents
ChangedHosts == { h \in Hosts : J.before[h] # J.after[h] } \cup J.profiles
\* _runtime_hosts()
RuntimeHosts == IF Revoking THEN Hosts ELSE { h \in Hosts : J.before[h] # J.after[h] } \cup J.profiles

\* _fence(), first half: the documents
DocumentsHold ==
  \A h \in Hosts : doc[h] = J.after[h] \/ (h \notin J.written /\ doc[h] = J.before[h])

\* _fence(), second half: the snapshots
RowsHold ==
  /\ \A t \in AllRows :
       IF t \in Known
       THEN /\ \E g \in J.grants : g.token = t /\ links[t] \in {g.before, g.after}
            /\ Revoking \/ Active(t)
       ELSE ActionOf[op] = "refresh" /\ ~ Active(t)
  /\ \A g \in J.grants : g.before # None => g.token \in AllRows

\* what run() reads out of the snapshots of some fences
CanaryRow(h) == links[TokenOf(op, h)]
\* mutant: a canary must still be published
CanaryStillThere ==
  /\ \A g \in J.grants : links[g.token] = g.after /\ (Revoked(g.token) <=> Revoking)
  /\ Revoking => \A h \in Publishers : CanaryRow(h) # None /\ Revoked(TokenOf(op, h))
FinalRows ==
  /\ \A g \in J.grants : links[g.token] = g.after /\ (Revoked(g.token) <=> Revoking)
  /\ Revoking => \A h \in Publishers : IF CanaryRow(h) = None THEN h \in J.started
                                       ELSE Revoked(TokenOf(op, h))
GoneRows ==
  Revoking => /\ \A h \in Publishers : CanaryRow(h) = None
              /\ \A g \in J.grants : Revoked(g.token)

FenceDocuments ==
  /\ At("fence") /\ DocumentsHold
  /\ Goto("snapshot")
  /\ UNCHANGED <<fleet, journal, output, environment>>

\* a revoked link must show it; a link that is up to date is not published again
GrantShown == Revoking => links[job.item] # None /\ Revoked(job.item)
GrantSettled == Revoking \/ \E g \in J.grants : g.token = job.item /\ links[g.token] = g.after

FenceSnapshots ==
  /\ At("snapshot") /\ RowsHold
  /\ job.next = "grant" => GrantShown
  /\ job.next = "deny" => FinalRows
  /\ job.next = "complete" => GoneRows
  /\ Goto(IF job.next = "grant" /\ GrantSettled THEN "record" ELSE job.next)
  /\ UNCHANGED <<fleet, journal, output, environment>>

\* run() and resume; a completed operation may be run again
RunStart(o) ==
  /\ job = Idle /\ journal[o].phase # "none"
  /\ job' = [Idle EXCEPT !.op = o, !.pc = "fence", !.next = "canary"]
  /\ UNCHANGED <<fleet, journal, output, environment>>

-----------------------------------------------------------------------------
(* The canaries of a revocation: served before, denied after *)

\* the publisher's compare-and-swap; a revoked or expired token is not written
MayPublish(t, before, after) ==
  /\ links[t] \in {before, after}
  /\ after # None => ~ Revoked(t)
  /\ t \notin expired

\* the running route answers 410
Denied(t) == links[t] = None \/ (Revoked(t) /\ route[t.at] = "obeys")

CanaryPublish(h) ==
  /\ At("canary") /\ Revoking /\ h \notin J.positive
  /\ MayPublish(TokenOf(op, h), None, Canary)
  /\ links' = [links EXCEPT ![TokenOf(op, h)] = Canary]
  /\ job' = [job EXCEPT !.pc = "read", !.item = h]
  /\ UNCHANGED <<doc, runtime, route, expired, journal, output, environment>>

CanaryServed ==
  /\ At("read") /\ ~ Denied(TokenOf(op, job.item))
  /\ Save([J EXCEPT !.positive = @ \cup {job.item}])
  /\ Goto("canary")
  /\ UNCHANGED <<fleet, output, environment>>

CanariesServed ==
  /\ At("canary")
  /\ Revoking => Publishers \subseteq J.positive
  /\ Goto("write")
  /\ UNCHANGED <<fleet, journal, output, environment>>

-----------------------------------------------------------------------------
(* The documents *)

\* mutant: the document is not compared again under its lock
WriteBlindly(h) ==
  /\ At("write") /\ h \notin job.seen \cup J.written
  /\ issuer.at # h
  /\ doc' = [doc EXCEPT ![h] = J.after[h]]
  /\ job' = [job EXCEPT !.pc = "written", !.item = h, !.seen = @ \cup {h}]
  /\ UNCHANGED <<runtime, route, links, expired, journal, output, environment>>

WriteAuthority(h) ==
  /\ At("write") /\ h \notin job.seen \cup J.written
  /\ issuer.at # h /\ doc[h] \in {J.before[h], J.after[h]}
  /\ doc' = [doc EXCEPT ![h] = J.after[h]]
  /\ job' = [job EXCEPT !.pc = "written", !.item = h, !.seen = @ \cup {h}]
  /\ UNCHANGED <<runtime, route, links, expired, journal, output, environment>>

SaveWritten ==
  /\ At("written")
  /\ Save([J EXCEPT !.written = @ \cup {job.item}])
  /\ Fence("write", None)
  /\ UNCHANGED <<fleet, output, environment>>

\* a document written by an earlier run is fenced again
WrittenBefore(h) ==
  /\ At("write") /\ h \in J.written \ job.seen
  /\ job' = [job EXCEPT !.pc = "fence", !.next = "write", !.item = None, !.seen = @ \cup {h}]
  /\ UNCHANGED <<fleet, journal, output, environment>>

\* the phase starts over even when a completed operation is run again
AuthorityWritten ==
  /\ At("write") /\ job.seen = Hosts
  /\ Save([J EXCEPT !.phase = "authority-written"])
  /\ job' = [job EXCEPT !.pc = "adopt", !.seen = {}]
  /\ UNCHANGED <<fleet, output, environment>>

-----------------------------------------------------------------------------
(* The runtimes *)

\* a dry run, then a fence
AdoptCheck(h) ==
  /\ At("adopt") /\ h \in RuntimeHosts \ J.adopted
  /\ Fence("apply", h)
  /\ UNCHANGED <<fleet, journal, output, environment>>

Deployed(d) == [cred |-> d.cred, revoked |-> d.revoked]

AdoptApply ==
  /\ At("apply")
  /\ runtime' = [runtime EXCEPT ![job.item] = Deployed(J.after[job.item])]
  /\ Fence("probe", job.item)
  /\ UNCHANGED <<doc, route, links, expired, journal, output, environment>>

\* _probe(): old credentials are denied, or new ones accepted, by the host
ProbePasses(h) == runtime[h].cred = IF Revoking THEN "none" ELSE "device"

AdoptProbe ==
  /\ At("probe")
  /\ job.item \in J.profiles => ProbePasses(job.item)
  /\ Save([J EXCEPT !.adopted = @ \cup {job.item}])
  /\ Goto("adopt")
  /\ UNCHANGED <<fleet, output, environment>>

RuntimeAdopted ==
  /\ At("adopt") /\ RuntimeHosts \subseteq J.adopted
  /\ Save([J EXCEPT !.phase = "runtime-adopted"])
  /\ Goto("publish")
  /\ UNCHANGED <<fleet, output, environment>>

-----------------------------------------------------------------------------
(* The links *)

GrantFence(t) ==
  /\ At("publish") /\ t \in Known \ job.seen
  /\ Fence("grant", t)
  /\ UNCHANGED <<fleet, journal, output, environment>>

PublishGrant ==
  /\ At("grant")
  /\ \E g \in J.grants : /\ g.token = job.item
                         /\ MayPublish(g.token, g.before, g.after)
                         /\ links' = [links EXCEPT ![g.token] = g.after]
  /\ Goto("record")
  /\ UNCHANGED <<doc, runtime, route, expired, journal, output, environment>>

SavePublished ==
  /\ At("record")
  /\ IF job.item \in J.published THEN UNCHANGED journal
     ELSE Save([J EXCEPT !.published = @ \cup {job.item}])
  /\ job' = [job EXCEPT !.pc = "publish", !.seen = @ \cup {job.item}]
  /\ UNCHANGED <<fleet, output, environment>>

\* mutant: only an issue has a recipient file
OutputOnIssue ==
  /\ At("publish") /\ Known \subseteq job.seen
  /\ output' = IF ActionOf[op] = "issue" THEN output \cup {op} ELSE output
  /\ Goto("reprobe")
  /\ UNCHANGED <<fleet, journal, environment>>

\* output(): the recipient's file, never overwritten with other bytes
Output ==
  /\ At("publish") /\ Known \subseteq job.seen
  /\ output' = IF ActionOf[op] = "issue" \/ (~ Revoking /\ op \in Native) THEN output \cup {op} ELSE output
  /\ Goto("reprobe")
  /\ UNCHANGED <<fleet, journal, environment>>

\* every native credential once more, then the final fence.  In front of it
\* runtime(verify_only) runs `make verify`, and verify_routes looks at the link
\* service, of every host: both change nothing and neither tells one document from
\* another, so that a failure of theirs is a Stop.
Reprobe ==
  /\ At("reprobe") /\ \A h \in J.profiles : ProbePasses(h)
  /\ job' = [job EXCEPT !.pc = "fence", !.next = "deny", !.item = None, !.seen = {}]
  /\ UNCHANGED <<fleet, journal, output, environment>>

-----------------------------------------------------------------------------
(* The end: the running routes deny the canaries, which are removed *)

CanaryDenied(h) ==
  /\ At("deny") /\ Revoking /\ h \in Publishers \ job.seen
  /\ Denied(TokenOf(op, h))
  /\ IF h \in J.cleaned
     THEN job' = [job EXCEPT !.seen = @ \cup {h}] /\ UNCHANGED journal
     ELSE /\ Save([J EXCEPT !.started = @ \cup {h}])
          /\ job' = [job EXCEPT !.pc = "clean", !.item = h]
  /\ UNCHANGED <<fleet, output, environment>>

CanaryRemove ==
  /\ At("clean") /\ MayPublish(TokenOf(op, job.item), Canary, None)
  /\ links' = [links EXCEPT ![TokenOf(op, job.item)] = None]
  /\ Goto("cleaned")
  /\ UNCHANGED <<doc, runtime, route, expired, journal, output, environment>>

SaveCleaned ==
  /\ At("cleaned")
  /\ Save([J EXCEPT !.cleaned = @ \cup {job.item}])
  /\ job' = [job EXCEPT !.pc = "deny", !.seen = @ \cup {job.item}]
  /\ UNCHANGED <<fleet, output, environment>>

LastFence ==
  /\ At("deny")
  /\ Revoking => Publishers \subseteq job.seen
  /\ Fence("complete", None)
  /\ UNCHANGED <<fleet, journal, output, environment>>

Complete ==
  /\ At("complete")
  /\ Save([J EXCEPT !.phase = "complete"])
  /\ job' = Idle
  /\ UNCHANGED <<fleet, output, environment>>

-----------------------------------------------------------------------------
(* The world around the operation *)

\* a signal, a lost connection, or the death of the process
Stop ==
  /\ job # Idle /\ stops < MaxStops
  /\ stops' = stops + 1
  /\ job' = Idle
  /\ UNCHANGED <<fleet, journal, output, issuer, foreign>>

\* a change of anything else in a document, under its writer's lock
Edit(h) ==
  /\ issuer.at # h /\ foreign < MaxForeign
  /\ foreign' = foreign + 1
  /\ doc' = [doc EXCEPT ![h].stamp = foreign + 1]
  /\ UNCHANGED <<runtime, route, links, expired, journal, output, issuer, stops, job>>

\* issue_sub_token: lock the document and render the device out of it ...
IssuerLock(h) ==
  /\ issuer = Away /\ foreign < MaxForeign /\ h \in Publishers /\ doc[h].cred = "device"
  /\ foreign' = foreign + 1
  /\ issuer' = [at |-> h, sent |-> "no", copy |-> doc[h]]
  /\ UNCHANGED <<fleet, journal, output, stops, job>>

\* ... publish the link ...
IssuerPublish ==
  /\ issuer # Away /\ issuer.sent = "no"
  /\ links' = [links EXCEPT ![TokenOf(Issuer, issuer.at)] = Reissued]
  /\ issuer' = [issuer EXCEPT !.sent = "yes"]
  /\ UNCHANGED <<doc, runtime, route, expired, journal, output, foreign, stops, job>>

\* ... and replace the document, unless the process dies first
IssuerCommit ==
  /\ issuer.sent = "yes"
  /\ doc' = [doc EXCEPT ![issuer.at] = [issuer.copy EXCEPT !.registry = "active", !.stamp = foreign]]
  /\ issuer' = Away
  /\ UNCHANGED <<runtime, route, links, expired, journal, output, foreign, stops, job>>

IssuerDies ==
  /\ issuer # Away
  /\ issuer' = Away
  /\ UNCHANGED <<fleet, journal, output, foreign, stops, job>>

Expire(t) ==
  /\ foreign < MaxForeign /\ t \notin expired /\ ~ IsCanary(t) /\ links[t] # None
  /\ foreign' = foreign + 1
  /\ expired' = expired \cup {t}
  /\ UNCHANGED <<doc, runtime, route, links, journal, output, issuer, stops, job>>

\* an ordinary deployment of the current document
Redeploy(h) ==
  /\ runtime[h] # Deployed(doc[h])
  /\ runtime' = [runtime EXCEPT ![h] = Deployed(doc[h])]
  /\ UNCHANGED <<doc, route, links, expired, journal, output, environment, job>>

\* a link service left running from before an update is restarted
RouteRestart(h) ==
  /\ route[h] = "ignores"
  /\ route' = [route EXCEPT ![h] = "obeys"]
  /\ UNCHANGED <<doc, runtime, links, expired, journal, output, environment, job>>

-----------------------------------------------------------------------------
\* The device is unknown, enrolled, or was deleted from a document that was
\* never deployed again; links may be out.
Init ==
  /\ \E known \in SUBSET Hosts, left \in SUBSET Hosts, out \in SUBSET Publishers :
       /\ known \cap left = {} /\ out \subseteq known \cup left
       /\ doc = [h \in Hosts |-> IF h \in known THEN [NoDocument EXCEPT !.cred = "device", !.registry = "active"]
                                 ELSE NoDocument]
       /\ runtime = [h \in Hosts |-> [cred |-> IF h \in known \cup left THEN "device" ELSE "none",
                                      revoked |-> {}]]
       /\ links = [t \in Token |-> IF t.by = Issuer /\ t.at \in out THEN Issuer ELSE None]
  /\ route \in [Publishers -> {"obeys", "ignores"}]
  /\ expired = {} /\ journal = [o \in Ops |-> NoJournal] /\ output = {}
  /\ issuer = Away /\ job = Idle /\ foreign = 0 /\ stops = 0

Run ==
  \/ FenceDocuments \/ FenceSnapshots
  \/ (\E h \in Publishers : CanaryPublish(h) \/ CanaryDenied(h))
  \/ CanaryServed \/ CanariesServed
  \/ (\E h \in Hosts : WriteAuthority(h) \/ WrittenBefore(h) \/ AdoptCheck(h))
  \/ SaveWritten \/ AuthorityWritten \/ AdoptApply \/ AdoptProbe \/ RuntimeAdopted
  \/ (\E t \in Token : GrantFence(t))
  \/ PublishGrant \/ SavePublished \/ Output \/ Reprobe
  \/ CanaryRemove \/ SaveCleaned \/ LastFence \/ Complete

Foreign ==
  \/ (\E h \in Hosts : Edit(h) \/ IssuerLock(h) \/ Redeploy(h))
  \/ IssuerPublish \/ IssuerCommit \/ IssuerDies
  \/ (\E t \in Token : Expire(t)) \/ (\E h \in Publishers : RouteRestart(h))

\* a check of run() fails or a lock is taken
Refuse ==
  /\ job # Idle /\ ~ ENABLED Run
  /\ job' = Idle
  /\ UNCHANGED <<fleet, journal, output, environment>>

Next == (\E o \in Ops : Prepare(o) \/ RunStart(o)) \/ Run \/ Refuse \/ Stop \/ Foreign

Spec == Init /\ [][Next]_vars

-----------------------------------------------------------------------------
(* Properties *)

\* Documents, runtimes, links and journals have the shape the code writes and
\* validates; in particular each list of a journal names what it should.
TypeOK ==
  /\ doc \in [Hosts -> Document] /\ runtime \in [Hosts -> Runtime]
  /\ route \in [Publishers -> {"obeys", "ignores"}]
  /\ links \in [Token -> Payload \cup {None}] /\ expired \subseteq Token
  /\ journal \in [Ops -> Journal] /\ output \subseteq Ops
  /\ issuer \in [at : Publishers \cup {None}, sent : {"no", "yes"}, copy : Document]
  /\ job \in Job /\ foreign \in 0 .. MaxForeign /\ stops \in 0 .. MaxStops

\* While a revocation is recorded complete, no document names the device's
\* credentials, no runtime accepts them, and every link of the device is denied
\* by a route that obeys its revocation file: neither a host whose document had
\* lost the device, nor a link issued meanwhile, nor the replay of an older
\* operation, nor an issuer in flight leaves or brings anything back.
RevokedForGood ==
  \A o \in Ops :
    (ActionOf[o] = "revoke" /\ journal[o].phase = "complete") =>
      /\ \A h \in Hosts : doc[h].cred = "none" /\ runtime[h].cred = "none"
      /\ \A t \in AllRows : Denied(t)
      /\ \A h \in Publishers : links[TokenOf(o, h)] = None

\* An issue or refresh is recorded complete only when every host it delivers
\* accepts the device, every active link shows what it rendered (or what the
\* issuer rendered since), and the file for the recipient is out.
CompleteIsServed ==
  \A o \in Ops :
     (ActionOf[o] # "revoke" /\ journal[o].phase # "complete" /\ journal'[o].phase = "complete") =>
       /\ \A h \in Delivery : runtime[h].cred = "device"
       /\ \A g \in journal[o].grants : links[g.token] \in {o, Reissued}
       /\ ActionOf[o] = "issue" \/ o \in Native => o \in output

\* An operation never overwrites a change another writer made to a document.
ForeignEditsKept == \A h \in Hosts : doc'[h].stamp >= doc[h].stamp

=============================================================================
