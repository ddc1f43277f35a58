-------------------------- MODULE SubscriptionHost --------------------------
(***************************************************************************)
(* The delivery service of a subscription host.  A bootstrap grant is      *)
(* handed out once: a marker is made durable before its payload leaves,    *)
(* and old markers are dropped only behind a fence that no clock moves     *)
(* back.  Payloads are in the service's own directory or in generations    *)
(* that a timer mirrors from a worker which knows nothing of deliveries.   *)
(***************************************************************************)
EXTENDS Integers, FiniteSets

CONSTANTS Grants,       \* bootstrap tokens
          Issued,       \* the time in each of them
          Expiry,       \* a shorter deadline, or 0
          Mirror,       \* whether payloads are mirrored
          Horizon,      \* longest lifetime any policy may give
          Lifetimes,    \* lifetimes the policy takes one after the other
          MaxMarkers,   \* markers the service admits
          MaxTime, MaxPulls, MaxFaults

HostAssumption ==
    /\ IsFiniteSet(Grants) /\ "maintenance" \notin Grants
    /\ Issued \in [Grants -> 1 .. MaxTime] /\ Expiry \in [Grants -> Nat]
    /\ Mirror \in BOOLEAN /\ Horizon \in Nat \ {0} /\ Lifetimes \subseteq 1 .. Horizon
    /\ MaxMarkers \in Nat \ {0} /\ MaxTime \in Nat /\ MaxPulls \in Nat /\ MaxFaults \in Nat
ASSUME HostConstants == HostAssumption

VARIABLES now,          \* wall clock of the host
          fence,        \* .vpn-bootstrap-retired-before
          marker,       \* .vpn-bootstrap-consumed
          upstream,     \* grants the worker holds
          cur, prev,    \* the two generations, or the direct directory
          pull,         \* the mirror
          revoked,      \* revoked_file
          life,         \* lifetime under the current policy
          req,          \* the request or maintenance that holds the state lock
          sending,      \* answers whose payload is still to be written out
          given,        \* history: deliveries of each grant
          consumed,     \* history: grants whose marker was complete once
          pulls, faults

vars == <<now, fence, marker, upstream, cur, prev, pull, revoked, life, req, sending, given, consumed,
          pulls, faults>>
mirrored == <<upstream, cur, prev, pull, pulls>>
others == <<now, mirrored, revoked, life, faults>>
history == <<sending, given, consumed>>

NoReq == [at |-> "none"]
Count == Cardinality({g \in Grants : marker[g] # "none"})

Init ==
    /\ now = 1 /\ fence = 0 /\ marker = [g \in Grants |-> "none"]
    /\ upstream = {} /\ cur = {} /\ prev = {} /\ pull = "idle"
    /\ revoked = {} /\ life \in Lifetimes /\ req = NoReq
    /\ sending = [g \in Grants |-> 0] /\ given = [g \in Grants |-> 0] /\ consumed = {}
    /\ pulls = 0 /\ faults = 0

-----------------------------------------------------------------------------
(* The world around the service.                                           *)

Faulty == faults < MaxFaults /\ faults' = faults + 1

Elapse ==
    /\ now < MaxTime /\ now' = now + 1
    /\ UNCHANGED <<fence, marker, mirrored, revoked, life, req, history, faults>>

StepBack ==
    /\ Faulty
    /\ \E t \in 1 .. now - 1 : now' = t
    /\ UNCHANGED <<fence, marker, mirrored, revoked, life, req, history>>

(* The issuer publishes a grant here, or on the worker.                    *)
Issue(g) ==
    /\ g \notin upstream /\ now >= Issued[g]
    /\ upstream' = upstream \cup {g}
    /\ cur' = IF Mirror THEN cur ELSE cur \cup {g}
    /\ UNCHANGED <<now, fence, marker, prev, pull, pulls, revoked, life, req, history, faults>>

(* Revocation replaces its file and does not take the state lock.          *)
Revoke(g) ==
    /\ Faulty /\ g \notin revoked
    /\ revoked' = revoked \cup {g}
    /\ UNCHANGED <<now, fence, marker, mirrored, life, req, history>>

(* A deployment changes the policy and restarts the service.               *)
ChangePolicy ==
    /\ req = NoReq
    /\ life' \in Lifetimes \ {life}
    /\ sending' = [g \in Grants |-> 0]
    /\ UNCHANGED <<now, fence, marker, mirrored, revoked, req, given, consumed, faults>>

-----------------------------------------------------------------------------
(* The mirror.  It has a lock of its own.                                  *)

PullInto ==
    /\ Mirror /\ pull = "idle" /\ pulls < MaxPulls
    /\ pull' = "staged" /\ pulls' = pulls + 1
    /\ UNCHANGED <<now, fence, marker, upstream, cur, prev, revoked, life, req, history, faults>>

(* The whole generation becomes current in one rename; the one before it   *)
(* is kept and older ones are removed.                                     *)
SwitchCurrent ==
    /\ pull = "staged"
    /\ cur' = upstream /\ prev' = cur
    /\ pull' = "idle"
    /\ req' = IF req = NoReq THEN NoReq ELSE [req EXCEPT !.switched = @ + 1]
    /\ UNCHANGED <<now, fence, marker, upstream, pulls, revoked, life, history, faults>>

(* The pull dies or is refused; the next one removes its stage.            *)
PullFails ==
    /\ Faulty /\ pull = "staged"
    /\ pull' = "idle"
    /\ UNCHANGED <<now, fence, marker, upstream, cur, prev, pulls, revoked, life, req, history>>

-----------------------------------------------------------------------------
(* A request for a bootstrap grant.  It holds the state lock until its     *)
(* answer is decided; the answer is written after that.                    *)

(* Mutation: the fence is not consulted.                                   *)
BootstrapIssued_window(g, t) == Issued[g] <= t /\ t < Issued[g] + life

(* The grant is younger than the fence, not from the future and within the *)
(* lifetime of the policy.                                                 *)
BootstrapIssued(g, t) == Issued[g] > fence /\ Issued[g] <= t /\ t < Issued[g] + life

Expired(g, t) == Expiry[g] # 0 /\ Expiry[g] <= t

(* The generation a request found when it read the pointer: current, kept  *)
(* beside the current one, or removed.                                     *)
Payload == IF req.switched = 0 THEN cur ELSE IF req.switched = 1 THEN prev ELSE {}

To(s) == req' = [req EXCEPT !.at = s]
Refuse == req' = NoReq

DoGet(g) ==
    /\ req = NoReq
    /\ req' = [at |-> "admit", grant |-> g, now |-> now, switched |-> 0]
    /\ UNCHANGED <<fence, marker, others, history>>

(* Time, revocation and marker are looked at, then the pointer is read.    *)
Admit ==
    /\ req.at = "admit"
    /\ IF BootstrapIssued(req.grant, req.now) /\ req.grant \notin revoked
          /\ marker[req.grant] = "none"
       THEN req' = [req EXCEPT !.at = "read", !.switched = 0]
       ELSE Refuse
    /\ UNCHANGED <<fence, marker, others, history>>

(* The file goes where it was found.                                       *)
Forget(g) == /\ cur' = IF req.switched = 0 THEN cur \ {g} ELSE cur
             /\ prev' = IF req.switched = 1 THEN prev \ {g} ELSE prev

(* The payload is read; an expired grant is removed.                       *)
Delivery ==
    /\ req.at = "read"
    /\ \/ /\ req.grant \notin Payload
          /\ Refuse /\ UNCHANGED <<cur, prev>>
       \/ /\ req.grant \in Payload /\ Expired(req.grant, now)
          /\ Refuse /\ Forget(req.grant)
       \/ /\ req.grant \in Payload /\ ~Expired(req.grant, now)
          /\ To("fence") /\ UNCHANGED <<cur, prev>>
    /\ UNCHANGED <<now, fence, marker, upstream, pull, revoked, life, pulls, faults, history>>

(* The maintenance timer runs the same compaction.                         *)
Maintain ==
    /\ req = NoReq
    /\ req' = [at |-> "fence", grant |-> "maintenance", now |-> now, switched |-> 0]
    /\ UNCHANGED <<fence, marker, others, history>>

(* Mutation: the fence follows the clock, backwards too.                   *)
Retired_clock(t) == t - Horizon

Retired(t) == IF t - Horizon > fence THEN t - Horizon ELSE fence

(* The fence is durable before any marker goes.                            *)
CommitFence ==
    /\ req.at = "fence"
    /\ fence' = Retired(req.now)
    /\ To("compact")
    /\ UNCHANGED <<marker, others, history>>

(* Mutation: a marker goes when the lifetime of the current policy is over. *)
Retirable_policy(g) == marker[g] = "full" /\ Issued[g] + life <= req.now

(* Markers up to the fence go; an empty one is never guessed at.           *)
Retirable(g) == marker[g] = "full" /\ Issued[g] <= fence

RetireMarker(g) ==
    /\ req.at = "compact" /\ Retirable(g)
    /\ marker' = [marker EXCEPT ![g] = "none"]
    /\ UNCHANGED <<fence, req, others, history>>

(* Mutation: one marker too many is admitted.                              *)
Compacted_full ==
    /\ req.at = "compact" /\ \A g \in Grants : ~Retirable(g)
    /\ IF /\ req.grant # "maintenance" /\ BootstrapIssued(req.grant, req.now)
          /\ Count <= MaxMarkers
       THEN To("record") ELSE Refuse
    /\ UNCHANGED <<fence, marker, others, history>>

(* The grant is looked at again behind the new fence, and the capacity is. *)
Compacted ==
    /\ req.at = "compact" /\ \A g \in Grants : ~Retirable(g)
    /\ IF /\ req.grant # "maintenance" /\ BootstrapIssued(req.grant, req.now)
          /\ Count < MaxMarkers
       THEN To("record") ELSE Refuse
    /\ UNCHANGED <<fence, marker, others, history>>

(* The marker is created exclusively, and then written.                    *)
CreateMarker ==
    /\ req.at = "record"
    /\ IF marker[req.grant] = "none"
       THEN marker' = [marker EXCEPT ![req.grant] = "empty"] /\ To("write")
       ELSE Refuse /\ UNCHANGED marker
    /\ UNCHANGED <<fence, others, history>>

WriteMarker ==
    /\ req.at = "write"
    /\ marker' = [marker EXCEPT ![req.grant] = "full"]
    /\ consumed' = consumed \cup {req.grant}
    /\ To("forget")
    /\ UNCHANGED <<fence, others, sending, given>>

(* A failing write takes the marker back; a failing sync of the directory  *)
(* leaves it.  The request is refused.                                     *)
WriteFails ==
    /\ Faulty /\ req.at = "write"
    /\ \/ marker' = [marker EXCEPT ![req.grant] = "none"] /\ UNCHANGED consumed
       \/ /\ marker' = [marker EXCEPT ![req.grant] = "full"]
          /\ consumed' = consumed \cup {req.grant}
    /\ Refuse
    /\ UNCHANGED <<now, fence, mirrored, revoked, life, sending, given>>

(* The payload is removed and the lock released; the answer is on its way. *)
ForgetPayload ==
    /\ req.at = "forget"
    /\ Forget(req.grant) /\ Refuse
    /\ sending' = [sending EXCEPT ![req.grant] = @ + 1]
    /\ UNCHANGED <<now, fence, marker, upstream, pull, pulls, revoked, life, given, consumed, faults>>

Answer(g) ==
    /\ sending[g] > 0
    /\ sending' = [sending EXCEPT ![g] = @ - 1]
    /\ given' = [given EXCEPT ![g] = @ + 1]
    /\ UNCHANGED <<fence, marker, req, consumed, others>>

(* The service dies with its request and its answers, or the maintenance   *)
(* that holds the lock does.                                               *)
ServiceDies ==
    /\ Faulty /\ (req # NoReq => req.grant # "maintenance")
    /\ Refuse /\ sending' = [g \in Grants |-> 0]
    /\ UNCHANGED <<now, fence, marker, mirrored, revoked, life, given, consumed>>

MaintenanceDies ==
    /\ Faulty /\ req # NoReq /\ req.grant = "maintenance"
    /\ Refuse
    /\ UNCHANGED <<now, fence, marker, mirrored, revoked, life, history>>

-----------------------------------------------------------------------------

Serves ==
    \/ Admit \/ Delivery \/ CommitFence \/ Compacted \/ CreateMarker \/ WriteMarker
    \/ ForgetPayload \/ \E g \in Grants : RetireMarker(g) \/ Answer(g)

Next ==
    \/ Elapse \/ StepBack \/ ChangePolicy
    \/ \E g \in Grants : Issue(g) \/ Revoke(g) \/ DoGet(g)
    \/ PullInto \/ SwitchCurrent \/ PullFails
    \/ Serves \/ WriteFails \/ Maintain \/ ServiceDies \/ MaintenanceDies

Spec == Init /\ [][Next]_vars

-----------------------------------------------------------------------------

Requests == [at : {"admit", "read", "fence", "compact", "record", "write", "forget"},
             grant : Grants \cup {"maintenance"}, now : Nat, switched : Nat]

(* The clock, the records and the requests have the shape the code gives   *)
(* them; the fence is a time of the past and never before the epoch.       *)
TypeOK ==
    /\ now \in Nat /\ fence \in Nat /\ faults \in Nat /\ pulls \in Nat
    /\ marker \in [Grants -> {"none", "empty", "full"}]
    /\ upstream \subseteq Grants /\ cur \subseteq Grants /\ prev \subseteq Grants
    /\ revoked \subseteq Grants /\ consumed \subseteq Grants /\ life \in Lifetimes
    /\ pull \in {"idle", "staged"} /\ req \in Requests \cup {NoReq}
    /\ sending \in [Grants -> Nat] /\ given \in [Grants -> Nat]

(* The markers never exceed the capacity the operator set.                 *)
WithinCapacity == Count <= MaxMarkers

(* A grant is handed out once: not again after a mirror restored its       *)
(* payload, under a longer policy, with a clock that moved back, or after  *)
(* a crash at any point.                                                   *)
AtMostOnce == \A g \in Grants : given[g] + sending[g] <= 1

(* What was consumed stays proven, so that markers may be dropped: its     *)
(* marker is there, or the fence is past it.                               *)
ProofStands == \A g \in consumed : marker[g] # "none" \/ Issued[g] <= fence

-----------------------------------------------------------------------------
(* Values for a finite instance: two grants, the second with a deadline of *)
(* its own.                                                                *)

IssueTimes == [b1 |-> 1, b2 |-> 2]
Deadlines == [b1 |-> 0, b2 |-> 3]
=============================================================================
