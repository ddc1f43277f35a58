---------------------- MODULE SubscriptionHostProofs ----------------------
(***************************************************************************)
(* Machine-checked proofs about SubscriptionHost, for every finite set of  *)
(* grants, every time of issue, lifetime, horizon and capacity, with and   *)
(* without a mirror.                                                       *)
(***************************************************************************)
EXTENDS SubscriptionHost, FiniteSetTheorems, TLAPS

-----------------------------------------------------------------------------
(* The inductive invariant.                                                *)

\* A grant that can no longer be handed out: its marker is there, or the
\* fence is past it.
Proven(g) == marker[g] # "none" \/ Issued[g] <= fence

\* The places where a request has found its grant neither consumed nor
\* handed out.
Granting == {"read", "fence", "compact", "record", "write"}

\* Each place of the lock holder belongs to certain states of its grant.
ControlInv ==
    /\ req.at # "none" => req \in Requests
    /\ req.at \notin {"none", "fence", "compact"} => req.grant \in Grants
    /\ req.at = "read" => ~Proven(req.grant)
    /\ req.at = "write" => marker[req.grant] = "empty"
    /\ req.at = "forget" => marker[req.grant] = "full"

\* A request that is being granted has no predecessor.
FirstInv ==
    /\ req.at \in Granting /\ req.grant \in Grants => req.grant \notin consumed
    /\ req.at \in Granting \cup {"forget"} /\ req.grant \in Grants =>
          given[req.grant] = 0 /\ sending[req.grant] = 0

\* What is handed out, or about to be, is proven.
HandedInv == \A g \in Grants : given[g] + sending[g] > 0 => Proven(g)

IInv == /\ TypeOK
        /\ ControlInv
        /\ FirstInv
        /\ HandedInv
        /\ AtMostOnce
        /\ ProofStands

\* There is room for the marker that is about to be made.
CapacityInv ==
    /\ WithinCapacity
    /\ req.at = "record" => Count < MaxMarkers


-----------------------------------------------------------------------------
(* The record of the lock holder.                                          *)

Places == {"admit", "read", "fence", "compact", "record", "write", "forget"}

\* A lock holder that moves on keeps its grant, its time and its pointer.
LEMMA MoveUpdates ==
    ASSUME TypeOK, req.at # "none", NEW s \in Places, To(s)
    PROVE  /\ req \in Requests /\ req' \in Requests
           /\ req'.at = s
           /\ req'.grant = req.grant
           /\ req'.now = req.now
           /\ req'.switched = req.switched
  BY DEF TypeOK, Requests, NoReq, To, Places

\* A lock holder at a place is a request; nobody is at "none".
LEMMA HolderTyped ==
    ASSUME TypeOK
    PROVE  /\ NoReq.at = "none"
           /\ req.at # "none" => req \in Requests /\ req # NoReq
           /\ req.at = "none" => req = NoReq
           /\ req \in Requests => req.at \in Places /\ req.now \in Nat
  BY DEF TypeOK, Requests, NoReq, Places

\* The grant of a request that is past the fence for maintenance or a grant.
LEMMA HolderGrant ==
    ASSUME TypeOK, ControlInv, req.at \in {"admit", "read", "record", "write", "forget"}
    PROVE  req.grant \in Grants /\ req \in Requests
  BY DEF TypeOK, ControlInv, Requests, NoReq

-----------------------------------------------------------------------------
(* Steps that touch neither lock holder, marker, fence nor deliveries.     *)

Kept == UNCHANGED <<fence, marker, req, sending, given, consumed>>

LEMMA AsideKeeps ==
    ASSUME IInv, Kept, TypeOK'
    PROVE  IInv'
  BY DEF IInv, Kept, ControlInv, FirstInv, HandedInv, AtMostOnce, ProofStands, Proven

\* The world and the mirror leave the state of the service alone, except for
\* a rename of the generation under a running request.
LEMMA WorldKeeps ==
    ASSUME HostAssumption, IInv,
           \/ Elapse \/ StepBack \/ PullInto \/ PullFails
           \/ \E g \in Grants : Issue(g) \/ Revoke(g)
    PROVE  IInv'
<1> USE DEF IInv, TypeOK, history, mirrored, Faulty, HostAssumption
<1>1. CASE Elapse
  BY <1>1, AsideKeeps DEF Elapse, Kept
<1>2. CASE StepBack
  BY <1>2, AsideKeeps DEF StepBack, Kept
<1>3. CASE PullInto
  BY <1>3, AsideKeeps DEF PullInto, Kept
<1>4. CASE PullFails
  BY <1>4, AsideKeeps DEF PullFails, Kept
<1>5. ASSUME NEW g \in Grants, Issue(g) PROVE IInv'
  BY <1>5, AsideKeeps DEF Issue, Kept
<1>6. ASSUME NEW g \in Grants, Revoke(g) PROVE IInv'
  BY <1>6, AsideKeeps DEF Revoke, Kept
<1>7. QED
  BY <1>1, <1>2, <1>3, <1>4, <1>5, <1>6

-----------------------------------------------------------------------------
(* Steps of the lock holder.                                               *)

\* Without a lock holder nothing is claimed of one.
LEMMA ReleasedInv ==
    ASSUME req = NoReq
    PROVE  ControlInv /\ FirstInv
  BY DEF ControlInv, FirstInv, NoReq, Granting

\* The lock is taken, for a grant or for maintenance.
LEMMA TakingKeeps ==
    ASSUME HostAssumption, IInv, Maintain \/ \E g \in Grants : DoGet(g)
    PROVE  IInv'
<1> USE DEF IInv, TypeOK, others, mirrored, history, HostAssumption, NoReq, Requests
<1>1. CASE Maintain
  BY <1>1 DEF Maintain, ControlInv, FirstInv, HandedInv, AtMostOnce, ProofStands, Proven, Granting
<1>2. ASSUME NEW g \in Grants, DoGet(g) PROVE IInv'
  BY <1>2 DEF DoGet, ControlInv, FirstInv, HandedInv, AtMostOnce, ProofStands, Proven, Granting
<1>3. QED
  BY <1>1, <1>2

\* A grant is admitted only if it is not proven, so nobody has it yet.
LEMMA AdmitKeeps ==
    ASSUME HostAssumption, IInv, Admit
    PROVE  IInv'
<1> USE DEF IInv, TypeOK, others, mirrored, history, HostAssumption
<1>1. req.grant \in Grants /\ req \in Requests
  BY HolderGrant DEF Admit
<1>2. CASE req' = NoReq
  BY <1>2, ReleasedInv DEF Admit, ControlInv, FirstInv, HandedInv, AtMostOnce, ProofStands, Proven,
                          Granting, NoReq
<1>3. CASE ~(req' = NoReq)
  <2>1. /\ req' = [req EXCEPT !.at = "read", !.switched = 0]
        /\ BootstrapIssued(req.grant, req.now) /\ marker[req.grant] = "none"
    BY <1>3 DEF Admit, Refuse
  <2>2. ~Proven(req.grant)
    BY <1>1, <2>1 DEF Proven, BootstrapIssued
  <2>3. req.grant \notin consumed /\ given[req.grant] = 0 /\ sending[req.grant] = 0
    BY <1>1, <2>2 DEF HandedInv, ProofStands, Proven
  <2>4. req' \in Requests /\ req'.at = "read" /\ req'.grant = req.grant
    BY <1>1, <2>1 DEF Requests
  <2>5. TypeOK'
    BY <2>4 DEF Admit
  <2>6. ControlInv' /\ FirstInv'
    BY <1>1, <2>2, <2>3, <2>4 DEF Admit, ControlInv, FirstInv, Proven, Granting
  <2>7. QED
    BY <2>5, <2>6 DEF Admit, HandedInv, AtMostOnce, ProofStands, Proven
<1>4. QED
  BY <1>2, <1>3

\* The payload is read, or the request is over.
LEMMA DeliveryKeeps ==
    ASSUME HostAssumption, IInv, Delivery
    PROVE  IInv'
<1> USE DEF IInv, TypeOK, history
<1>1. req.grant \in Grants /\ req \in Requests
  BY HolderGrant DEF Delivery
<1>2. cur' \subseteq Grants /\ prev' \subseteq Grants
  BY DEF Delivery, Forget
<1>3. HandedInv' /\ AtMostOnce' /\ ProofStands'
  BY DEF Delivery, HandedInv, AtMostOnce, ProofStands, Proven
<1>4. CASE Refuse
  BY <1>2, <1>3, <1>4, ReleasedInv DEF Delivery, Refuse, ControlInv, FirstInv, NoReq, Granting
<1>5. CASE To("fence")
  <2>1. req' \in Requests /\ req'.at = "fence" /\ req'.grant = req.grant
    BY <1>5, MoveUpdates DEF Delivery, Places
  <2>2. ControlInv' /\ FirstInv'
    BY <1>1, <2>1 DEF Delivery, ControlInv, FirstInv, Granting
  <2>3. QED
    BY <1>2, <1>3, <2>1, <2>2 DEF Delivery
<1>6. QED
  BY <1>4, <1>5 DEF Delivery

\* The fence only moves forward, so what is proven stays proven.
LEMMA CommitFenceKeeps ==
    ASSUME HostAssumption, IInv, CommitFence
    PROVE  IInv'
<1> USE DEF IInv, TypeOK, others, mirrored, history, HostAssumption
<1>1. /\ req \in Requests /\ req' \in Requests
      /\ req'.at = "compact" /\ req'.grant = req.grant
  BY MoveUpdates DEF CommitFence, Places
<1>2. fence' \in Int /\ fence' >= fence
  BY <1>1 DEF CommitFence, Retired, Requests
<1>3. TypeOK'
  BY <1>1, <1>2 DEF CommitFence
<1>4. \A g \in Grants : Proven(g) => Proven(g)'
  BY <1>2 DEF CommitFence, Proven
<1>5. ControlInv' /\ FirstInv'
  BY <1>1 DEF CommitFence, ControlInv, FirstInv, Granting
<1>6. HandedInv' /\ AtMostOnce' /\ ProofStands'
  BY <1>4 DEF CommitFence, HandedInv, AtMostOnce, ProofStands, Proven
<1>7. QED
  BY <1>3, <1>5, <1>6

\* A marker goes only behind the fence.
LEMMA RetireMarkerKeeps ==
    ASSUME HostAssumption, IInv, NEW g \in Grants, RetireMarker(g)
    PROVE  IInv'
<1> USE DEF IInv, TypeOK, others, mirrored, history
<1>1. TypeOK'
  BY DEF RetireMarker
<1>2. \A h \in Grants : Proven(h) => Proven(h)'
  BY DEF RetireMarker, Retirable, Proven
<1>3. ControlInv' /\ FirstInv'
  BY DEF RetireMarker, ControlInv, FirstInv, Granting
<1>4. HandedInv' /\ AtMostOnce' /\ ProofStands'
  BY <1>2 DEF RetireMarker, HandedInv, AtMostOnce, ProofStands, Proven
<1>5. QED
  BY <1>1, <1>3, <1>4

\* The second look at the grant; maintenance is over.
LEMMA CompactedKeeps ==
    ASSUME HostAssumption, IInv, Compacted
    PROVE  IInv'
<1> USE DEF IInv, TypeOK, others, mirrored, history
<1>1. HandedInv' /\ AtMostOnce' /\ ProofStands'
  BY DEF Compacted, HandedInv, AtMostOnce, ProofStands, Proven
<1>2. CASE Refuse
  BY <1>1, <1>2, ReleasedInv DEF Compacted, Refuse, ControlInv, FirstInv, NoReq, Granting
<1>3. CASE ~Refuse
  <2>1. To("record") /\ req.grant # "maintenance"
    BY <1>3 DEF Compacted
  <2>2. /\ req \in Requests /\ req' \in Requests
        /\ req'.at = "record" /\ req'.grant = req.grant
    BY <2>1, MoveUpdates DEF Compacted, Places
  <2>3. req.grant \in Grants
    BY <2>1, <2>2 DEF Requests
  <2>4. ControlInv' /\ FirstInv'
    BY <2>2, <2>3 DEF Compacted, ControlInv, FirstInv, Granting
  <2>5. QED
    BY <1>1, <2>2, <2>4 DEF Compacted
<1>4. QED
  BY <1>2, <1>3

\* The marker is created exclusively.
LEMMA CreateMarkerKeeps ==
    ASSUME HostAssumption, IInv, CreateMarker
    PROVE  IInv'
<1> USE DEF IInv, TypeOK, others, mirrored, history
<1>1. req.grant \in Grants /\ req \in Requests
  BY HolderGrant DEF CreateMarker
<1>2. CASE marker[req.grant] = "none"
  <2>1. /\ marker' = [marker EXCEPT ![req.grant] = "empty"]
        /\ req' \in Requests /\ req'.at = "write" /\ req'.grant = req.grant
    BY <1>2, MoveUpdates DEF CreateMarker, Places
  <2>2. TypeOK'
    BY <1>1, <2>1 DEF CreateMarker
  <2>3. ControlInv' /\ FirstInv'
    BY <1>1, <2>1 DEF CreateMarker, ControlInv, FirstInv, Granting
  <2>4. \A h \in Grants : Proven(h) => Proven(h)'
    BY <1>1, <2>1 DEF CreateMarker, Proven
  <2>5. HandedInv' /\ AtMostOnce' /\ ProofStands'
    BY <2>4 DEF CreateMarker, HandedInv, AtMostOnce, ProofStands, Proven
  <2>6. QED
    BY <2>2, <2>3, <2>5
<1>3. CASE marker[req.grant] # "none"
  BY <1>3, ReleasedInv DEF CreateMarker, Refuse, ControlInv, FirstInv, NoReq, Granting,
                          HandedInv, AtMostOnce, ProofStands, Proven
<1>4. QED
  BY <1>2, <1>3

\* From here on the grant is consumed, and its marker says so.
LEMMA WriteMarkerKeeps ==
    ASSUME HostAssumption, IInv, WriteMarker
    PROVE  IInv'
<1> USE DEF IInv, TypeOK, others, mirrored
<1>1. req.grant \in Grants /\ req \in Requests
  BY HolderGrant DEF WriteMarker
<1>2. req' \in Requests /\ req'.at = "forget" /\ req'.grant = req.grant
  BY MoveUpdates DEF WriteMarker, Places
<1>3. TypeOK'
  BY <1>1, <1>2 DEF WriteMarker
<1>4. ControlInv' /\ FirstInv'
  BY <1>1, <1>2 DEF WriteMarker, ControlInv, FirstInv, Granting
<1>5. HandedInv' /\ AtMostOnce' /\ ProofStands'
  BY <1>1 DEF WriteMarker, HandedInv, AtMostOnce, ProofStands, Proven
<1>6. QED
  BY <1>3, <1>4, <1>5

\* The marker of a failed write is taken back: nothing was handed out.
LEMMA WriteFailsKeeps ==
    ASSUME HostAssumption, IInv, WriteFails
    PROVE  IInv'
<1> USE DEF IInv, TypeOK, mirrored
<1>1. req.grant \in Grants /\ req \in Requests
  BY HolderGrant DEF WriteFails
<1>2. /\ req.grant \notin consumed
      /\ given[req.grant] = 0 /\ sending[req.grant] = 0
  BY <1>1 DEF WriteFails, FirstInv, Granting
<1>3. req' = NoReq /\ ControlInv' /\ FirstInv'
  BY ReleasedInv DEF WriteFails, Refuse, ControlInv, FirstInv, NoReq, Granting
<1>4. TypeOK'
  BY <1>1, <1>3 DEF WriteFails, Faulty
<1>5. HandedInv' /\ AtMostOnce'
  BY <1>1, <1>2 DEF WriteFails, HandedInv, AtMostOnce, Proven
<1>6. ProofStands'
  BY <1>1, <1>2 DEF WriteFails, ProofStands
<1>7. QED
  BY <1>3, <1>4, <1>5, <1>6

\* The only step that sends a payload; the request is the first for it.
LEMMA ForgetPayloadKeeps ==
    ASSUME HostAssumption, IInv, ForgetPayload
    PROVE  IInv'
<1> USE DEF IInv, TypeOK
<1>1. req.grant \in Grants /\ req \in Requests
  BY HolderGrant DEF ForgetPayload
<1>2. given[req.grant] = 0 /\ sending[req.grant] = 0 /\ marker[req.grant] = "full"
  BY <1>1 DEF ForgetPayload, FirstInv, ControlInv
<1>3. req' = NoReq /\ ControlInv' /\ FirstInv'
  BY ReleasedInv DEF ForgetPayload, Refuse, ControlInv, FirstInv, NoReq, Granting
<1>4. TypeOK'
  BY <1>1, <1>3 DEF ForgetPayload, Forget
<1>5. HandedInv' /\ AtMostOnce' /\ ProofStands'
  BY <1>1, <1>2 DEF ForgetPayload, HandedInv, AtMostOnce, ProofStands, Proven
<1>6. QED
  BY <1>3, <1>4, <1>5

-----------------------------------------------------------------------------
(* Answers, deaths and the rename under a request.                         *)

LEMMA AnswerKeeps ==
    ASSUME HostAssumption, IInv, NEW g \in Grants, Answer(g)
    PROVE  IInv'
<1> USE DEF IInv, TypeOK, others, mirrored
<1>1. TypeOK'
  BY DEF Answer
<1>2. ControlInv'
  BY DEF Answer, ControlInv, Proven
<1>3. FirstInv'
  BY DEF Answer, FirstInv
<1>4. HandedInv' /\ AtMostOnce' /\ ProofStands'
  BY DEF Answer, HandedInv, AtMostOnce, ProofStands, Proven
<1>5. QED
  BY <1>1, <1>2, <1>3, <1>4

\* A request or an answer that is lost leaves the marker behind.
LEMMA DeathsKeep ==
    ASSUME HostAssumption, IInv, ChangePolicy \/ ServiceDies \/ MaintenanceDies
    PROVE  IInv'
<1> USE DEF IInv, TypeOK, mirrored, history, Faulty
<1>1. req' = NoReq /\ ControlInv' /\ FirstInv'
  BY ReleasedInv DEF ChangePolicy, ServiceDies, MaintenanceDies, Refuse, ControlInv, FirstInv,
                     NoReq, Granting
<1>2. TypeOK'
  BY <1>1 DEF ChangePolicy, ServiceDies, MaintenanceDies
<1>3. HandedInv' /\ AtMostOnce' /\ ProofStands'
  BY DEF ChangePolicy, ServiceDies, MaintenanceDies, HandedInv, AtMostOnce, ProofStands, Proven
<1>4. QED
  BY <1>1, <1>2, <1>3

LEMMA SwitchCurrentKeeps ==
    ASSUME HostAssumption, IInv, SwitchCurrent
    PROVE  IInv'
<1> USE DEF IInv, TypeOK, history
<1>1. CASE req = NoReq
  BY <1>1, AsideKeeps DEF SwitchCurrent, Kept
<1>2. CASE req # NoReq
  <2>1. /\ req \in Requests /\ req' \in Requests
        /\ req'.at = req.at /\ req'.grant = req.grant
    BY <1>2 DEF SwitchCurrent, Requests
  <2>2. TypeOK'
    BY <2>1 DEF SwitchCurrent
  <2>3. ControlInv' /\ FirstInv'
    BY <2>1 DEF SwitchCurrent, ControlInv, FirstInv, Proven
  <2>4. HandedInv' /\ AtMostOnce' /\ ProofStands'
    BY DEF SwitchCurrent, HandedInv, AtMostOnce, ProofStands, Proven
  <2>5. QED
    BY <2>2, <2>3, <2>4
<1>3. QED
  BY <1>1, <1>2

-----------------------------------------------------------------------------

LEMMA InitIInv ==
    ASSUME HostAssumption, Init
    PROVE  IInv
<1>1. TypeOK
  BY DEF HostAssumption, Init, TypeOK
<1>2. ControlInv /\ FirstInv
  BY ReleasedInv DEF Init
<1>3. HandedInv /\ AtMostOnce /\ ProofStands
  BY DEF Init, HandedInv, AtMostOnce, ProofStands
<1>4. QED
  BY <1>1, <1>2, <1>3 DEF IInv

LEMMA NextIInv ==
    ASSUME HostAssumption, IInv, [Next]_vars
    PROVE  IInv'
<1>1. CASE UNCHANGED vars
  BY <1>1, AsideKeeps DEF vars, mirrored, Kept, IInv, TypeOK
<1>2. CASE Serves
  BY <1>2, AdmitKeeps, DeliveryKeeps, CommitFenceKeeps, CompactedKeeps, CreateMarkerKeeps,
     WriteMarkerKeeps, ForgetPayloadKeeps, RetireMarkerKeeps, AnswerKeeps DEF Serves
<1>3. CASE \/ Elapse \/ StepBack \/ PullInto \/ PullFails
           \/ \E g \in Grants : Issue(g) \/ Revoke(g)
  BY <1>3, WorldKeeps
<1>4. CASE Maintain \/ \E g \in Grants : DoGet(g)
  BY <1>4, TakingKeeps
<1>5. CASE ChangePolicy \/ ServiceDies \/ MaintenanceDies
  BY <1>5, DeathsKeep
<1>6. CASE SwitchCurrent
  BY <1>6, SwitchCurrentKeeps
<1>7. CASE WriteFails
  BY <1>7, WriteFailsKeeps
<1>8. QED
  BY <1>1, <1>2, <1>3, <1>4, <1>5, <1>6, <1>7 DEF Next

\* Types of the delivery service and its mirror.
THEOREM Typed == Spec => []TypeOK
<1> USE HostConstants
<1>1. Init => IInv
  BY InitIInv
<1>2. IInv /\ [Next]_vars => IInv'
  BY NextIInv
<1>3. IInv => TypeOK
  BY DEF IInv
<1>4. QED
  BY <1>1, <1>2, <1>3, PTL DEF Spec

\* A bootstrap grant leaves the service at most once, whatever the clock, the
\* policy, the mirror, failing writes and deaths do (do_GET, _delivery).
THEOREM HandedOutOnce == Spec => []AtMostOnce
<1> USE HostConstants
<1>1. Init => IInv
  BY InitIInv
<1>2. IInv /\ [Next]_vars => IInv'
  BY NextIInv
<1>3. IInv => AtMostOnce
  BY DEF IInv
<1>4. QED
  BY <1>1, <1>2, <1>3, PTL DEF Spec

\* A consumed grant keeps its marker or lies behind the fence, so dropping
\* markers (_maintain_locked) forgets nothing.
THEOREM ConsumedStaysProven == Spec => []ProofStands
<1> USE HostConstants
<1>1. Init => IInv
  BY InitIInv
<1>2. IInv /\ [Next]_vars => IInv'
  BY NextIInv
<1>3. IInv => ProofStands
  BY DEF IInv
<1>4. QED
  BY <1>1, <1>2, <1>3, PTL DEF Spec

-----------------------------------------------------------------------------
(* The capacity.                                                           *)

Marked == {g \in Grants : marker[g] # "none"}

LEMMA MarkedFinite ==
    ASSUME HostAssumption
    PROVE  IsFiniteSet(Marked) /\ Count = Cardinality(Marked) /\ Count \in Nat
<1>1. IsFiniteSet(Marked)
  BY FS_Subset DEF HostAssumption, Marked
<1>2. QED
  BY <1>1, FS_CardinalityType DEF Marked, Count

\* Most steps make no marker, and leave the place before a new one alone.
LEMMA NoNewMarker ==
    ASSUME HostAssumption, CapacityInv, Marked' \subseteq Marked,
           req'.at # "record" \/ (req.at = "record" /\ marker' = marker)
    PROVE  CapacityInv'
<1>1. Count' <= Count /\ Count' \in Nat /\ Count \in Nat
  <2>1. IsFiniteSet(Marked) /\ Marked' \in SUBSET Marked /\ Count = Cardinality(Marked)
    BY MarkedFinite
  <2>2. IsFiniteSet(Marked') /\ Cardinality(Marked') <= Cardinality(Marked)
    BY <2>1, FS_Subset
  <2>3. Count' = Cardinality(Marked')
    BY DEF Count, Marked
  <2>4. Cardinality(Marked') \in Nat /\ Count \in Nat
    BY <2>2, MarkedFinite, FS_CardinalityType
  <2>5. QED
    BY <2>1, <2>2, <2>3, <2>4
<1>2. marker' = marker => Count' = Count
  BY DEF Count
<1>3. QED
  BY <1>1, <1>2 DEF CapacityInv, WithinCapacity, HostAssumption

\* The capacity is looked at under the lock, just before the marker is made.
LEMMA CompactedRoom ==
    ASSUME HostAssumption, TypeOK, CapacityInv, Compacted
    PROVE  CapacityInv'
<1>1. marker' = marker
  BY DEF Compacted
<1>2. Count' = Count
  BY <1>1 DEF Count
<1>3. req'.at = "record" => Count < MaxMarkers
  BY DEF Compacted, Refuse, NoReq
<1>4. QED
  BY <1>2, <1>3 DEF CapacityInv, WithinCapacity

LEMMA CreateMarkerRoom ==
    ASSUME HostAssumption, TypeOK, ControlInv, CapacityInv, CreateMarker
    PROVE  CapacityInv'
<1>1. req.grant \in Grants /\ req \in Requests
  BY HolderGrant DEF CreateMarker
<1>2. req'.at # "record"
  BY <1>1, MoveUpdates DEF CreateMarker, Refuse, NoReq, Places
<1>3. CASE marker[req.grant] = "none"
  <2>1. Marked' = Marked \cup {req.grant} /\ req.grant \notin Marked
    BY <1>1, <1>3 DEF CreateMarker, Marked, TypeOK
  <2>2. Cardinality(Marked') = Cardinality(Marked) + 1
    BY <2>1, MarkedFinite, FS_AddElement
  <2>3. Count' = Count + 1
    BY <2>2, MarkedFinite DEF Count, Marked
  <2>4. QED
    BY <1>2, <2>3, MarkedFinite DEF CapacityInv, WithinCapacity, CreateMarker, HostAssumption
<1>4. CASE marker[req.grant] # "none"
  BY <1>2, <1>4, NoNewMarker DEF CreateMarker, Marked
<1>5. QED
  BY <1>3, <1>4

LEMMA NextCapacity ==
    ASSUME HostAssumption, IInv, CapacityInv, [Next]_vars
    PROVE  CapacityInv'
<1> USE DEF IInv, others, mirrored, history
<1>1. CASE Compacted
  BY <1>1, CompactedRoom
<1>2. CASE CreateMarker
  BY <1>2, CreateMarkerRoom
<1>3. CASE \E g \in Grants : RetireMarker(g)
  <2>1. PICK g \in Grants : RetireMarker(g)
    BY <1>3
  <2>2. Marked' \subseteq Marked /\ req'.at # "record"
    BY <2>1 DEF RetireMarker, Marked, TypeOK
  <2>3. QED
    BY <2>2, NoNewMarker
<1>4. CASE WriteMarker
  <2>1. req.grant \in Grants /\ marker[req.grant] = "empty" /\ req'.at # "record"
    BY <1>4, HolderGrant, MoveUpdates DEF WriteMarker, ControlInv, Places
  <2>2. Marked' \subseteq Marked
    BY <1>4, <2>1 DEF WriteMarker, Marked, TypeOK
  <2>3. QED
    BY <2>1, <2>2, NoNewMarker
<1>5. CASE WriteFails
  <2>1. req.grant \in Grants /\ marker[req.grant] = "empty" /\ req'.at # "record"
    BY <1>5, HolderGrant DEF WriteFails, ControlInv, Refuse, NoReq
  <2>2. Marked' \subseteq Marked
    BY <1>5, <2>1 DEF WriteFails, Marked, TypeOK
  <2>3. QED
    BY <2>1, <2>2, NoNewMarker
<1>6. CASE \/ Elapse \/ StepBack \/ ChangePolicy \/ PullInto \/ PullFails \/ UNCHANGED vars
           \/ \E g \in Grants : Issue(g) \/ Revoke(g) \/ Answer(g)
  <2>1. marker' = marker /\ req' = req
    BY <1>6 DEF Elapse, StepBack, ChangePolicy, PullInto, PullFails, vars, Issue, Revoke, Answer
  <2>2. QED
    BY <2>1, NoNewMarker DEF Marked
<1>7. CASE SwitchCurrent
  <2>1. marker' = marker /\ req'.at = req.at
    BY <1>7, HolderTyped DEF SwitchCurrent, NoReq, TypeOK, Requests
  <2>2. QED
    BY <2>1, NoNewMarker DEF Marked
<1>8. CASE \/ Admit \/ Delivery \/ CommitFence \/ ForgetPayload \/ Maintain \/ ServiceDies
           \/ MaintenanceDies \/ \E g \in Grants : DoGet(g)
  <2>1. marker' = marker
    BY <1>8 DEF Admit, Delivery, CommitFence, ForgetPayload, Maintain, ServiceDies,
                MaintenanceDies, DoGet
  <2>2. req'.at # "record"
    <3>1. CASE Admit
      BY <3>1, HolderTyped DEF Admit, Refuse, NoReq, Requests
    <3>2. CASE Delivery \/ CommitFence
      BY <3>2, MoveUpdates DEF Delivery, CommitFence, Refuse, NoReq, Places
    <3>3. CASE ForgetPayload \/ Maintain \/ ServiceDies \/ MaintenanceDies \/ \E g \in Grants : DoGet(g)
      BY <3>3 DEF ForgetPayload, Maintain, ServiceDies, MaintenanceDies, DoGet, Refuse, NoReq
    <3>4. QED
      BY <1>8, <3>1, <3>2, <3>3
  <2>3. QED
    BY <2>1, <2>2, NoNewMarker DEF Marked
<1>9. QED
  BY <1>1, <1>2, <1>3, <1>4, <1>5, <1>6, <1>7, <1>8 DEF Next, Serves

\* However requests, maintenance and deaths interleave, no more markers exist
\* than the operator's capacity allows (_record_bootstrap_consumption).
THEOREM CapacityHeld == Spec => []WithinCapacity
<1> USE HostConstants
<1>1. Init => IInv /\ CapacityInv
  <2>1. ASSUME Init PROVE CapacityInv
    <3>1. Marked = {} /\ req.at = "none"
      BY <2>1 DEF Init, Marked, NoReq
    <3>2. Count = 0
      BY <3>1, MarkedFinite, FS_EmptySet
    <3>3. QED
      BY <3>1, <3>2 DEF CapacityInv, WithinCapacity, HostAssumption
  <2>2. QED
    BY <2>1, InitIInv
<1>2. IInv /\ CapacityInv /\ [Next]_vars => (IInv /\ CapacityInv)'
  BY NextIInv, NextCapacity
<1>3. CapacityInv => WithinCapacity
  BY DEF CapacityInv
<1>4. QED
  BY <1>1, <1>2, <1>3, PTL DEF Spec

=============================================================================
