--------------------------- MODULE DeadmanReceiver ---------------------------
(***************************************************************************)
(* The independent dead-man receiver: ansible/roles/observability_deadman/ *)
(* files/observability-deadman.py.  A server accepts authenticated pulses  *)
(* of the monitoring plane; a timer job ("tick", one at a time, killed     *)
(* after one pulse interval) decides whether the plane is overdue, keeps   *)
(* the incident flag and reserves, sends and records one notification.     *)
(* Both work on state.json under one lock; the recovery notification owed  *)
(* is a second file, written before the incident flag is cleared.          *)
(*                                                                         *)
(* Time is counted in pulse intervals and kept relative: every instant of  *)
(* the files is represented by its age, saturated one step above the       *)
(* largest interval it is compared with (Cap), so that behaviours are      *)
(* unbounded and the state space is finite.  The instant 0 of the code, a  *)
(* time before everything, is the age Cap.  Sequence numbers are kept      *)
(* relative to the last one accepted of the same generation.               *)
(***************************************************************************)
EXTENDS Integers, FiniteSets

CONSTANTS Gens,          \* source generations of the configuration
          MaxFuture,     \* max_future_seconds: how far ahead an expiry may lie
          Overdue,       \* pulse_interval_seconds * missed_pulse_limit
          Window,        \* retry_attempts * retry_timeout_seconds + 1
          Reminder,      \* reminder_interval_seconds
          CanaryEvery,   \* canary_interval_seconds
          MaxFaults      \* bound: ticks that die before their end

TimesAssumption ==
    /\ {MaxFuture, Overdue, Window, Reminder, CanaryEvery, MaxFaults} \subseteq Nat
    /\ 0 < Window /\ Window < Reminder
    /\ 0 < Overdue /\ Overdue <= Reminder /\ Reminder < CanaryEvery

VARIABLES cfg,      \* the generation of the published configuration
          srv,      \* the one the running server has loaded
          net,      \* pulses under way; any of them may arrive again or never
          sentNow,  \* the monitoring plane has sent its pulse of this interval
          st,       \* state.json
          intent,   \* state.json.recovery.json
          tick,     \* the timer job
          seen,     \* the last incident message the operator received
          acked,    \* a recovery was recorded as delivered and no incident since
          faults
vars == <<cfg, srv, net, sentNow, st, intent, tick, seen, acked, faults>>

Cap == CanaryEvery + 1
Events == {"firing", "recovery", "canary"}
Older(a) == IF a < Cap THEN a + 1 ELSE Cap
NoTick == [pc |-> "idle", age |-> 0, gen |-> CHOOSE g \in Gens : TRUE, overdue |-> FALSE,
           wasIncident |-> FALSE, event |-> "none", ok |-> FALSE]

(***************************************************************************)
(* Pulses.                                                                 *)
(***************************************************************************)
Pulse == [gen : Gens, rel : Int, ttl : 1..(MaxFuture + 1), accepted : BOOLEAN]

\* Only the order of the sequence numbers matters: each is replaced by its rank
\* above or below the last one accepted of its generation.
Ranked(pulses) ==
    LET rels(g) == {q.rel : q \in {r \in pulses : r.gen = g}}
    IN {[p EXCEPT !.rel = IF @ > 0 THEN Cardinality({r \in rels(p.gen) : 0 < r /\ r <= p.rel})
                          ELSE -Cardinality({r \in rels(p.gen) : p.rel <= r /\ r < 0})]
          : p \in pulses}

\* The monitoring plane signs one pulse per interval: the sequence grows, the
\* expiry may lie further ahead than the receiver admits (a clock in advance).
SendPulse(g, ttl) ==
    /\ ~sentNow
    /\ sentNow' = TRUE
    /\ LET rels == {0} \cup {p.rel : p \in {q \in net : q.gen = g}}
           top == CHOOSE r \in rels : \A s \in rels : s <= r
       IN net' = net \cup {[gen |-> g, rel |-> top + 1, ttl |-> ttl, accepted |-> FALSE]}
    /\ UNCHANGED <<cfg, srv, st, intent, tick, seen, acked, faults>>

\* accept_pulse: a sequence above the last of the same generation, an expiry
\* ahead, not too far ahead, and above the last accepted whatever its generation.
\* Mutation: the expiry is compared only within one generation.
Acceptable_perGen(p, s, g) ==
    /\ p.gen = g
    /\ (s.gen = g => p.rel > 0 /\ p.ttl > s.expiry)
    /\ 0 < p.ttl /\ p.ttl <= MaxFuture
Acceptable(p, s, g) ==
    /\ p.gen = g
    /\ (s.gen = g => p.rel > 0)
    /\ 0 < p.ttl /\ p.ttl <= MaxFuture /\ p.ttl > s.expiry

\* The lock is free: a tick holds it from its first look to its reservation and
\* again while it records the outcome.
LockFree == tick.pc \notin {"health", "cleared", "pending", "choose", "attempt",
                            "record", "recorded"}

\* accept_and_save.  A pulse that is refused, malformed, wrongly signed or
\* unhealthy changes nothing.
ReceivePulse(p) ==
    /\ LockFree
    /\ Acceptable(p, st, srv)
    /\ st' = [st EXCEPT !.gen = srv, !.expiry = p.ttl, !.pulse = 0]
    /\ net' = Ranked({IF q = p THEN [q EXCEPT !.rel = 0, !.accepted = TRUE]
                      ELSE IF q.gen = p.gen THEN [q EXCEPT !.rel = @ - p.rel] ELSE q
                        : q \in net})
    /\ UNCHANGED <<cfg, srv, sentNow, intent, tick, seen, acked, faults>>

(***************************************************************************)
(* The tick.  The comparisons use the instant the tick started, tick.age   *)
(* intervals ago.                                                          *)
(***************************************************************************)
StartTick ==
    /\ tick.pc = "idle"
    /\ tick' = [NoTick EXCEPT !.pc = "lock", !.gen = cfg]
    /\ UNCHANGED <<cfg, srv, net, sentNow, st, intent, seen, acked, faults>>

Since(age) == age - tick.age
IsOverdue == st.gen # tick.gen \/ Since(st.pulse) >= Overdue

\* _reserve_delivery, up to the first write: the recovery owed is recorded
\* before the incident is cleared.
FreshIntent == [phase |-> "queued", nonce |-> -1, wait |-> -tick.age]
OweRecovery(late) ==
    IF /\ ~late /\ st.incident
       /\ \/ intent.phase \in {"none", "complete"}
          \/ st.pending = "recovery" /\ intent.nonce = 0
    THEN FreshIntent ELSE intent

ReadHealth ==
    /\ tick.pc = "lock"
    /\ tick' = [tick EXCEPT !.pc = "health", !.overdue = IsOverdue, !.wasIncident = st.incident]
    /\ intent' = OweRecovery(IsOverdue)
    /\ UNCHANGED <<cfg, srv, net, sentNow, st, seen, acked, faults>>

\* The incident flag; an incident that opens may be announced at once.
WriteHealth ==
    /\ tick.pc = "health"
    /\ tick' = [tick EXCEPT !.pc = "cleared"]
    /\ st' = IF tick.overdue /\ ~st.incident
             THEN [st EXCEPT !.incident = TRUE, !.deliveryAge = Cap]
             ELSE [st EXCEPT !.incident = tick.overdue]
    /\ acked' = (acked /\ ~tick.overdue)
    /\ UNCHANGED <<cfg, srv, net, sentNow, intent, seen, faults>>

\* A recovery acknowledged by a tick that died before it wrote the state.
AcknowledgedLate ==
    st.pending = "recovery" /\ intent.phase = "complete" /\ intent.nonce = 0
AdoptAcknowledgement ==
    /\ tick.pc = "cleared"
    /\ tick' = [tick EXCEPT !.pc = "pending"]
    /\ st' = IF AcknowledgedLate
             THEN [st EXCEPT !.pending = "none", !.pendingAge = Cap,
                             !.lastDelivery = "recovery"] ELSE st
    /\ UNCHANGED <<cfg, srv, net, sentNow, intent, seen, acked, faults>>

\* A reservation older than the longest send belongs to a tick that died.
Expired == st.pending # "none" /\ Since(st.pendingAge) >= Window
ExpireReservation ==
    /\ tick.pc = "pending"
    /\ tick' = [tick EXCEPT !.pc = "choose"]
    /\ st' = CASE ~Expired -> st
               [] Expired /\ st.pending = "canary" ->
                    [st EXCEPT !.pending = "none", !.pendingAge = Cap,
                               !.canary = "failed", !.canaryAge = st.pendingAge]
               [] OTHER ->
                    [st EXCEPT !.pending = "none", !.pendingAge = Cap,
                               !.lastDelivery = "failed",
                               !.deliveryAge = IF st.pending = "recovery" /\ st.incident
                                               THEN Cap ELSE st.pendingAge]
    /\ UNCHANGED <<cfg, srv, net, sentNow, intent, seen, acked, faults>>

\* Which notification is due.
FiringDue ==
    tick.overdue /\ (\/ ~tick.wasIncident
                     \/ Since(st.deliveryAge) >= Reminder
                     \/ st.lastDelivery = "recovery")
RecoveryDue ==
    ~tick.overdue /\ intent.phase = "queued" /\ intent.wait <= -tick.age
CanaryDue ==
    /\ ~tick.overdue /\ ~RecoveryDue
    /\ \/ Since(st.canaryAge) >= CanaryEvery
       \/ st.canary = "failed" /\ Since(st.canaryAge) >= Reminder
DueEvent == CASE FiringDue -> "firing" [] RecoveryDue -> "recovery"
              [] CanaryDue -> "canary" [] OTHER -> "none"

\* Nothing due, or another reservation still open: the tick goes on to its
\* reverse-health report.
NothingDue ==
    /\ tick.pc = "choose"
    /\ st.pending # "none" \/ DueEvent = "none"
    /\ tick' = [NoTick EXCEPT !.pc = "reverse", !.age = tick.age]
    /\ UNCHANGED <<cfg, srv, net, sentNow, st, intent, seen, acked, faults>>

\* Reserve: the recovery record takes the new nonce first, then the state.
ReserveIntent ==
    /\ tick.pc = "choose" /\ st.pending = "none" /\ DueEvent # "none"
    /\ tick' = [NoTick EXCEPT !.pc = "attempt", !.age = tick.age, !.event = DueEvent]
    /\ intent' = IF DueEvent = "recovery"
                 THEN [intent EXCEPT !.nonce = 1, !.wait = Reminder - tick.age]
                 ELSE intent
    /\ UNCHANGED <<cfg, srv, net, sentNow, st, seen, acked, faults>>

\* The state's nonce grows by one: the record's, kept relative to it, shrinks.
Renumbered(i) == [i EXCEPT !.nonce = IF @ > 0 THEN @ - 1 ELSE -1]
ReserveState ==
    /\ tick.pc = "attempt"
    /\ tick' = [tick EXCEPT !.pc = "send"]
    /\ st' = [st EXCEPT !.pending = tick.event, !.pendingAge = tick.age]
    /\ intent' = Renumbered(intent)
    /\ UNCHANGED <<cfg, srv, net, sentNow, seen, acked, faults>>

\* _telegram, without the lock: delivered and reported, failed, or delivered
\* although every attempt was reported as a failure.
Telegram(delivered, reported) ==
    /\ tick.pc = "send" /\ (reported => delivered)
    /\ tick' = [tick EXCEPT !.pc = "record", !.ok = reported]
    /\ seen' = IF delivered /\ tick.event # "canary" THEN tick.event ELSE seen
    /\ UNCHANGED <<cfg, srv, net, sentNow, st, intent, acked, faults>>

\* _complete_delivery: the recovery record first, then the state.  Its checks of the pending nonce
\* and of the record's phase pass, since the service runs one tick at a time.
RecordIntent ==
    /\ tick.pc = "record"
    /\ tick' = [tick EXCEPT !.pc = "recorded"]
    /\ intent' = IF tick.event = "recovery" /\ tick.ok
                 THEN [intent EXCEPT !.phase = "complete"] ELSE intent
    /\ acked' = (acked \/ (tick.event = "recovery" /\ tick.ok /\ ~st.incident))
    /\ UNCHANGED <<cfg, srv, net, sentNow, st, seen, faults>>

RecordState ==
    /\ tick.pc = "recorded"
    /\ tick' = [NoTick EXCEPT !.pc = "reverse", !.age = tick.age]
    /\ st' = IF tick.event = "canary"
             THEN [st EXCEPT !.pending = "none", !.pendingAge = Cap, !.canaryAge = tick.age,
                             !.canary = IF tick.ok THEN "success" ELSE "failed"]
             ELSE [st EXCEPT !.pending = "none", !.pendingAge = Cap,
                             !.lastDelivery = IF tick.ok THEN tick.event ELSE "failed",
                             !.deliveryAge = IF tick.event = "recovery" /\ st.incident
                                             THEN Cap ELSE tick.age]
    /\ UNCHANGED <<cfg, srv, net, sentNow, intent, seen, acked, faults>>

\* _reserve_reverse_sequence and _reverse_health: the report carries the state
\* and a number of its own, which nothing else of the receiver reads.
ReportReverse ==
    /\ tick.pc = "reverse"
    /\ tick' = NoTick
    /\ UNCHANGED <<cfg, srv, net, sentNow, st, intent, seen, acked, faults>>

(***************************************************************************)
(* The environment.                                                        *)
(***************************************************************************)
\* A tick dies anywhere: killed, out of memory, the host restarts.
TickDies ==
    /\ tick.pc # "idle" /\ faults < MaxFaults
    /\ tick' = NoTick
    /\ faults' = faults + 1
    /\ UNCHANGED <<cfg, srv, net, sentNow, st, intent, seen, acked>>

\* An interval passes.  TimeoutStartSec ends a tick that is one interval old.
Clock ==
    /\ tick.pc = "idle" \/ tick.age = 0
    /\ sentNow' = FALSE
    /\ net' = Ranked({[p EXCEPT !.ttl = @ - 1] : p \in {q \in net : q.ttl > 1}})
    /\ st' = [st EXCEPT !.expiry = IF @ > 0 THEN @ - 1 ELSE 0, !.pulse = Older(@),
                        !.deliveryAge = Older(@), !.canaryAge = Older(@),
                        !.pendingAge = Older(@)]
    /\ intent' = [intent EXCEPT !.wait = IF @ > -1 THEN @ - 1 ELSE -1]
    /\ tick' = IF tick.pc = "idle" THEN tick ELSE [tick EXCEPT !.age = 1]
    /\ UNCHANGED <<cfg, srv, seen, acked, faults>>

\* The role publishes another generation's configuration, then restarts the
\* server; the timer job reads the published one at its next start.
Deploy(g) ==
    /\ g # cfg /\ srv = cfg
    /\ cfg' = g
    /\ UNCHANGED <<srv, net, sentNow, st, intent, tick, seen, acked, faults>>
RestartServer ==
    /\ srv # cfg
    /\ srv' = cfg
    /\ UNCHANGED <<cfg, net, sentNow, st, intent, tick, seen, acked, faults>>

\* _empty_state and no recovery record.
Init ==
    /\ cfg \in Gens /\ srv = cfg
    /\ net = {} /\ sentNow = FALSE
    /\ st = [gen |-> cfg, expiry |-> 0, pulse |-> Cap, incident |-> FALSE,
             lastDelivery |-> "never", deliveryAge |-> Cap, canary |-> "never",
             canaryAge |-> Cap, pending |-> "none", pendingAge |-> Cap]
    /\ intent = [phase |-> "none", nonce |-> -1, wait |-> -1]
    /\ tick = NoTick
    /\ seen = "none" /\ acked = FALSE /\ faults = 0

TickStep ==
    \/ ReadHealth \/ WriteHealth \/ AdoptAcknowledgement \/ ExpireReservation
    \/ NothingDue \/ ReserveIntent \/ ReserveState \/ RecordIntent \/ RecordState
    \/ ReportReverse

\* Admission alone: no tick writes what accept_pulse reads.
PulseNext ==
    \/ \E g \in Gens, ttl \in 1..(MaxFuture + 1) : SendPulse(g, ttl)
    \/ \E p \in net : ReceivePulse(p)
    \/ Clock
    \/ \E g \in Gens : Deploy(g)
    \/ RestartServer

Next ==
    \/ PulseNext
    \/ StartTick \/ TickStep
    \/ \E delivered, reported \in BOOLEAN : Telegram(delivered, reported)
    \/ TickDies

\* No clock is ahead and nothing takes longer than an interval: pulses arrive in
\* theirs or never, and a tick ends in its own.
PromptNext ==
    \/ \E g \in Gens : SendPulse(g, 1)
    \/ \E p \in net : ReceivePulse(p)
    \/ tick.pc = "idle" /\ Clock
    \/ \E g \in Gens : Deploy(g)
    \/ RestartServer
    \/ StartTick \/ TickStep
    \/ \E delivered, reported \in BOOLEAN : Telegram(delivered, reported)
    \/ TickDies

PulseSpec == Init /\ [][PulseNext]_vars
Spec == Init /\ [][Next]_vars

(***************************************************************************)
(* Properties.                                                             *)
(***************************************************************************)
TypeOK ==
    /\ cfg \in Gens /\ srv \in Gens
    /\ net \subseteq Pulse /\ sentNow \in BOOLEAN
    /\ st \in [gen : Gens, expiry : 0..MaxFuture, pulse : 0..Cap, incident : BOOLEAN,
               lastDelivery : {"never", "firing", "recovery", "failed"},
               deliveryAge : 0..Cap, canary : {"never", "success", "failed"},
               canaryAge : 0..Cap, pending : Events \cup {"none"}, pendingAge : 0..Cap]
    /\ intent \in [phase : {"none", "queued", "complete"}, nonce : -1..1,
                   wait : -1..Reminder]
    /\ tick \in [pc : {"idle", "lock", "health", "cleared", "pending", "choose",
                       "attempt", "send", "record", "recorded", "reverse"},
                 age : 0..1, gen : Gens, overdue : BOOLEAN, wasIncident : BOOLEAN,
                 event : Events \cup {"none"}, ok : BOOLEAN]
    /\ seen \in {"none", "firing", "recovery"} /\ acked \in BOOLEAN
    /\ faults \in 0..MaxFaults

\* No replay: a pulse that was accepted is refused for as long as it lives, by a
\* server of any generation, also after the configuration was changed and rolled
\* back and the sequence of its generation forgotten.
NoReplay == \A p \in net, g \in Gens : p.accepted => ~Acceptable(p, st, g)

\* Recovery owed: when the operator's last word is that the plane is down and the
\* receiver no longer holds an incident, the recovery notification is on record,
\* wherever a tick died between the two files.
RecoveryOwed == seen = "firing" /\ ~st.incident => intent.phase = "queued"

\* What the status page and the reverse report say was delivered last is what the
\* operator has, unless a reservation is open.
StatusTruthful ==
    st.pending = "none" /\ st.lastDelivery \in {"firing", "recovery"}
    => seen = st.lastDelivery

\* A recovery that was acknowledged is not sent again before the next incident,
\* even when the tick died between the acknowledgement and the state.
RecoveryOnce ==
    tick.pc = "send" /\ tick'.pc = "record" /\ tick.event = "recovery" => ~acked

=============================================================================
