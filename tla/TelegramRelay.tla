---------------------------- MODULE TelegramRelay ----------------------------
(***************************************************************************)
(* The primary notification path: observability-telegram-relay.py of the   *)
(* role observability_control_plane, with the delivery signal that checks  *)
(* it, observability-push.py of observability_kuma.  Two worker threads    *)
(* serve Alertmanager's webhooks and the delivery canary; they share one   *)
(* bot with a flood-control deadline (one request at a time, nobody waits) *)
(* and one receipt record, kept in memory and on disk under its own lock.  *)
(* The push job asks for a canary, reads the receipts, and only then tells *)
(* the observer that delivery works.                                       *)
(***************************************************************************)
EXTENDS Naturals, FiniteSets

CONSTANTS Workers,      \* RelayServer: BoundedSemaphore(2)
          Authorities,  \* digests of bot, chat, topic and token
          MaxSeq,       \* bound: delivery canaries
          MaxDay,       \* bound: days that pass
          MaxStamp,     \* bound: evaluations of the pipeline rule
          MaxFaults     \* bound: restarts, failed writes and killed push jobs

VARIABLES auth,     \* the authority the relay runs with
          mem,      \* Receipts.value
          disk,     \* receipts.json
          rlock,    \* the worker that holds Receipts.lock
          flock,    \* the worker that holds the attempt lock
          wait,     \* the flood deadline: 0 passed, 1 short, 2 longer than a retry
          work,     \* the request each worker serves
          day, stamp,
          push,     \* the push job of the kind "delivery"
          alert,    \* Alertmanager's notification: "owed" until it is answered 200,
                    \* "unfit" if its payload is one the relay does not admit
          posted, acked, received,    \* history: canaries that went on to the bot,
                                      \* edits acknowledged, pipeline stamps answered
          faults
vars == <<auth, mem, disk, rlock, flock, wait, work, day, stamp, push, alert,
          posted, acked, received, faults>>
relay == <<auth, mem, disk, rlock, flock, wait, work>>

Nobody == "nobody"
Idle == [req |-> "none", pc |-> "idle", try |-> 0, arg |-> 0]
Record == [rule : 0..MaxStamp, seq : 0..MaxSeq, edit : BOOLEAN,
           message : BOOLEAN, sent : 0..MaxDay, auth : Authorities]
Blank(a, s) == [rule |-> 0, seq |-> s, edit |-> FALSE, message |-> FALSE,
                sent |-> 0, auth |-> a]
Step(w, pc) == work' = [work EXCEPT ![w].pc = pc]
Done(w) == work' = [work EXCEPT ![w] = Idle]
Answer(w, status) == work' = [work EXCEPT ![w].pc = status]

(***************************************************************************)
(* deliver(): two attempts, each under the attempt lock and only when no   *)
(* deadline is pending; a worker that meets either gives up at once.       *)
(***************************************************************************)
\* What a failed delivery means to the handler: a 502, with the receipt lock freed.
Fails(w) ==
    /\ Answer(w, "502")
    /\ rlock' = IF rlock = w THEN Nobody ELSE rlock

Refused(w) == flock # Nobody \/ wait > 0

GiveUp(w) ==
    /\ work[w].pc \in {"deliver", "edit"} /\ Refused(w)
    /\ Fails(w)
    /\ UNCHANGED <<auth, mem, disk, flock, wait, day, stamp, push, alert, posted, acked,
                   received, faults>>

StartPost(w) ==
    /\ work[w].pc \in {"deliver", "edit"} /\ ~Refused(w)
    /\ flock' = w
    /\ Step(w, IF work[w].pc = "edit" THEN "editing" ELSE "sending")
    /\ UNCHANGED <<auth, mem, disk, rlock, wait, day, stamp, push, alert, posted, acked,
                   received, faults>>

\* The second attempt; after flood control it sleeps until the deadline it noted.
Retry(pc, flood) == CASE pc = "editing" -> (IF flood THEN "napEdit" ELSE "edit")
                      [] OTHER -> (IF flood THEN "napDeliver" ELSE "deliver")
Awake(pc) == CASE pc = "napEdit" -> "edit" [] pc = "napDeliver" -> "deliver" [] OTHER -> pc

\* A refusal by the bot, a server error, a timeout (the message may have gone out)
\* or flood control, whose deadline is noted before the lock is released.
PostFails(w, delay, retryable) ==
    /\ work[w].pc \in {"sending", "editing"}
    /\ flock' = Nobody
    /\ wait' = IF delay > wait THEN delay ELSE wait
    /\ IF retryable /\ delay < 2 /\ work[w].try = 0
       THEN work' = [work EXCEPT ![w].try = 1, ![w].pc = Retry(@, delay > 0)]
            /\ rlock' = rlock
       ELSE Fails(w)
    /\ UNCHANGED <<auth, mem, disk, day, stamp, push, alert, posted, acked, received, faults>>

(***************************************************************************)
(* Alerts.                                                                 *)
(***************************************************************************)
\* A worker takes up a request.
Take(w, req, pc, arg) ==
    /\ work[w] = Idle
    /\ work' = [work EXCEPT ![w] = [req |-> req, pc |-> pc, try |-> 0, arg |-> arg]]

TakeAlert(w) ==
    /\ alert = "owed"
    /\ Take(w, "alert", "deliver", 0)
    /\ alert' = "posted"
    /\ UNCHANGED <<auth, mem, disk, rlock, flock, wait, day, stamp, push, posted, acked,
                   received, faults>>

\* parse_payload() or the size limit refuses it, with a 4xx that is not retried.
RefuseAlert(w) ==
    /\ alert = "unfit" /\ work[w] = Idle
    /\ alert' = "refused"
    /\ UNCHANGED <<relay, day, stamp, push, posted, acked, received, faults>>

AlertSent(w) ==
    /\ work[w].req = "alert" /\ work[w].pc = "sending"
    /\ flock' = Nobody
    /\ Answer(w, "200")
    /\ UNCHANGED <<auth, mem, disk, rlock, wait, day, stamp, push, alert, posted, acked,
                   received, faults>>

\* Alertmanager: a 5xx is retried, a 200 ends the notification.  For a payload
\* that was admitted the only other answer is the 400 after a drill whose receipt
\* cannot be written, which also ends it: the message is out.
AlertAnswered(w) ==
    /\ work[w].req = "alert" /\ work[w].pc \in {"200", "502"}
    /\ alert' = IF work[w].pc = "200" THEN "delivered" ELSE "owed"
    /\ Done(w)
    /\ UNCHANGED <<auth, mem, disk, rlock, flock, wait, day, stamp, push, posted, acked,
                   received, faults>>

(***************************************************************************)
(* The pipeline canary: Receipts.pipeline.  A stamp is acknowledged when   *)
(* it is newer than the last, and only after it is on disk.                *)
(***************************************************************************)
TakePipeline(w, s) ==
    /\ s \in 1..stamp /\ s + 1 >= stamp
    /\ Take(w, "pipeline", "stamp", s)
    /\ UNCHANGED <<auth, mem, disk, rlock, flock, wait, day, stamp, push, alert, posted,
                   acked, received, faults>>

PipelineStamp(w, saved) ==
    /\ work[w].pc = "stamp" /\ rlock = Nobody
    /\ saved \/ faults < MaxFaults
    /\ IF work[w].arg > mem.rule
       THEN /\ mem' = [mem EXCEPT !.rule = work[w].arg]
            /\ disk' = IF saved THEN mem' ELSE disk
            /\ received' = IF saved THEN received \cup {work[w].arg} ELSE received
            /\ faults' = IF saved THEN faults ELSE faults + 1
       ELSE saved /\ UNCHANGED <<mem, disk, received, faults>>
    /\ Done(w)
    /\ UNCHANGED <<auth, rlock, flock, wait, day, stamp, push, alert, posted, acked>>

(***************************************************************************)
(* The delivery canary: Receipts.canary, under the receipt lock.           *)
(***************************************************************************)
TakeCanary(w) ==
    /\ push.pc = "ask"
    /\ mem.seq + Cardinality({v \in Workers : work[v].pc = "reserve"}) < MaxSeq
    /\ Take(w, "canary", "reserve", 1)
    /\ push' = [push EXCEPT !.pc = "waiting"]
    /\ UNCHANGED <<auth, mem, disk, rlock, flock, wait, day, stamp, alert, posted, acked,
                   received, faults>>

\* A new text is reserved, and the last success withdrawn, before anything is sent.
CanaryReserve(w, saved) ==
    /\ work[w].pc = "reserve" /\ rlock = Nobody
    /\ saved \/ faults < MaxFaults
    /\ mem' = [mem EXCEPT !.seq = @ + 1, !.edit = FALSE]
    /\ IF saved
       THEN /\ disk' = mem' /\ rlock' = w
            /\ Step(w, IF mem.message /\ day = mem.sent THEN "edit" ELSE "deliver")
            /\ posted' = posted \cup {mem'.seq}
            /\ faults' = faults
       ELSE /\ Answer(w, "502") /\ faults' = faults + 1
            /\ UNCHANGED <<disk, rlock, posted>>
    /\ UNCHANGED <<auth, flock, wait, day, stamp, push, alert, acked, received>>

\* The first message of a day; its identity is kept for the edits.
CanarySent(w, saved) ==
    /\ work[w].req = "canary" /\ work[w].pc = "sending"
    /\ saved \/ faults < MaxFaults
    /\ flock' = Nobody
    /\ mem' = [mem EXCEPT !.message = TRUE, !.sent = day]
    /\ IF saved
       THEN /\ disk' = mem' /\ faults' = faults /\ rlock' = rlock
            /\ work' = [work EXCEPT ![w].pc = "edit", ![w].try = 0]
       ELSE /\ disk' = disk /\ faults' = faults + 1 /\ Fails(w)
    /\ UNCHANGED <<auth, wait, day, stamp, push, alert, posted, acked, received>>

\* The edit is acknowledged; a success that cannot be written is withdrawn.
CanaryEdited(w, saved) ==
    /\ work[w].pc = "editing"
    /\ saved \/ faults < MaxFaults
    /\ flock' = Nobody /\ rlock' = Nobody
    /\ acked' = acked \cup {mem.seq}
    /\ mem' = [mem EXCEPT !.edit = saved]
    /\ disk' = IF saved THEN mem' ELSE disk
    /\ faults' = IF saved THEN faults ELSE faults + 1
    /\ Answer(w, IF saved THEN "200" ELSE "502")
    /\ UNCHANGED <<auth, wait, day, stamp, push, alert, posted, received>>

\* The answer reaches the push job that asked, if it is still there.
CanaryAnswered(w) ==
    /\ work[w].req = "canary" /\ work[w].pc \in {"200", "502"}
    /\ push' = IF push.pc = "waiting" /\ work[w].arg = 1
               THEN [push EXCEPT !.pc = IF work[w].pc = "200" THEN "read" ELSE "idle"]
               ELSE push
    /\ Done(w)
    /\ UNCHANGED <<auth, mem, disk, rlock, flock, wait, day, stamp, alert, posted, acked,
                   received, faults>>

(***************************************************************************)
(* The push job.                                                           *)
(***************************************************************************)
\* base remembers how many edits had been acknowledged when the job started.
PushStart ==
    /\ push.pc = "idle"
    /\ push' = [push EXCEPT !.pc = "ask", !.base = acked]
    /\ UNCHANGED <<relay, day, stamp, alert, posted, acked, received, faults>>

\* conditions(): the receipts as the relay serves them.  Receipts.snapshot takes the
\* receipt lock; without it the job sees more of the record's states, never fewer.
PushRead ==
    /\ push.pc = "read"
    /\ push' = IF mem.seq > push.saved /\ mem.edit
               THEN [push EXCEPT !.pc = "push", !.seq = mem.seq]
               ELSE [push EXCEPT !.pc = "idle"]
    /\ UNCHANGED <<relay, day, stamp, alert, posted, acked, received, faults>>

\* The observer is told, then the state is written.
PushSignal ==
    /\ push.pc = "push"
    /\ push' = [push EXCEPT !.pc = "save"]
    /\ UNCHANGED <<relay, day, stamp, alert, posted, acked, received, faults>>
PushSave ==
    /\ push.pc = "save"
    /\ push' = [push EXCEPT !.pc = "idle", !.saved = push.seq]
    /\ UNCHANGED <<relay, day, stamp, alert, posted, acked, received, faults>>

\* The job times out or is killed; the relay goes on with a request nobody waits for.
PushDies ==
    /\ push.pc # "idle" /\ faults < MaxFaults
    /\ push' = [push EXCEPT !.pc = "idle"]
    /\ work' = [w \in Workers |-> IF work[w].req = "canary" THEN [work[w] EXCEPT !.arg = 0]
                                  ELSE work[w]]
    /\ faults' = faults + 1
    /\ UNCHANGED <<auth, mem, disk, rlock, flock, wait, day, stamp, alert, posted, acked,
                   received>>

(***************************************************************************)
(* The environment.                                                        *)
(***************************************************************************)
\* The relay is restarted, perhaps with another authority: Receipts.__init__.
Loaded(a) == IF disk.auth = a THEN disk ELSE Blank(a, disk.seq)
RelayRestarts(a) ==
    /\ faults < MaxFaults /\ faults' = faults + 1
    /\ auth' = a
    /\ mem' = Loaded(a) /\ disk' = Loaded(a)
    /\ rlock' = Nobody /\ flock' = Nobody /\ wait' = 0
    /\ work' = [w \in Workers |-> Idle]
    /\ alert' = IF alert = "posted" THEN "owed" ELSE alert
    /\ push' = IF push.pc = "waiting" THEN [push EXCEPT !.pc = "idle"] ELSE push
    /\ received' = IF a = disk.auth THEN received ELSE {}
    /\ UNCHANGED <<day, stamp, posted, acked>>

DeadlinePasses ==
    /\ wait > 0
    /\ wait' = wait - 1
    /\ work' = IF wait = 1 THEN [w \in Workers |-> [work[w] EXCEPT !.pc = Awake(@)]] ELSE work
    /\ UNCHANGED <<auth, mem, disk, rlock, flock, day, stamp, push, alert, posted,
                   acked, received, faults>>
DayPasses ==
    /\ day < MaxDay /\ day' = day + 1
    /\ UNCHANGED <<relay, stamp, push, alert, posted, acked, received, faults>>
RuleEvaluates ==
    /\ stamp < MaxStamp /\ stamp' = stamp + 1
    /\ UNCHANGED <<relay, day, push, alert, posted, acked, received, faults>>
AlertFires ==
    /\ alert \in {"none", "delivered", "refused"}
    /\ alert' \in {"owed", "unfit"}
    /\ UNCHANGED <<relay, day, stamp, push, posted, acked, received, faults>>

Init ==
    /\ auth \in Authorities
    /\ mem = Blank(auth, 0) /\ disk = Blank(auth, 0)
    /\ rlock = Nobody /\ flock = Nobody /\ wait = 0
    /\ work = [w \in Workers |-> Idle]
    /\ day = 0 /\ stamp = 0
    /\ push = [pc |-> "idle", seq |-> 0, saved |-> 0, base |-> {}]
    /\ alert = "none"
    /\ posted = {} /\ acked = {} /\ received = {} /\ faults = 0

WorkerStep(w) ==
    \/ GiveUp(w) \/ StartPost(w)
    \/ \E delay \in 0..2, retryable \in BOOLEAN :
          (delay > 0 => retryable) /\ PostFails(w, delay, retryable)
    \/ AlertSent(w) \/ AlertAnswered(w)
    \/ \E saved \in BOOLEAN : \/ PipelineStamp(w, saved) \/ CanaryReserve(w, saved)
                              \/ CanarySent(w, saved) \/ CanaryEdited(w, saved)
    \/ CanaryAnswered(w)

Next ==
    \/ \E w \in Workers : \/ TakeAlert(w) \/ RefuseAlert(w) \/ TakeCanary(w) \/ WorkerStep(w)
                          \/ \E s \in 1..MaxStamp : TakePipeline(w, s)
    \/ PushStart \/ PushRead \/ PushSignal \/ PushSave \/ PushDies
    \/ \E a \in Authorities : RelayRestarts(a)
    \/ DeadlinePasses \/ DayPasses \/ RuleEvaluates \/ AlertFires

Spec == Init /\ [][Next]_vars

(***************************************************************************)
(* Properties.                                                             *)
(***************************************************************************)
TypeOK ==
    /\ auth \in Authorities /\ mem \in Record /\ disk \in Record
    /\ rlock \in Workers \cup {Nobody} /\ flock \in Workers \cup {Nobody} /\ wait \in 0..2
    /\ work \in [Workers -> [req : {"none", "alert", "pipeline", "canary"},
                             pc : {"idle", "deliver", "sending", "edit", "editing",
                                   "napDeliver", "napEdit", "stamp", "reserve", "200", "502"},
                             try : 0..1, arg : 0..MaxStamp]]
    /\ day \in 0..MaxDay /\ stamp \in 0..MaxStamp
    /\ push \in [pc : {"idle", "ask", "waiting", "read", "push", "save"},
                 seq : 0..MaxSeq, saved : 0..MaxSeq, base : SUBSET (1..MaxSeq)]
    /\ alert \in {"none", "owed", "posted", "delivered", "unfit", "refused"}
    /\ posted \subseteq 1..MaxSeq /\ acked \subseteq posted
    /\ received \subseteq 1..MaxStamp /\ faults \in 0..MaxFaults

\* No request passes the bot's deadline: while one is under way it is alone and no
\* deadline learned by another thread is pending.
FloodRespected ==
    /\ flock # Nobody => wait = 0
    /\ {w \in Workers : work[w].pc \in {"sending", "editing"}} \subseteq {flock}

\* No canary text is used twice, whatever the relay lost when it was restarted or
\* given another authority: an edit to the same text would prove nothing.
SequenceFresh ==
    \A w \in Workers :
       work[w].pc = "reserve" /\ work'[w].pc \in {"deliver", "edit"}
       => mem'.seq \notin posted

\* The receipt shows a success only for the very edit the bot acknowledged, in
\* memory and in what a restart would load.
EditHonest == \A r \in {mem, disk} : r.edit => r.seq \in acked

\* The observer hears that delivery works only on the strength of an edit that was
\* acknowledged since this job started.  It may be the edit of a request that an
\* earlier, killed job made.
PushProof == push.pc \in {"push", "save"} => push.seq \in acked \ push.base

\* A pipeline stamp that was answered as received stays on record across restarts
\* under the same authority, so that a repeated one is refused.
StampDurable == \A e \in received : e <= mem.rule /\ e <= disk.rule

=============================================================================
