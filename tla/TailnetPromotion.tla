-------------------------- MODULE TailnetPromotion --------------------------
(***************************************************************************)
(* Promotion of one node to Tailnet management (make tailnet-network-      *)
(* promote): the controller switches the provider firewall on with         *)
(* Terraform and opens the guest's Tailnet SSH sets, under a lease that an *)
(* independent daemon holds in a durable receipt and rolls back when it    *)
(* runs out.                                                               *)
(*                                                                         *)
(*   scripts/tailnet-network-controller.py  run, _reconcile_previous       *)
(*   scripts/tailnet-network-promotion.py   _execute, TerraformAdapter     *)
(*   scripts/tailnet-network-executor.py    Executor.guard, serve          *)
(*   scripts/tailnet-network-guest.py       Transaction                    *)
(*                                                                         *)
(* Four parties move on their own: controllers (nothing excludes a second  *)
(* one), the daemon, which serves one request at a time from its socket,   *)
(* Terraform child processes, which outlive a killed parent, and the       *)
(* guest, which recovers by its own clock.  What a request carries is its  *)
(* capability: the generation of the lease and the receipt state it was    *)
(* read in.  The provider's firewall (cloud) and the local Terraform state *)
(* that every readback reads (tfstate) are two variables.                  *)
(***************************************************************************)
EXTENDS Naturals, Sequences

CONSTANTS
    Controllers,   \* controller processes that may run
    Backlog,       \* connections the daemon's socket holds (listen(8))
    MaxGen,        \* guest transactions and leases created
    MaxSlips,      \* failed or unanswered remote calls and commands
    MaxKills,      \* controllers that die
    MaxDeaths,     \* deaths of the daemon, and reboots of the guest
    MaxCuts        \* Terraform processes killed or orphaned in their request

TailnetAssumption ==
    /\ MaxGen \in Nat \ {0} /\ Backlog \in Nat \ {0}
    /\ {MaxSlips, MaxKills, MaxDeaths, MaxCuts} \subseteq Nat
    /\ {"daemon", "free", "gone", "self", "orphan", "none"} \cap Controllers = {}

VARIABLES
    receipt,  \* receipt.json of the daemon
    late,     \* generations whose deadline has passed at the operator's host
    glate,    \* ... and at the guest
    daemon,   \* the daemon: up, and the request it is working on
    queue,    \* requests waiting in the listen backlog of the socket
    lock,     \* holder of provider.lock
    cloud,    \* TRUE when the provider's firewall is on
    tfstate,  \* the firewall attribute in the Terraform state file
    tf,       \* the Terraform apply that runs
    guest,    \* the guest transaction (GuestPromise)
    ctl,      \* the controllers
    gens,     \* generations handed out
    spent     \* faults used so far

vars == <<receipt, late, glate, daemon, queue, lock, cloud, tfstate, tf,
          guest, ctl, gens, spent>>

G == INSTANCE GuestPromise

provider == <<cloud, tfstate, tf>>
clocks   == <<late, glate, gens>>

Gens   == 1 .. MaxGen
Leased == {"armed", "forward-started", "provider-applied"}
Closed == {"executed", "released"}

NoReceipt == [st |-> "none", gen |-> 0, phase |-> "none"]
Cap(r)    == [st |-> r.st, gen |-> r.gen]
NoCap     == Cap(NoReceipt)
NoTf      == [dir |-> "none", by |-> "none", st |-> "none"]
Idle      == [up |-> TRUE, op |-> "idle", by |-> "none", cap |-> NoCap, held |-> FALSE]
Down      == [Idle EXCEPT !.up = FALSE]

Off == [pc |-> "off", cap |-> NoCap, phase |-> "none", ident |-> 0,
        started |-> FALSE, rb |-> FALSE, mine |-> FALSE, rec |-> FALSE,
        wait |-> "no", got |-> NoReceipt]

Pcs == {"off", "rec", "ack", "rstatus", "hydrate", "plan", "prepare", "arm",
        "begin", "lock", "inspect", "apply", "applying", "mark", "rbplan",
        "gapply", "checks", "gstatus", "confirm", "commit", "release",
        "undo", "undoing", "withdraw", "gundo", "finish"}

TypeOK ==
    /\ receipt \in [st : {"none", "committed-cleanup-debt"} \cup Leased \cup Closed,
                    gen : Gens \cup {0},
                    phase : {"none", "transactional", "unchanged"}]
    /\ late \subseteq Gens /\ glate \subseteq Gens
    /\ daemon.up \in BOOLEAN /\ daemon.held \in BOOLEAN
    /\ daemon.held <=> lock = "daemon"
    /\ lock \in Controllers \cup {"free", "daemon"}
    /\ cloud \in BOOLEAN /\ tfstate \in BOOLEAN
    /\ tf.dir \in {"none", "forward", "rollback"}
    /\ tf.by \in Controllers \cup {"daemon", "orphan", "none"}
    /\ guest.st \in {"idle", "prepared", "applied", "committed", "unfinished",
                     "rolled_back"}
    /\ guest.gen \in Gens \cup {0}
    /\ \A c \in Controllers : ctl[c].pc \in Pcs /\ ctl[c].wait \in {"no", "sent", "ok", "err"}
    /\ gens \in 0 .. MaxGen

Init ==
    /\ receipt = NoReceipt
    /\ late = {} /\ glate = {}
    /\ daemon = Down
    /\ queue = << >>
    /\ lock = "free"
    /\ cloud = FALSE /\ tfstate = FALSE
    /\ tf = NoTf
    /\ guest = G!NewGuest
    /\ ctl = [c \in Controllers |-> Off]
    /\ gens = 0
    /\ spent = [slip |-> 0, kill |-> 0, death |-> 0, cut |-> 0]

-----------------------------------------------------------------------------
(* Faults, and the two clocks.                                             *)

Limit == [slip |-> MaxSlips, kill |-> MaxKills, death |-> MaxDeaths, cut |-> MaxCuts]

Spend(ks) ==
    /\ \A k \in ks : spent[k] < Limit[k]
    /\ spent' = [k \in DOMAIN spent |-> IF k \in ks THEN spent[k] + 1 ELSE spent[k]]

Slip == Spend({"slip"})

\* The deadline of a generation passes at the operator's host, and at the guest.
Lapse ==
    /\ \E g \in 1 .. gens : g \notin late /\ late' = late \cup {g}
    /\ UNCHANGED <<receipt, glate, daemon, queue, lock, provider, guest, ctl, gens, spent>>

GuestLapse ==
    /\ \E g \in 1 .. gens : g \notin glate /\ glate' = glate \cup {g}
    /\ UNCHANGED <<receipt, late, daemon, queue, lock, provider, guest, ctl, gens, spent>>

-----------------------------------------------------------------------------
(* Terraform.  The request takes effect at the provider before the state   *)
(* file is written; a process killed by the timeout of its parent, or left *)
(* behind by a dead parent, may stop between the two.                      *)

TfSend ==
    /\ tf.st = "run"
    /\ cloud' = (tf.dir = "forward")
    /\ tf' = [tf EXCEPT !.st = "sent"]
    /\ UNCHANGED <<receipt, clocks, daemon, queue, lock, tfstate, guest, ctl, spent>>

TfEnd(st) == IF tf.by = "orphan" THEN NoTf ELSE [tf EXCEPT !.st = st]

TfWrite ==
    /\ tf.st = "sent"
    /\ tfstate' = (tf.dir = "forward")
    /\ tf' = TfEnd("done")
    /\ UNCHANGED <<receipt, clocks, daemon, queue, lock, cloud, guest, ctl, spent>>

\* The provider refuses, or (a cut) the process is killed where it stands.
TfFail ==
    /\ \/ tf.st = "run" /\ Slip
       \/ tf.st = "sent" /\ Spend({"cut"})
    /\ tf' = TfEnd("failed")
    /\ UNCHANGED <<receipt, clocks, daemon, queue, lock, cloud, tfstate, guest, ctl>>

Free(t) == t.dir = "none"

-----------------------------------------------------------------------------
(* The daemon.                                                             *)

Locked == {"reconcile", "rollback-provider", "execute", "expire"}

\* A request and its answer: what guard makes of one that needs no provider
\* lock.  exit: the daemon ends after the answer.
Answered(ok, r, exit) == [ok |-> ok, r |-> r, exit |-> exit]

guard(q) ==
    LET same  == receipt.gen = q.cap.gen /\ receipt.st # "none"
        To(s) == Answered(TRUE, [receipt EXCEPT !.st = s], s = "released")
    IN  CASE q.act = "arm" /\ receipt = NoReceipt /\ q.cap.gen \notin late ->
               Answered(TRUE, [st |-> "armed", gen |-> q.cap.gen, phase |-> q.phase], FALSE)
          [] q.act = "inspect" /\ same -> Answered(TRUE, receipt, FALSE)
          [] q.act = "begin-forward" /\ same /\ receipt.st = "armed"
             /\ receipt.gen \notin late -> To("forward-started")
          [] q.act = "mark-applied" /\ same /\ receipt.st = "forward-started" ->
               To("provider-applied")
          [] q.act = "commit" /\ same /\ receipt.st = "provider-applied" ->
               To("committed-cleanup-debt")
          [] q.act = "release" /\ same /\ receipt.st = "committed-cleanup-debt" ->
               To("released")
          [] q.act = "acknowledge" /\ receipt.st \in Closed /\ q.cap.st = receipt.st ->
               Answered(TRUE, NoReceipt, TRUE)
          [] OTHER -> Answered(FALSE, receipt, FALSE)

\* The daemon answers by; when it ends, every other waiting caller is cut off.
Answer(by, a) ==
    /\ receipt' = a.r
    /\ ctl' = [c \in Controllers |->
                 IF c = by
                 THEN [ctl[c] EXCEPT !.wait = IF a.ok THEN "ok" ELSE "err", !.got = a.r]
                 ELSE IF a.exit /\ ctl[c].wait = "sent"
                      THEN [ctl[c] EXCEPT !.wait = "err"] ELSE ctl[c]]

\* One turn of the serve loop: accept a request; those that need the provider
\* lock wait for it, and nothing else is served meanwhile.
Serve ==
    /\ daemon = Idle /\ queue # << >>
    /\ LET q == Head(queue)
       IN  IF q.act \in Locked
           THEN /\ daemon' = [Idle EXCEPT !.op = q.act, !.by = q.by, !.cap = q.cap]
                /\ queue' = Tail(queue)
                /\ UNCHANGED <<receipt, ctl>>
           ELSE LET a == guard(q)
                IN  /\ Answer(q.by, a)
                    /\ daemon' = IF a.exit THEN Down ELSE Idle
                    /\ queue' = IF a.exit THEN << >> ELSE Tail(queue)
    /\ UNCHANGED <<clocks, lock, provider, guest, spent>>

\* No request within a second: reconcile looks for a lease that ran out.
Tick ==
    /\ daemon = Idle /\ queue = << >>
    /\ receipt.st \in Leased /\ receipt.gen \in late
    /\ daemon' = [Idle EXCEPT !.op = "expire", !.by = "self", !.cap = Cap(receipt)]
    /\ UNCHANGED <<receipt, clocks, queue, lock, provider, guest, ctl, spent>>

DaemonLock ==
    /\ daemon.op # "idle" /\ ~daemon.held /\ lock = "free"
    /\ lock' = "daemon"
    /\ daemon' = [daemon EXCEPT !.held = TRUE]
    /\ UNCHANGED <<receipt, clocks, queue, provider, guest, ctl, spent>>

\* The end of a locked request.
Done(a) ==
    /\ Answer(daemon.by, a)
    /\ lock' = "free"
    /\ daemon' = IF a.exit THEN Down ELSE Idle
    /\ queue' = IF a.exit THEN << >> ELSE queue
    /\ UNCHANGED <<clocks, guest>>

Refused  == Answered(FALSE, receipt, FALSE)
Executed == Answered(TRUE, [receipt EXCEPT !.st = "executed"], TRUE)

\* May the locked request roll the provider back?
Admitted ==
    /\ receipt.st \in Leased
    /\ CASE daemon.op = "rollback-provider" -> daemon.cap = Cap(receipt)
         [] daemon.op = "execute" -> daemon.cap = Cap(receipt) /\ receipt.gen \notin late
         [] OTHER -> daemon.cap.gen = receipt.gen

Rolled == IF daemon.op = "rollback-provider" THEN Answered(TRUE, receipt, FALSE) ELSE Executed

\* With both locks: a false readback ends the request at once, a true one needs
\* a reviewed rollback plan (a refreshed plan of exactly true to false).
Locally ==
    /\ daemon.held /\ tf.by # "daemon"
    /\ \/ daemon.op = "reconcile" /\ Done(Answered(TRUE, receipt, FALSE)) /\ UNCHANGED <<provider, spent>>
       \/ daemon.op # "reconcile" /\ ~Admitted /\ Done(Refused) /\ UNCHANGED <<provider, spent>>
       \/ daemon.op # "reconcile" /\ Admitted /\ ~tfstate /\ Done(Rolled) /\ UNCHANGED <<provider, spent>>
       \/ /\ daemon.op # "reconcile" /\ Admitted /\ tfstate
          /\ \/ ~(Free(tf) /\ cloud) /\ UNCHANGED spent
             \/ Slip
          /\ Done(Refused) /\ UNCHANGED provider

DaemonRollback ==
    /\ daemon.held /\ tf.by # "daemon"
    /\ daemon.op # "reconcile" /\ Admitted /\ tfstate
    /\ Free(tf) /\ cloud
    /\ tf' = [dir |-> "rollback", by |-> "daemon", st |-> "run"]
    /\ UNCHANGED <<receipt, clocks, daemon, queue, lock, cloud, tfstate, guest, ctl, spent>>

DaemonRolled ==
    /\ tf.by = "daemon" /\ tf.st \in {"done", "failed"}
    /\ tf' = NoTf
    /\ Done(IF tf.st = "done" THEN Rolled ELSE Refused)
    /\ UNCHANGED <<cloud, tfstate, spent>>

DaemonDies ==
    /\ daemon.up
    /\ Spend(IF tf.by = "daemon" THEN {"death", "cut"} ELSE {"death"})
    /\ daemon' = Down /\ queue' = << >>
    /\ lock' = IF lock = "daemon" THEN "free" ELSE lock
    /\ tf' = IF tf.by # "daemon" THEN tf
             ELSE IF tf.st \in {"done", "failed"} THEN NoTf ELSE [tf EXCEPT !.by = "orphan"]
    /\ ctl' = [c \in Controllers |->
                 IF ctl[c].wait = "sent" THEN [ctl[c] EXCEPT !.wait = "err"] ELSE ctl[c]]
    /\ UNCHANGED <<receipt, clocks, cloud, tfstate, guest>>

-----------------------------------------------------------------------------
(* The guest on its own: recover, every 30 seconds, and boot-recover,      *)
(* before the firewall is loaded.                                          *)

GuestRecover ==
    /\ \/ G!Recovers /\ UNCHANGED spent
       \/ G!RecoverFails /\ Slip
    /\ UNCHANGED <<receipt, clocks, daemon, queue, lock, provider, ctl>>

GuestReboot ==
    /\ G!Reboots
    /\ Spend({"death"})
    /\ UNCHANGED <<receipt, clocks, daemon, queue, lock, provider, ctl>>

-----------------------------------------------------------------------------
(* The controller.                                                         *)

Go(c, p)   == ctl' = [ctl EXCEPT ![c].pc = p, ![c].wait = "no"]
At(c, p)   == ctl[c].pc = p /\ ctl[c].wait = "no"
Got(c, p)  == ctl[c].pc = p /\ ctl[c].wait = "ok"
Lost(c, p) == ctl[c].pc = p /\ ctl[c].wait = "err"

\* The exit of run on an error: a daemon this run spawned and never armed goes
\* when it answers the ping that asks for its receipt; one that is busy with an
\* earlier request lets the ping time out, and stays (mine, with pc "off").
Leave(c) ==
    LET unarmed == ctl[c].mine /\ daemon.up /\ receipt = NoReceipt
        answers == daemon = Idle /\ queue = << >>
    IN  /\ ctl' = [ctl EXCEPT ![c] = [Off EXCEPT !.mine = unarmed /\ ~answers]]
        /\ daemon' = IF unarmed /\ answers THEN Down ELSE daemon

\* Mutation: the guest is rolled back first.
FailedGuestFirst(c) == "gundo"

Failed(c) ==
    LET s == ctl[c]
    IN  IF ~s.started THEN "gundo" ELSE IF s.rb THEN "undo" ELSE "withdraw"

\* run: spawn the daemon, or join the one whose receipt holds a lease.
Start(c) ==
    /\ ctl[c].pc = "off"
    /\ daemon.up => receipt.st \in Leased \cup {"committed-cleanup-debt"}
    /\ daemon' = IF daemon.up THEN daemon ELSE Idle
    /\ ctl' = [x \in Controllers |->
                 IF x = c THEN [Off EXCEPT !.pc = "rec", !.mine = ~daemon.up, !.rec = TRUE]
                 ELSE IF ctl[x].pc = "off" /\ ~daemon.up THEN Off ELSE ctl[x]]
    /\ UNCHANGED <<receipt, clocks, queue, lock, provider, guest, spent>>

Dies(c) ==
    /\ ctl[c].pc # "off"
    /\ Spend(IF tf.by = c THEN {"kill", "cut"} ELSE {"kill"})
    /\ ctl' = [ctl EXCEPT ![c] = Off]
    /\ queue' = [i \in DOMAIN queue |->
                   IF queue[i].by = c THEN [queue[i] EXCEPT !.by = "gone"] ELSE queue[i]]
    /\ daemon' = IF daemon.by = c THEN [daemon EXCEPT !.by = "gone"] ELSE daemon
    /\ lock' = IF lock = c THEN "free" ELSE lock
    /\ tf' = IF tf.by # c THEN tf
             ELSE IF tf.st \in {"done", "failed"} THEN NoTf ELSE [tf EXCEPT !.by = "orphan"]
    /\ UNCHANGED <<receipt, clocks, cloud, tfstate, guest>>

\* The guard calls, and what the adapter refuses to ask once the lease is late.
Request == [rec |-> "reconcile", ack |-> "acknowledge", hydrate |-> "inspect",
            arm |-> "arm", begin |-> "begin-forward", inspect |-> "inspect",
            mark |-> "mark-applied", commit |-> "commit", release |-> "release",
            withdraw |-> "rollback-provider", finish |-> "execute"]

Timely(c) ==
    \/ ctl[c].pc \in {"rec", "ack", "begin", "inspect", "mark"}
    \/ ctl[c].pc \in {"withdraw", "finish"} /\ ctl[c].rec
    \/ ctl[c].cap.gen \notin late

Call(c) ==
    /\ ctl[c].pc \in DOMAIN Request /\ ctl[c].wait = "no"
    /\ IF daemon.up /\ Len(queue) < Backlog /\ Timely(c)
       THEN /\ queue' = Append(queue, [by |-> c, act |-> Request[ctl[c].pc],
                                       cap |-> ctl[c].cap, phase |-> ctl[c].phase])
            /\ ctl' = [ctl EXCEPT ![c].wait = "sent"]
       ELSE /\ ctl' = [ctl EXCEPT ![c].wait = "err"]
            /\ UNCHANGED queue
    /\ UNCHANGED <<receipt, clocks, daemon, lock, provider, guest, spent>>

\* The caller gives up; its request stays in the backlog and is served late.  It
\* always does when the daemon waits for the lock a controller holds, the caller
\* itself perhaps.
Timeout(c) ==
    /\ ctl[c].wait = "sent"
    /\ \/ Slip
       \/ daemon.op # "idle" /\ lock \in Controllers /\ UNCHANGED spent
    /\ ctl' = [ctl EXCEPT ![c].wait = "err"]
    /\ queue' = [i \in DOMAIN queue |->
                   IF queue[i].by = c THEN [queue[i] EXCEPT !.by = "gone"] ELSE queue[i]]
    /\ daemon' = IF daemon.by = c THEN [daemon EXCEPT !.by = "gone"] ELSE daemon
    /\ UNCHANGED <<receipt, clocks, lock, provider, guest>>

-----------------------------------------------------------------------------
(* _reconcile_previous.                                                    *)

Reconcile(c) ==
    /\ Got(c, "rec")
    /\ LET r == ctl[c].got
       IN  ctl' = [ctl EXCEPT ![c].wait = "no", ![c].cap = Cap(r), ![c].phase = r.phase,
                    ![c].started = r.st \in Leased,
                    ![c].rec = r.st # "none",
                    ![c].pc = CASE r.st = "none" -> "plan"
                                [] r.st \in Closed -> "ack"
                                [] r.st \in Leased -> IF r.phase = "unchanged"
                                                      THEN "withdraw" ELSE "rstatus"
                                [] OTHER -> "hydrate"]
    /\ UNCHANGED <<receipt, clocks, daemon, queue, lock, provider, guest, spent>>

\* The guest's status decides: roll both back, or finish a confirmed promotion
\* after a fresh proof.
ReconcileStatus(c) ==
    /\ At(c, "rstatus")
    /\ LET s == ctl[c].cap
           own == guest.gen = s.gen
       IN  \/ /\ own /\ guest.st = "rolled_back"
              /\ Go(c, "withdraw") /\ UNCHANGED <<daemon, spent>>
           \/ /\ own
              /\ \/ guest.st = "prepared"
                 \/ guest.st = "applied" /\ s.st = "provider-applied"
              /\ ctl' = [ctl EXCEPT ![c].pc = "withdraw", ![c].ident = s.gen]
              /\ UNCHANGED <<daemon, spent>>
           \/ /\ own /\ guest.st = "committed" /\ s.st = "provider-applied"
              /\ Go(c, "hydrate") /\ UNCHANGED <<daemon, spent>>
           \/ /\ \/ /\ ~(own /\ guest.st \in {"rolled_back", "prepared"})
                    /\ ~(own /\ guest.st \in {"applied", "committed"} /\ s.st = "provider-applied")
                    /\ UNCHANGED spent
                 \/ Slip
              /\ Leave(c)
    /\ UNCHANGED <<receipt, clocks, queue, lock, provider, guest>>

\* reconcile_release and reconcile_commit_release.
Hydrate(c) ==
    /\ Got(c, "hydrate")
    /\ LET r == ctl[c].got
           held == r.gen \notin late
       IN  IF held /\ r.st \in {"provider-applied", "committed-cleanup-debt"}
           THEN /\ ctl' = [ctl EXCEPT ![c].wait = "no", ![c].cap = Cap(r),
                            ![c].pc = IF r.st = "provider-applied" THEN "commit" ELSE "release"]
                /\ UNCHANGED daemon
           ELSE Leave(c)
    /\ UNCHANGED <<receipt, clocks, queue, lock, provider, guest, spent>>

\* A run that is over: acknowledged, released or executed, or with an error.
Ends(c) ==
    /\ \E p \in {"ack", "release", "finish"} : Got(c, p) \/ Lost(c, p)
    /\ Leave(c)
    /\ UNCHANGED <<receipt, clocks, queue, lock, provider, guest, spent>>

GivesUp(c) ==
    /\ \E p \in {"rec", "hydrate", "commit", "withdraw"} : Lost(c, p)
    /\ Leave(c)
    /\ UNCHANGED <<receipt, clocks, queue, lock, provider, guest, spent>>

-----------------------------------------------------------------------------
(* _execute: the forward path.                                             *)

\* The refreshed forward plan must be exactly false to true.
Plan(c) ==
    /\ At(c, "plan")
    /\ \/ ~tfstate /\ ~cloud /\ Free(tf) /\ Go(c, "prepare") /\ UNCHANGED <<daemon, spent>>
       \/ (tfstate \/ cloud \/ ~Free(tf)) /\ Leave(c) /\ UNCHANGED spent
    /\ UNCHANGED <<receipt, clocks, queue, lock, provider, guest>>

\* The guest writes a receipt of its own, or has nothing to change; in the
\* second case arm_rollback invents the identity and the deadline.
Prepare(c) ==
    /\ At(c, "prepare")
    /\ LET g    == gens + 1
           arm(phase, ident) ==
               ctl' = [ctl EXCEPT ![c].pc = "arm", ![c].cap = [st |-> "armed", gen |-> g],
                        ![c].phase = phase, ![c].ident = ident]
       IN  \/ /\ g \in Gens /\ gens' = g
              /\ \/ /\ guest.st # "committed" /\ G!Prepares(g)
                    /\ arm("transactional", g) /\ UNCHANGED <<daemon, spent>>
                 \/ guest.st # "committed" /\ G!Prepares(g) /\ Slip /\ Leave(c)
                 \/ guest.st = "committed" /\ arm("unchanged", 0) /\ UNCHANGED <<guest, daemon, spent>>
           \/ /\ g \notin Gens \/ guest.st \notin G!Terminal
              /\ Leave(c) /\ UNCHANGED <<guest, gens, spent>>
    /\ UNCHANGED <<receipt, late, glate, queue, lock, provider>>

\* The answer of arm is checked against the clock once more.
Armed(c) ==
    /\ \/ /\ Got(c, "arm") /\ ctl[c].cap.gen \notin late
          /\ ctl' = [ctl EXCEPT ![c].pc = "begin", ![c].wait = "no", ![c].started = TRUE]
       \/ /\ Lost(c, "arm") \/ (Got(c, "arm") /\ ctl[c].cap.gen \in late)
          /\ Go(c, "gundo")
    /\ UNCHANGED <<receipt, clocks, daemon, queue, lock, provider, guest, spent>>

\* begin_forward keeps the armed capability until the lease has been read again
\* under the provider lock.
Begun(c) ==
    /\ \/ Got(c, "begin") /\ Go(c, "lock")
       \/ Lost(c, "begin") /\ Go(c, Failed(c))
    /\ UNCHANGED <<receipt, clocks, daemon, queue, lock, provider, guest, spent>>

TakeLock(c) ==
    /\ At(c, "lock") /\ lock = "free"
    /\ lock' = c
    /\ Go(c, "inspect")
    /\ UNCHANGED <<receipt, clocks, daemon, queue, provider, guest, spent>>

Inspected(c) ==
    /\ ctl[c].pc = "inspect" /\ ctl[c].wait \in {"ok", "err"}
    /\ IF ctl[c].wait = "ok" /\ ctl[c].got.st = "forward-started" /\ ctl[c].cap.gen \notin late
       THEN /\ ctl' = [ctl EXCEPT ![c].pc = "apply", ![c].wait = "no", ![c].cap = Cap(ctl[c].got)]
            /\ UNCHANGED lock
       ELSE Go(c, Failed(c)) /\ lock' = "free"
    /\ UNCHANGED <<receipt, clocks, daemon, queue, provider, guest, spent>>

\* apply_forward, under the provider lock until mark_applied has its answer.
ApplyForward(c) ==
    /\ At(c, "apply")
    /\ IF ctl[c].cap.gen \notin late /\ ~tfstate /\ Free(tf)
       THEN /\ tf' = [dir |-> "forward", by |-> c, st |-> "run"]
            /\ Go(c, "applying") /\ UNCHANGED lock
       ELSE /\ Go(c, Failed(c)) /\ lock' = "free" /\ UNCHANGED tf
    /\ UNCHANGED <<receipt, clocks, daemon, queue, cloud, tfstate, guest, spent>>

AppliedForward(c) ==
    /\ At(c, "applying") /\ tf.by = c /\ tf.st \in {"done", "failed"}
    /\ tf' = NoTf
    /\ IF tf.st = "done" THEN Go(c, "mark") /\ UNCHANGED lock
                         ELSE Go(c, Failed(c)) /\ lock' = "free"
    /\ UNCHANGED <<receipt, clocks, daemon, queue, cloud, tfstate, guest, spent>>

Marked(c) ==
    /\ \/ /\ Got(c, "mark")
          /\ ctl' = [ctl EXCEPT ![c].pc = "rbplan", ![c].wait = "no",
                      ![c].cap = Cap(ctl[c].got)]
       \/ Lost(c, "mark") /\ Go(c, Failed(c))
    /\ lock' = "free"
    /\ UNCHANGED <<receipt, clocks, daemon, queue, provider, guest, spent>>

PlanRollback(c) ==
    /\ At(c, "rbplan")
    /\ \/ /\ tfstate /\ cloud /\ Free(tf)
          /\ ctl' = [ctl EXCEPT ![c].rb = TRUE,
                      ![c].pc = IF ctl[c].ident = 0 THEN "checks" ELSE "gapply"]
          /\ UNCHANGED spent
       \/ ~(tfstate /\ cloud /\ Free(tf)) /\ Go(c, Failed(c)) /\ UNCHANGED spent
       \/ Slip /\ Go(c, Failed(c))
    /\ UNCHANGED <<receipt, clocks, daemon, queue, lock, provider, guest>>

GuestApply(c) ==
    /\ At(c, "gapply")
    /\ LET g == ctl[c].ident
       IN  \/ G!Applies(g) /\ Go(c, "checks") /\ UNCHANGED spent
           \/ /\ G!Applies(g) \/ G!ApplyFails(g) \/ (G!CanApply(g) /\ UNCHANGED guest)
              /\ Slip /\ Go(c, Failed(c))
           \/ ~G!CanApply(g) /\ Go(c, Failed(c)) /\ UNCHANGED <<guest, spent>>
    /\ UNCHANGED <<receipt, clocks, daemon, queue, lock, provider>>

\* Public and Tailnet connections, then the promotion proof.
Checks(c) ==
    /\ At(c, "checks")
    /\ \/ Go(c, "gstatus") /\ UNCHANGED spent
       \/ Slip /\ Go(c, Failed(c))
    /\ UNCHANGED <<receipt, clocks, daemon, queue, lock, provider, guest>>

\* The guest is still applied and the provider still reads true.
Status(c) ==
    /\ At(c, "gstatus")
    /\ IF tfstate /\ (ctl[c].ident = 0 \/ (guest.st = "applied" /\ guest.gen = ctl[c].ident))
       THEN Go(c, IF ctl[c].ident = 0 THEN "commit" ELSE "confirm")
       ELSE Go(c, Failed(c))
    /\ UNCHANGED <<receipt, clocks, daemon, queue, lock, provider, guest, spent>>

\* Mutation: a refused confirm counts as confirmed.
ConfirmAssumed(c) ==
    /\ At(c, "confirm")
    /\ guest' = IF guest.gen = ctl[c].ident /\ guest.st = "applied" /\ guest.gen \notin glate
                THEN [guest EXCEPT !.st = "committed"] ELSE guest
    /\ Go(c, "commit")
    /\ UNCHANGED <<receipt, clocks, daemon, queue, lock, provider, spent>>

Confirm(c) ==
    /\ At(c, "confirm")
    /\ LET g == ctl[c].ident
       IN  \/ G!Confirms(g) /\ Go(c, "commit") /\ UNCHANGED spent
           \/ /\ G!Confirms(g) \/ (G!CanConfirm(g) /\ UNCHANGED guest)
              /\ Slip /\ Go(c, Failed(c))
           \/ ~G!CanConfirm(g) /\ Go(c, Failed(c)) /\ UNCHANGED <<guest, spent>>
    /\ UNCHANGED <<receipt, clocks, daemon, queue, lock, provider>>

Committed(c) ==
    /\ Got(c, "commit")
    /\ ctl' = [ctl EXCEPT ![c].pc = "release", ![c].wait = "no", ![c].cap = Cap(ctl[c].got)]
    /\ UNCHANGED <<receipt, clocks, daemon, queue, lock, provider, guest, spent>>

-----------------------------------------------------------------------------
(* The way back: provider, then guest, then the lease.                     *)

\* apply("rollback") with the plan the controller saved, without the provider
\* lock; whatever stops it, the daemon is asked instead.
Undo(c) ==
    /\ At(c, "undo")
    /\ IF tfstate /\ Free(tf)
       THEN /\ tf' = [dir |-> "rollback", by |-> c, st |-> "run"]
            /\ Go(c, "undoing")
       ELSE Go(c, "withdraw") /\ UNCHANGED tf
    /\ UNCHANGED <<receipt, clocks, daemon, queue, lock, cloud, tfstate, guest, spent>>

Undone(c) ==
    /\ At(c, "undoing") /\ tf.by = c /\ tf.st \in {"done", "failed"}
    /\ tf' = NoTf
    /\ Go(c, IF tf.st = "done" THEN "gundo" ELSE "withdraw")
    /\ UNCHANGED <<receipt, clocks, daemon, queue, lock, cloud, tfstate, guest, spent>>

Withdrawn(c) ==
    /\ Got(c, "withdraw")
    /\ IF ctl[c].rec \/ ~tfstate THEN Go(c, "gundo") /\ UNCHANGED daemon ELSE Leave(c)
    /\ UNCHANGED <<receipt, clocks, queue, lock, provider, guest, spent>>

GuestUndo(c) ==
    /\ At(c, "gundo")
    /\ LET s == ctl[c]
           next == IF s.started THEN Go(c, "finish") /\ UNCHANGED daemon ELSE Leave(c)
       IN  \/ s.ident = 0 /\ next /\ UNCHANGED <<guest, spent>>
           \/ s.ident # 0 /\ G!RollsBack(s.ident) /\ next /\ UNCHANGED spent
           \/ /\ s.ident # 0 /\ G!CanRollback(s.ident)
              /\ G!RollsBack(s.ident) \/ G!RollbackFails(s.ident) \/ UNCHANGED guest
              /\ Slip /\ Leave(c)
           \/ s.ident # 0 /\ ~G!CanRollback(s.ident) /\ Leave(c) /\ UNCHANGED <<guest, spent>>
    /\ UNCHANGED <<receipt, clocks, queue, lock, provider>>

-----------------------------------------------------------------------------
Controls(c) ==
    \/ Call(c) \/ Timeout(c) \/ Reconcile(c) \/ ReconcileStatus(c) \/ Hydrate(c)
    \/ Ends(c) \/ GivesUp(c) \/ Plan(c) \/ Prepare(c) \/ Armed(c) \/ Begun(c)
    \/ TakeLock(c) \/ Inspected(c) \/ ApplyForward(c) \/ AppliedForward(c)
    \/ Marked(c) \/ PlanRollback(c) \/ GuestApply(c) \/ Checks(c) \/ Status(c)
    \/ Confirm(c) \/ Committed(c) \/ Undo(c) \/ Undone(c) \/ Withdrawn(c)
    \/ GuestUndo(c)

Daemon == Serve \/ Tick \/ DaemonLock \/ Locally \/ DaemonRollback \/ DaemonRolled

Terraform == TfSend \/ TfWrite \/ TfFail

Next ==
    \/ \E c \in Controllers : Start(c) \/ Dies(c) \/ Controls(c)
    \/ Daemon \/ DaemonDies
    \/ Terraform
    \/ GuestRecover \/ GuestReboot
    \/ Lapse \/ GuestLapse

Spec == Init /\ [][Next]_vars

-----------------------------------------------------------------------------
(* Properties.                                                             *)

\* A firewall that is on at the provider is never on its own: a receipt holds a
\* lease the daemon will roll back, or the guest side of it is committed.  The
\* lease is read again under the provider lock before Terraform starts and can
\* only end under that lock (begin_forward, Executor.guard).
GuardedWhileOpen ==
    cloud => \/ receipt.st \in {"forward-started", "provider-applied", "committed-cleanup-debt"}
             \/ receipt.st \in {"none", "released"} /\ guest.st = "committed"

\* A lease given up for good belongs to a guest transaction that is committed
\* itself, whatever answer was lost, late or repeated (commit_rollback).
CommitNeedsGuest ==
    receipt.st \in {"committed-cleanup-debt", "released"} =>
        /\ guest.st = "committed"
        /\ receipt.phase = "transactional" => guest.gen = receipt.gen

\* The way back is taken in order by every controller, in its own run or for an
\* earlier one: the provider reads off before the guest gives up its sets, and
\* the guest has given them up before the lease is spent.
UnwindOrder ==
    /\ \A c \in Controllers :
          ctl[c].pc = "gundo" /\ ctl'[c].pc # "gundo" /\ guest' # guest => ~cloud
    /\ (/\ daemon.op = "execute" /\ receipt.st # "executed"
        /\ receipt'.st = "executed" /\ receipt.phase = "transactional")
       => guest.gen # receipt.gen \/ guest.st \in {"rolled_back", "unfinished"}

\* A controller that failed before its lease was armed leaves no daemon behind;
\* a later run would take it for the daemon of a live controller and refuse
\* (_terminate_unarmed_executor).  Two daemons stay: that of a killed controller,
\* and one that was too busy with an earlier request to answer the ping.
UnarmedReaped ==
    (/\ \A c \in Controllers : ctl[c] = Off
     /\ receipt = NoReceipt /\ queue = << >> /\ spent.kill = 0) => ~daemon.up

\* "A stale false read can therefore never terminalize an in-flight forward
\* publication": a lease that has been executed leaves the firewall off.
ExecutedIsClosed == receipt.st = "executed" => ~cloud

-----------------------------------------------------------------------------
(* Fairness: the daemon's loop, Terraform, a controller that has started,  *)
(* the two clocks and the guest's timer keep going.  Nothing makes an      *)
(* operator start another run, and runs started again and again leave the  *)
(* socket silent for a second now and then (strong fairness of Tick).      *)

=============================================================================
