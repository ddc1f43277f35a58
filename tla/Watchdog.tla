------------------------------- MODULE Watchdog -------------------------------
(***************************************************************************)
(* vpn-watchdog.sh.j2 with vpn-watchdog-state.py: a run probes the         *)
(* transports, counts consecutive failing runs and, past a threshold,      *)
(* restarts the failed units and sends alerts, each within an hourly       *)
(* budget kept in one state file.  The timer and `make verify` may run it  *)
(* at the same time; a kernel lock admits one.  Of the clock only matters  *)
(* whether the hour of the recorded window has passed: no run lasts that   *)
(* long.                                                                   *)
(***************************************************************************)
EXTENDS Naturals, FiniteSets

CONSTANTS Runners,        \* the timer's run and one started by an operator
          Units,          \* transport units; the others fail only as soft signals
          FailThreshold, KicksMax, AlertsMax,  \* FAIL_THRESHOLD, *_PER_HOUR_MAX
          Outcomes,       \* units whose configuration check may fail in one run
          MaxFails,       \* bound: failing runs counted
          MaxFaults       \* bound: kills and failed writes

VARIABLES disk,     \* the state file
          run,      \* the runs in progress, with STATE in memory
          lock,     \* who holds the probe lock (fd 9)
          up,       \* per unit: serving
          old,      \* the recorded window began an hour ago or more
          streak,   \* history: failing runs since the last successful one that ended
          kicks, alerts,  \* history: restarts and alerts of the recorded window
          faults
vars == <<disk, run, lock, up, old, streak, kicks, alerts, faults>>

Nobody == "nobody"

WatchdogAssumption ==
    /\ {FailThreshold, KicksMax, AlertsMax, MaxFails, MaxFaults} \subseteq Nat
    /\ Outcomes \subseteq SUBSET Units
    /\ Nobody \notin Runners \cup Units
ASSUME WatchdogConstants == WatchdogAssumption

Budget == [fails : 0..MaxFails, alerts : 0..AlertsMax, kicks : 0..KicksMax]
Blank == [fails |-> 0, alerts |-> 0, kicks |-> 0]
NoRun == [pc |-> "idle", mem |-> Blank, fresh |-> FALSE, bad |-> FALSE, failed |-> {}, invalid |-> {}, soft |-> FALSE, class |-> FALSE,
          unit |-> Nobody]
Pcs == {"idle", "admit", "reread", "probe", "count", "kick", "reserve", "restart", "alert",
        "saveAlert", "notify", "save"}

TypeOK ==
    /\ disk \in Budget
    /\ run \in [Runners -> [pc : Pcs, mem : Budget, fresh : BOOLEAN, bad : BOOLEAN,
                            failed : SUBSET Units, invalid : SUBSET Units,
                            soft : BOOLEAN, class : BOOLEAN,
                            unit : Units \cup {Nobody}]]
    /\ lock \in Runners \cup {Nobody}
    /\ up \in [Units -> BOOLEAN] /\ old \in BOOLEAN /\ streak \in 0..MaxFails
    /\ kicks \in Nat /\ alerts \in Nat
    /\ faults \in 0..MaxFaults

Init ==
    /\ disk = Blank /\ run = [r \in Runners |-> NoRun] /\ lock = Nobody
    /\ up = [u \in Units |-> TRUE] /\ old = FALSE
    /\ streak = 0 /\ faults = 0 /\ kicks = 0 /\ alerts = 0

At(r, pc) == run[r].pc = pc
Go(r, pc) == run' = [run EXCEPT ![r].pc = pc]
End(r) == /\ run' = [run EXCEPT ![r] = NoRun]
          /\ lock' = IF lock = r THEN Nobody ELSE lock

(***************************************************************************)
(* Admission: the budget is read, the lock is taken without waiting, and   *)
(* the budget is read again under it.                                      *)
(***************************************************************************)
Start(r) ==
    /\ At(r, "idle")
    /\ run' = [run EXCEPT ![r] = [NoRun EXCEPT !.pc = "admit", !.mem = disk]]
    /\ UNCHANGED <<disk, lock, up, old, streak, kicks, alerts, faults>>

Refused(r) ==
    /\ At(r, "admit") /\ lock # Nobody
    /\ End(r)
    /\ UNCHANGED <<disk, up, old, streak, kicks, alerts, faults>>

Admit(r) ==
    /\ At(r, "admit") /\ lock = Nobody
    /\ lock' = r
    /\ Go(r, "reread")
    /\ UNCHANGED <<disk, up, old, streak, kicks, alerts, faults>>

\* Mutation: the budget read before admission is kept.
Reread_stale(r) ==
    /\ At(r, "reread") /\ Go(r, "probe")
    /\ UNCHANGED <<disk, lock, up, old, streak, kicks, alerts, faults>>
Reread(r) ==
    /\ At(r, "reread")
    /\ run' = [run EXCEPT ![r].pc = "probe", ![r].mem = disk]
    /\ UNCHANGED <<disk, lock, up, old, streak, kicks, alerts, faults>>

(***************************************************************************)
(* The probes: a failed configuration check fails its unit as well.  The   *)
(* two counters of the hour start anew together when the hour has passed.  *)
(***************************************************************************)
\* A round trip, the disk: a probe of no unit fails; a class is a signal, no failure.
Probe(r, invalid, soft, class) ==
    /\ At(r, "probe")
    /\ run' = [run EXCEPT ![r].pc = "count", ![r].soft = soft, ![r].class = class,
                          ![r].invalid = invalid,
                          ![r].failed = {u \in Units : ~up[u]} \cup invalid]
    /\ UNCHANGED <<disk, lock, up, old, streak, kicks, alerts, faults>>

Failing(r) == run[r].failed # {} \/ run[r].soft
\* Mutation: a successful run does not break the streak.
Counted_keep(m, failing) ==
    LET n == IF failing /\ m.fails < MaxFails THEN m.fails + 1 ELSE m.fails IN
    IF old THEN [Blank EXCEPT !.fails = n] ELSE [m EXCEPT !.fails = n]
Counted(m, failing) ==
    LET n == IF failing THEN (IF m.fails < MaxFails THEN m.fails + 1 ELSE MaxFails) ELSE 0 IN
    IF old THEN [Blank EXCEPT !.fails = n] ELSE [m EXCEPT !.fails = n]

Count(r) ==
    /\ At(r, "count")
    /\ run' = [run EXCEPT ![r].pc = "kick", ![r].fresh = old, ![r].bad = Failing(r), ![r].soft = FALSE,
                          ![r].mem = Counted(@, Failing(r))]
    /\ streak' = IF Failing(r) /\ streak < MaxFails THEN streak + 1 ELSE streak
    /\ UNCHANGED <<disk, lock, up, old, kicks, alerts, faults>>

\* persist_state(): a window that this run began is recorded with the counters.
Persist(r) ==
    /\ disk' = run[r].mem
    /\ old' = (old /\ ~run[r].fresh)
    /\ kicks' = IF run[r].fresh /\ old THEN 0 ELSE kicks
    /\ alerts' = IF run[r].fresh /\ old THEN 0 ELSE alerts

(***************************************************************************)
(* Recovery: the attempt is reserved on disk before the restart.  A unit   *)
(* with an invalid configuration keeps what it runs.                       *)
(***************************************************************************)
Candidates(r) == run[r].failed \ run[r].invalid
Due(r) == run[r].mem.fails >= FailThreshold

\* Mutation: an attempt is reserved without a look at the budget.
Reserve_unbounded(r, u) ==
    /\ At(r, "kick") /\ Due(r) /\ u \in Candidates(r)
    /\ run' = [run EXCEPT ![r].pc = "reserve", ![r].unit = u, ![r].mem.kicks = @ + 1,
                          ![r].failed = @ \ {u}]
    /\ UNCHANGED <<disk, lock, up, old, streak, kicks, alerts, faults>>
Reserve(r, u) ==
    /\ At(r, "kick") /\ Due(r) /\ u \in Candidates(r) /\ run[r].mem.kicks < KicksMax
    /\ run' = [run EXCEPT ![r].pc = "reserve", ![r].unit = u, ![r].mem.kicks = @ + 1,
                          ![r].failed = @ \ {u}]
    /\ UNCHANGED <<disk, lock, up, old, streak, kicks, alerts, faults>>

\* Mutation: the attempt is recorded only with the final counters.
SaveReserved_later(r) ==
    /\ At(r, "reserve") /\ Go(r, "restart")
    /\ UNCHANGED <<disk, lock, up, old, streak, kicks, alerts, faults>>
SaveReserved(r) ==
    /\ At(r, "reserve")
    /\ Go(r, "restart") /\ Persist(r)
    /\ UNCHANGED <<lock, up, streak, faults>>

\* generation.py recover, or systemctl restart; either may fail.
Restart(r) ==
    /\ At(r, "restart")
    /\ \E ok \in BOOLEAN : up' = [up EXCEPT ![run[r].unit] = ok]
    /\ kicks' = kicks + 1
    /\ run' = [run EXCEPT ![r].pc = "kick", ![r].unit = Nobody]
    /\ UNCHANGED <<disk, lock, old, streak, alerts, faults>>

KicksDone(r) ==
    /\ At(r, "kick")
    /\ ~Due(r) \/ Candidates(r) = {} \/ run[r].mem.kicks >= KicksMax
    /\ Go(r, "alert")
    /\ UNCHANGED <<disk, lock, up, old, streak, kicks, alerts, faults>>

ShouldAlert(r) == (Due(r) \/ run[r].class) /\ run[r].mem.alerts < AlertsMax

ReserveAlert(r) ==
    /\ At(r, "alert") /\ ShouldAlert(r)
    /\ run' = [run EXCEPT ![r].pc = "saveAlert",
                 ![r].mem.alerts = IF @ < AlertsMax THEN @ + 1 ELSE @]
    /\ UNCHANGED <<disk, lock, up, old, streak, kicks, alerts, faults>>

SaveAlert(r) ==
    /\ At(r, "saveAlert")
    /\ Go(r, "notify") /\ Persist(r)
    /\ UNCHANGED <<lock, up, streak, faults>>

Notify(r) ==
    /\ At(r, "notify")
    /\ alerts' = alerts + 1
    /\ Go(r, "save")
    /\ UNCHANGED <<disk, lock, up, old, streak, kicks, faults>>

NoAlert(r) ==
    /\ At(r, "alert") /\ ~ShouldAlert(r)
    /\ Go(r, "save")
    /\ UNCHANGED <<disk, lock, up, old, streak, kicks, alerts, faults>>

Save(r) ==
    /\ At(r, "save")
    /\ Persist(r)
    /\ streak' = IF run[r].bad THEN streak ELSE 0
    /\ End(r)
    /\ UNCHANGED <<up, faults>>

\* A kill (TimeoutStartSec, an operator), or a persist_state that finds the
\* directory locked by another run's read and ends the script.
Dies(r) ==
    /\ ~At(r, "idle") /\ faults < MaxFaults
    /\ faults' = faults + 1
    /\ End(r)
    /\ UNCHANGED <<disk, up, old, streak, kicks, alerts>>

UnitFails(u) ==
    /\ up[u] /\ up' = [up EXCEPT ![u] = FALSE]
    /\ UNCHANGED <<disk, run, lock, old, streak, kicks, alerts, faults>>

HourPasses ==
    /\ ~old /\ old' = TRUE
    /\ \A r \in Runners : ~run[r].fresh
    /\ UNCHANGED <<disk, run, lock, up, streak, kicks, alerts, faults>>

Go_on(r) == \/ Refused(r) \/ Admit(r) \/ Reread(r) \/ Count(r)
            \/ \E invalid \in Outcomes, soft, class \in BOOLEAN : Probe(r, invalid, soft, class)
            \/ \E u \in Units : Reserve(r, u)
            \/ SaveReserved(r) \/ Restart(r) \/ KicksDone(r) \/ ReserveAlert(r)
            \/ SaveAlert(r) \/ Notify(r) \/ NoAlert(r) \/ Save(r)
Next == \/ \E r \in Runners : Start(r) \/ Go_on(r) \/ Dies(r)
        \/ \E u \in Units : UnitFails(u)
        \/ HourPasses

Spec == Init /\ [][Next]_vars

(***************************************************************************)
(* Properties                                                              *)
(***************************************************************************)

\* KICKS_PER_HOUR_MAX bounds the restarts of one hour's window whatever runs are killed,
\* fail to write or overlap: the attempt is reserved on disk under the probe lock.
KickBudget == kicks <= KicksMax

\* ALERTS_PER_HOUR_MAX bounds the notifications of one hour's window, class signals
\* and lost runs included.
AlertBudget == alerts <= AlertsMax

\* A unit is restarted only after FAIL_THRESHOLD failing runs with no completed
\* successful one between them ("After FAIL_THRESHOLD consecutive failures").
ThresholdHonoured ==
    [][\A r \in Runners : Restart(r) => streak >= FailThreshold]_vars

=============================================================================
