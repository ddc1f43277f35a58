------------------------ MODULE CloudFinalAcceptance ------------------------
(***************************************************************************)
(* The acceptance of the first boot: a virtual machine of its own, one     *)
(* container per case, a clean case and one that is killed when fragment   *)
(* 20 has just been published, started again until it converges and once   *)
(* more to show that nothing changes.  The container is the node of        *)
(* BootstrapSshd; only the harness takes it down.                          *)
(***************************************************************************)
EXTENDS BootstrapSshd

CONSTANTS Cases,     \* modes of the cases of the plan, in order
          Headers,   \* does the helper under test open fragment 10 with its comment line?
          MaxRuns,   \* runs of the harness
          Cancels    \* may a command that stops the machine be cancelled or time out?

AcceptanceAssumption ==
    /\ Cases \in Seq({"clean", "interrupted"}) /\ Cases # <<>>
    /\ Headers \subseteq BOOLEAN /\ Headers # {}
    /\ MaxRuns \in Nat \ {0} /\ Cancels \in BOOLEAN

VARIABLES h,         \* step of the harness
          case,      \* index of the case
          obs,       \* observations of the case
          passed,    \* what each passed case was when it was judged
          vm, dir,   \* the profile and its runtime directory exist
          owned,     \* containers and images the harness will remove
          why,       \* why the run stops: "none" when every case passed
          unclean,   \* a step of the cleanup failed
          undeleted, \* deleting the profile was tried and failed
          evidence,  \* the file written: "none", "passed" or "failure"
          attempt, barrier,  \* files of the interruption wrapper
          cut,       \* where the container was killed first
          header, runs

harness == <<h, case, obs, passed, vm, dir, owned, why, unclean, undeleted, evidence,
             attempt, barrier, cut, header, runs>>
vars == <<guest, harness>>

mode == Cases[case]

(* A container of the acceptance: no image fragment, nobody else's files.  *)
FreshContainer ==
    /\ file' \in {f \in Images : FirstBoot(f) /\ f["20"] = "absent"
                                 /\ f["50"] # "foreign" /\ f["60"] = "absent"}
    /\ residue' = {} /\ pc' = "off" /\ snap' = file'
    /\ todo' = <<>> /\ attempted' = <<>> /\ torn' = FALSE
    /\ unit' \in {[socket |-> s, gen |-> "default", port |-> "none",
                   enabled |-> FALSE, service |-> Off] : s \in BOOLEAN}
    /\ marker' = FALSE /\ ran' = FALSE /\ boots' = 0 /\ UNCHANGED faults
    /\ attempt' = 0 /\ barrier' = FALSE /\ cut' = "none"

Init ==
    /\ GuestInit
    /\ h = "claim" /\ case = 1 /\ obs = <<>> /\ passed = <<>>
    /\ vm = FALSE /\ dir = FALSE /\ owned = {} /\ why = "none"
    /\ unclean = FALSE /\ undeleted = FALSE /\ evidence = "none"
    /\ attempt = 0 /\ barrier = FALSE /\ cut = "none" /\ header \in Headers /\ runs = 1

(* The wrapper imports the helper and replaces its boundary hook in the    *)
(* first attempt.                                                          *)
AtBoundary == /\ mode = "interrupted" /\ attempt = 1
              /\ pc = "replaced" /\ Head(todo) = "20"

Paused == AtBoundary

BarrierReached ==
    /\ vm /\ AtBoundary /\ ~barrier
    /\ barrier' = TRUE
    /\ UNCHANGED <<guest, h, case, obs, passed, vm, dir, owned, why, unclean, undeleted,
                   evidence, attempt, cut, header, runs>>

GuestWorks ==
    /\ vm /\ ~Paused
    /\ GuestSteps \/ GuestFaults
    /\ attempt' = IF mode = "interrupted" /\ pc = "normalize" THEN attempt + 1 ELSE attempt
    /\ UNCHANGED <<h, case, obs, passed, vm, dir, owned, why, unclean, undeleted, evidence,
                   barrier, cut, header, runs>>

(* claim: neither the profile nor its directory may exist.                 *)
Claim ==
    /\ h = "claim"
    /\ IF vm \/ dir THEN h' = "end" /\ why' = "exists"
                    ELSE h' = "start" /\ why' = why
    /\ UNCHANGED <<guest, case, obs, passed, vm, dir, owned, unclean, undeleted, evidence,
                   attempt, barrier, cut, header, runs>>

StartProfile ==
    /\ h = "start"
    /\ dir' = TRUE /\ vm' \in BOOLEAN
    /\ IF vm' THEN h' = "build" /\ why' = why ELSE h' = "cleanup" /\ why' = "command"
    /\ UNCHANGED <<guest, case, obs, passed, owned, unclean, undeleted, evidence,
                   attempt, barrier, cut, header, runs>>

Build ==
    /\ h = "build"
    /\ owned' = owned \cup {"image"}
    /\ h' = "create"
    /\ UNCHANGED <<guest, case, obs, passed, vm, dir, why, unclean, undeleted, evidence,
                   attempt, barrier, cut, header, runs>>

CreateContainer ==
    /\ h = "create"
    /\ FreshContainer
    /\ owned' = owned \cup {"container"}
    /\ obs' = <<>>
    /\ h' = "run"
    /\ UNCHANGED <<case, passed, vm, dir, why, unclean, undeleted, evidence, header, runs>>

StartContainer ==
    /\ h \in {"run", "restart"}
    /\ Boot
    /\ h' = IF h = "run" /\ mode = "interrupted" THEN "poll" ELSE "wait"
    /\ UNCHANGED <<case, obs, passed, vm, dir, owned, why, unclean, undeleted, evidence,
                   attempt, barrier, cut, header, runs>>

(* The inspector fails on missing or foreign fragments and, once the       *)
(* marker is there, on a listener that does not answer.                    *)
Inspectable ==
    /\ file["10"] # "absent" /\ file["20"] # "absent" /\ file["60"] = "absent"
    /\ marker => /\ unit.service.port = "configured"
                 /\ unit.socket => unit.port = "configured"

Observe == [invocation |-> boots, marker |-> marker, ran |-> ran,
            barrier |-> barrier, attempt |-> attempt,
            files |-> file, residue |-> residue,
            effective |-> IF marker THEN Effective(file) ELSE Off]

PollBarrier ==
    /\ h = "poll" /\ Inspectable /\ barrier /\ attempt = 1
    /\ obs' = <<Observe>>
    /\ h' = "kill"
    /\ UNCHANGED <<guest, case, passed, vm, dir, owned, why, unclean, undeleted, evidence,
                   attempt, barrier, cut, header, runs>>

KillContainer ==
    /\ h = "kill"
    /\ GoesDown
    /\ cut' = IF cut = "none" THEN pc ELSE cut
    /\ h' = "restart"
    /\ UNCHANGED <<case, obs, passed, vm, dir, owned, why, unclean, undeleted, evidence,
                   attempt, barrier, header, runs>>

(* cloud-init status --wait succeeds and cloud-final settles.              *)
WaitCloudFinal ==
    /\ h = "wait" /\ pc = "done" /\ Inspectable
    /\ obs' = Append(obs, Observe)
    /\ h' = IF mode = "clean" \/ Len(obs) = 2 THEN "validate" ELSE "kill"
    /\ UNCHANGED <<guest, case, passed, vm, dir, owned, why, unclean, undeleted, evidence,
                   attempt, barrier, cut, header, runs>>

(* What the guest lets the harness know of a failure; without a complete   *)
(* diagnosis there is no failure sidecar.                                  *)
Diagnoses == {"cloud-init", "command"}

(* It reports an error, or nothing within its time.                        *)
CloudFinalFails ==
    /\ h = "wait" /\ pc # "done"
    /\ h' = "cleanup" /\ why' \in Diagnoses
    /\ UNCHANGED <<guest, case, obs, passed, vm, dir, owned, unclean, undeleted, evidence,
                   attempt, barrier, cut, header, runs>>

ObservationTimesOut ==
    /\ h = "poll" \/ (h = "wait" /\ pc = "done" /\ ~Inspectable)
    /\ h' = "cleanup" /\ why' = "timeout"
    /\ UNCHANGED <<guest, case, obs, passed, vm, dir, owned, unclean, undeleted, evidence,
                   attempt, barrier, cut, header, runs>>

(* Digests of 10 and 20 against the bytes the harness expects, which have  *)
(* no comment line; 50 may only hold comments.                             *)
ConfigDigests(o) == /\ o.files["10"] = "ours" /\ ~header
                    /\ o.files["20"] = "ours"
                    /\ o.files["50"] \in {"absent", "comment"}

Converged(o) == /\ o.ran /\ o.marker /\ o.residue = {} /\ o.effective = Hard
                /\ ConfigDigests(o)

ValidClean(s) == Converged(s[1]) /\ s[1].attempt = 0 /\ ~s[1].barrier

ValidInterrupted(s) ==
    /\ ~s[1].ran /\ ~s[1].marker /\ s[1].barrier /\ s[1].attempt = 1
    /\ (s[1].files["50"] = "absent") = (s[2].files["50"] = "absent")
    /\ s[2].barrier /\ s[2].attempt = 2 /\ Converged(s[2])
    /\ Cardinality({s[i].invocation : i \in 1 .. 3}) = 3
    /\ s[3] = [s[2] EXCEPT !.invocation = s[3].invocation]

Valid(s) == IF mode = "clean" THEN ValidClean(s) ELSE ValidInterrupted(s)

Whole == marker /\ Effective(file) = Hard /\ residue = {} /\ unit.service = Hard

Validate ==
    /\ h = "validate"
    /\ passed' = Append(passed, [valid |-> Valid(obs), whole |-> Whole, cut |-> cut])
    /\ IF Valid(obs)
         THEN /\ why' = why
              /\ IF case = Len(Cases) THEN h' = "cleanup" /\ case' = case
                                      ELSE h' = "create" /\ case' = case + 1
         ELSE h' = "cleanup" /\ why' = "validation" /\ case' = case
    /\ UNCHANGED <<guest, obs, vm, dir, owned, unclean, undeleted, evidence,
                   attempt, barrier, cut, header, runs>>

Working == {"start", "build", "create", "run", "poll", "kill", "restart", "wait", "validate"}

(* A command fails or the operator interrupts the run.                     *)
Stops ==
    /\ h \in Working
    /\ h' = "cleanup" /\ why' = "command"
    /\ UNCHANGED <<guest, case, obs, passed, vm, dir, owned, unclean, undeleted, evidence,
                   attempt, barrier, cut, header, runs>>

AfterDocker == "stop"

(* Containers and images; a failure or an interrupt is remembered.         *)
CleanupDocker ==
    /\ h = "cleanup"
    /\ unclean' \in BOOLEAN
    /\ owned' = {}
    /\ h' = AfterDocker
    /\ UNCHANGED <<guest, case, obs, passed, vm, dir, why, undeleted, evidence,
                   attempt, barrier, cut, header, runs>>

(* colima stop and colima delete are both tried and their results looked   *)
(* at afterwards; a call that is cut short leaves the function.            *)
StopDelete ==
    /\ h = "stop"
    /\ \/ vm' = FALSE /\ dir' = FALSE /\ UNCHANGED <<unclean, undeleted>>
       \/ vm' = vm /\ dir' = FALSE /\ unclean' = TRUE /\ undeleted' = TRUE
       \/ Cancels /\ unclean' = TRUE /\ UNCHANGED <<vm, dir, undeleted>>
    /\ h' = "verdict"
    /\ UNCHANGED <<guest, case, obs, passed, owned, why, evidence,
                   attempt, barrier, cut, header, runs>>

(* The Docker context is compared with the one of the start.               *)
CheckContext ==
    /\ h = "verdict"
    /\ \E drift \in BOOLEAN : unclean' = (unclean \/ drift)
    /\ h' = "write"
    /\ UNCHANGED <<guest, case, obs, passed, vm, dir, owned, why, undeleted, evidence,
                   attempt, barrier, cut, header, runs>>

(* Evidence names every case of the plan; a cleanup that failed replaces   *)
(* the verdict of the run.                                                 *)
Verdict ==
    CASE unclean -> "none"
      [] why = "none" /\ Len(passed) = Len(Cases) -> "passed"
      [] why = "cloud-init" -> "failure"
      [] OTHER -> "none"

(* The file is linked into place whole or not at all.                      *)
WriteEvidence ==
    /\ h = "write"
    /\ evidence' \in {"none", Verdict}
    /\ h' = "end"
    /\ UNCHANGED <<guest, case, obs, passed, vm, dir, owned, why, unclean, undeleted,
                   attempt, barrier, cut, header, runs>>

(* The harness is started again with another output.                       *)
RunAgain ==
    /\ h = "end" /\ runs < MaxRuns
    /\ runs' = runs + 1 /\ h' = "claim" /\ case' = 1 /\ obs' = <<>> /\ passed' = <<>>
    /\ why' = "none" /\ unclean' = FALSE /\ undeleted' = FALSE /\ evidence' = "none"
    /\ UNCHANGED <<guest, vm, dir, owned, attempt, barrier, cut, header>>

HarnessSteps ==
    \/ Claim \/ StartProfile \/ Build \/ CreateContainer \/ StartContainer
    \/ PollBarrier \/ KillContainer \/ WaitCloudFinal \/ CloudFinalFails
    \/ ObservationTimesOut \/ Validate \/ CleanupDocker \/ StopDelete \/ CheckContext \/ WriteEvidence

Next == GuestWorks \/ BarrierReached \/ HarnessSteps \/ Stops \/ RunAgain

Spec == Init /\ [][Next]_vars

-----------------------------------------------------------------------------

(* Evidence says what it claims: every case of the plan was judged on a    *)
(* node that is whole, and the interrupted ones were really killed in the  *)
(* middle of the publication.                                              *)
AcceptedIsProven ==
    evidence = "passed" =>
        /\ Len(passed) = Len(Cases)
        /\ \A i \in 1 .. Len(Cases) :
             /\ passed[i].whole
             /\ Cases[i] = "interrupted" => passed[i].cut = "replaced"

(* Whatever stops a run, its profile and runtime directory are gone at its *)
(* end unless deleting them was tried and failed.                          *)
ProfileReleased == h = "end" /\ why # "exists" /\ ~undeleted => ~vm /\ ~dir

=============================================================================
