----------------------------- MODULE SshdGuard -----------------------------
(***************************************************************************)
(* What the SSH configuration transaction promises.  There is one accepted *)
(* configuration and at most one trial of another.  A trial ends by being  *)
(* accepted as a whole or dropped as a whole, and the daemon, when it      *)
(* listens, serves the accepted configuration unless a trial is under way. *)
(***************************************************************************)
CONSTANTS Names,     \* the files of a configuration
          Value      \* what a file can contain

Config == [Names -> Value]

VARIABLES accepted,  \* the configuration the operator last accepted
          trial,     \* the set of configurations on trial, at most one
          serving    \* what the daemon has loaded; empty when it is down

guard == <<accepted, trial, serving>>

Start ==
    /\ accepted \in Config
    /\ trial = {}
    /\ serving = {accepted}

\* Every file comes from the accepted configuration or from the trial.
Blend == {m \in Config : \A f \in Names :
             m[f] = accepted[f] \/ \E t \in trial : m[f] = t[f]}

Try ==
    /\ trial = {}
    /\ \E c \in Config \ {accepted} : trial' = {c}
    /\ UNCHANGED <<accepted, serving>>

\* Only what the daemon serves in full, if it serves, can be accepted.
Accept ==
    /\ \E t \in trial : accepted' = t
    /\ serving \subseteq trial
    /\ trial' = {}
    /\ UNCHANGED serving

\* A trial is over only when the daemon no longer serves any of it.
Drop ==
    /\ trial # {}
    /\ serving \subseteq {accepted}
    /\ trial' = {}
    /\ UNCHANGED <<accepted, serving>>

\* The daemon loads the files as they are, or stops.
Load ==
    /\ serving' = {} \/ \E m \in Blend : serving' = {m}
    /\ UNCHANGED <<accepted, trial>>

Change == Try \/ Accept \/ Drop \/ Load

Promise == Start /\ [][Change]_guard
=============================================================================
