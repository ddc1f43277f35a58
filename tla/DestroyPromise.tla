--------------------------- MODULE DestroyPromise ---------------------------
(***************************************************************************)
(* What the guarded destruction of a staging node promises whatever       *)
(* process is lost and whenever: a node is claimed before it is destroyed, *)
(* a claim is given back only while nothing was started, nothing is        *)
(* deleted before the start is on record, a recorded start is never taken  *)
(* back, and absence is certified only once every owned resource is gone.  *)
(***************************************************************************)
CONSTANT Owned          \* the provider resources of the node

VARIABLES phase,        \* "free", "claimed", "started" or "absent"
          left          \* the owned resources that still exist

promiseVars == <<phase, left>>

PromiseInit == phase = "free" /\ left = Owned

Claim == phase = "free" /\ phase' = "claimed" /\ UNCHANGED left

GiveBack == phase = "claimed" /\ phase' = "free" /\ UNCHANGED left

Start == phase = "claimed" /\ phase' = "started" /\ UNCHANGED left

Delete(r) ==
    /\ phase = "started"
    /\ r \in left
    /\ left' = left \ {r}
    /\ UNCHANGED phase

Certify ==
    /\ phase = "started"
    /\ left = {}
    /\ phase' = "absent"
    /\ UNCHANGED left

PromiseNext ==
    \/ Claim \/ GiveBack \/ Start \/ Certify
    \/ \E r \in Owned : Delete(r)

PromiseSpec == PromiseInit /\ [][PromiseNext]_promiseVars
=============================================================================
