---------------------------- MODULE GuestPromise ----------------------------
(***************************************************************************)
(* What the guest transaction of the Tailnet firewall promises to the      *)
(* controller that drives it: one generation at a time, which is applied,  *)
(* committed or rolled back as a whole, and which rolls itself back when   *)
(* work is left unfinished, when its deadline has passed, or at boot.      *)
(*                                                                         *)
(* TailnetGuest, with the steps inside a call and the crashes between      *)
(* them, implements this specification; TailnetPromotion is built on it.   *)
(* The guest is committed exactly when the candidate is in its fragment.   *)
(***************************************************************************)
EXTENDS Naturals

VARIABLES
    guest,   \* status and generation of the transaction
    glate    \* generations whose deadline has passed

NewGuest  == [st |-> "idle", gen |-> 0]
Terminal  == {"idle", "committed", "rolled_back"}
Own(g)    == guest.gen = g
Becomes(s) == guest' = [guest EXCEPT !.st = s]

\* prepare makes a new generation once the last one is decided.
Prepares(g) ==
    /\ guest.st \in Terminal /\ g > guest.gen
    /\ guest' = [st |-> "prepared", gen |-> g]

\* apply, and what its failure leaves: rolled back on the spot, or unfinished.
CanApply(g) == Own(g) /\ guest.st = "prepared" /\ g \notin glate
Applies(g) == CanApply(g) /\ Becomes("applied")
ApplyFails(g) == CanApply(g) /\ \E s \in {"rolled_back", "unfinished"} : Becomes(s)

\* confirm; it may be repeated.
CanConfirm(g) == Own(g) /\ (guest.st = "committed" \/ (guest.st = "applied" /\ g \notin glate))
Confirms(g) == CanConfirm(g) /\ Becomes("committed")

\* rollback on request: never of what is committed.
CanRollback(g) == Own(g) /\ guest.st \notin {"idle", "committed"}
RollsBack(g) == CanRollback(g) /\ Becomes("rolled_back")
RollbackFails(g) == CanRollback(g) /\ guest.st # "rolled_back" /\ Becomes("unfinished")

\* recover by the timer.
Overdue == guest.st = "unfinished" \/ (guest.st \in {"prepared", "applied"} /\ guest.gen \in glate)
Recovers == Overdue /\ Becomes("rolled_back")
RecoverFails == Overdue /\ Becomes("unfinished")

\* boot-recover.
Reboots == guest.st \notin Terminal /\ \E s \in {"rolled_back", "unfinished"} : Becomes(s)

GuestMoves ==
    \/ \E g \in {guest.gen, guest.gen + 1} :
          \/ Prepares(g) \/ Applies(g) \/ ApplyFails(g) \/ Confirms(g)
          \/ RollsBack(g) \/ RollbackFails(g)
    \/ Recovers \/ RecoverFails \/ Reboots

PromiseInit == guest = NewGuest /\ glate = {}

\* A deadline passes by itself, or during the call whose end is the move.
PromiseNext ==
    /\ GuestMoves \/ UNCHANGED guest
    /\ glate' \in {glate, glate \cup {guest.gen}}

promiseVars == <<guest, glate>>
PromiseSpec == PromiseInit /\ [][PromiseNext]_promiseVars
=============================================================================
