--------------------------- MODULE WorkflowLifecycle ---------------------------
(***************************************************************************)
(* What the approval workflow promises for one suspended workflow step, a  *)
(* continuation: it is suspended for approval, decided at most once,       *)
(* resumed at most once, and a denial ends it until the same step is       *)
(* suspended again.  WorkflowApproval implements this specification when   *)
(* its calls do not overlap.                                               *)
(***************************************************************************)

CONSTANT Continuations    \* the continuation ids, one per suspended step

VARIABLE phase            \* phase[c] = where continuation c is in its life

Phases == {"absent", "pending", "approved", "denied", "resumed"}

Init == phase = [c \in Continuations |-> "absent"]

\* A continuation moves from one of the phases in from to the phase to.
Move(c, from, to) ==
    /\ phase[c] \in from
    /\ phase' = [phase EXCEPT ![c] = to]

\* Suspending is allowed in every phase: the same step, suspended again with
\* the same references, has the same id and starts over.
Suspend(c) == Move(c, Phases, "pending")
Approve(c) == Move(c, {"pending"}, "approved")
Deny(c)    == Move(c, {"pending"}, "denied")

\* The caller of a resume may vouch for the approval itself, so a pending
\* continuation can be resumed without a recorded decision.
Resume(c)  == Move(c, {"pending", "approved"}, "resumed")

Next == \E c \in Continuations : Suspend(c) \/ Approve(c) \/ Deny(c) \/ Resume(c)

Spec == Init /\ [][Next]_phase
================================================================================
