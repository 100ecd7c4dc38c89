------------------------------ MODULE ParentWait ------------------------------
(***************************************************************************)
(* What the subtask/batch protocol promises about a parent resolution      *)
(* waiting on its child tasks (spec 3 "Batch", 4.E): children end one by  *)
(* one; the parent's resolution alternates between WAITING and RUNNING,   *)
(* becomes DONE only in a pass that sees every child final, and may be    *)
(* paused by a user at any time before it is DONE.  Each step is atomic.  *)
(***************************************************************************)
CONSTANTS Children

VARIABLES
    child,   \* child -> "running", "final" (DONE, WONTFIX, CANCELLED) or "blocked"
    parent   \* the parent resolution: "WAITING", "RUNNING", "DONE" or "PAUSED"

Init ==
    /\ child = [c \in Children |-> "running"]
    /\ parent \in {"WAITING", "RUNNING"}

\* A child task reaches its end state.
ChildEnds(c) ==
    /\ child[c] = "running"
    /\ \E s \in {"final", "blocked"} : child' = [child EXCEPT ![c] = s]
    /\ UNCHANGED parent

\* A pass of the parent starts.
Wake ==
    /\ parent = "WAITING"
    /\ parent' = "RUNNING"
    /\ UNCHANGED child

\* The pass finds every child final and completes the parent.
Resolve ==
    /\ parent = "RUNNING"
    /\ \A c \in Children : child[c] = "final"
    /\ parent' = "DONE"
    /\ UNCHANGED child

\* The pass ends with the parent still waiting.
Park ==
    /\ parent = "RUNNING"
    /\ parent' = "WAITING"
    /\ UNCHANGED child

Pause ==
    /\ parent \in {"WAITING", "RUNNING"}
    /\ parent' = "PAUSED"
    /\ UNCHANGED child

Next ==
    \/ \E c \in Children : ChildEnds(c)
    \/ Wake \/ Resolve \/ Park \/ Pause

Spec == Init /\ [][Next]_<<child, parent>>
=============================================================================
