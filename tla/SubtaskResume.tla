---------------------------- MODULE SubtaskResume ----------------------------
(***************************************************************************)
(* A parent task whose resolution waits on a batch of child tasks (the    *)
(* subtask/batch runners), and the wake-up protocol between them:         *)
(*                                                                         *)
(*  - when a child task reaches a final state, the engine commits it and  *)
(*    calls taskutils.ShouldResumeParentTask; when that returns the       *)
(*    parent, the engine asks for a new pass of the parent's resolution;  *)
(*  - a pass of a resolution first takes the resolution's advisory lock;  *)
(*    when another pass holds it the request is dropped silently (spec    *)
(*    4.E "Acquire");                                                      *)
(*  - a pass evaluates the parent's waiting step against the children's   *)
(*    committed states and commits the resolution DONE when every child   *)
(*    is final, WAITING otherwise.                                         *)
(*                                                                         *)
(* Children are model values; a "runner" is one attempt to run a pass of  *)
(* the parent's resolution: "engine" is the pass already under way when   *)
(* the children start, and every child may start one pass of its own.     *)
(***************************************************************************)
EXTENDS Naturals, FiniteSets

CONSTANTS
    Children,        \* the child tasks of the batch (model values)
    NoOwner,         \* model value: nobody holds the resolution lock
    ParentInFlight,  \* TRUE: the parent's own pass is still running when children start
    ReadFailures,    \* TRUE: the database reads of ShouldResumeParentTask may fail
    CrashPoints,     \* where an engine instance may crash: "pass" and/or "check"
    MaxCrashes       \* bound on crashes in one behaviour

ASSUME /\ Children # {} /\ NoOwner \notin Children
       /\ ParentInFlight \in BOOLEAN /\ ReadFailures \in BOOLEAN
       /\ CrashPoints \subseteq {"pass", "check"} /\ MaxCrashes \in Nat

\* "collector" is the retry collector's submission of a crashed resolution.
Runners == {"engine", "collector"} \cup Children

VARIABLES
    childTask,        \* committed task state of each child
    childPc,          \* where each child's completing resolution is
    parentTask,       \* committed state of the parent task
    parentRes,        \* committed state of the parent's resolution
    lock,             \* holder of the parent resolution's advisory lock
    runner,           \* control state of each attempt to run a parent pass
    seen,             \* a pass's snapshot: were all children final when it looked?
    resumeRequested,  \* history: children whose ShouldResumeParentTask returned the parent
    crashes           \* engine crashes so far

vars == <<childTask, childPc, parentTask, parentRes, lock, runner, seen, resumeRequested, crashes>>

(***************************************************************************)
(* Task and resolution states the code tests.                              *)
(***************************************************************************)
\* taskutils.go: only a child in one of these states may wake its parent
FinishedStates == {"DONE", "WONTFIX", "CANCELLED"}
\* Variant: a parent whose task is WAITING is not resumed
ResumableStatesNoWaiting == {"BLOCKED", "RUNNING"}
\* taskutils.go: a parent in one of these task states may be resumed
ResumableStates == {"BLOCKED", "RUNNING", "WAITING"}
\* taskutils.go: a parent resolution in one of these states is left alone
UnresumableResStates == {"CRASHED", "PAUSED"}
\* spec 4.E "Guard": a pass stops at once on a resolution in these states
PassStopStates == {"DONE", "CANCELLED", "CRASHED", "PAUSED"}

TaskStates == {"RUNNING", "WAITING", "BLOCKED", "DONE", "WONTFIX", "CANCELLED"}
ResStates == {"RUNNING", "WAITING", "PAUSED", "CRASHED", "TO_RETRY", "DONE"}

(***************************************************************************)
(* batchutils.RunningTasks: siblings of the batch not in a final state,    *)
(* read from the committed task rows.                                      *)
(***************************************************************************)
\* Variant: counts every sibling not DONE as running (WONTFIX/CANCELLED forgotten)
RunningTasksNotDone == Cardinality({c \in Children : childTask[c] # "DONE"})

RunningTasks == Cardinality({c \in Children : childTask[c] \notin FinishedStates})

(***************************************************************************)
(* taskutils.ShouldResumeParentTask(c): TRUE when it returns the parent.   *)
(* Every child carries the parent tag and the batch id, and the parent    *)
(* has a resolution, so those early returns never fire here.              *)
(***************************************************************************)
ShouldResumeParentTask(c) ==
    /\ childTask[c] \in FinishedStates
    /\ RunningTasks = 0
    /\ parentTask \in ResumableStates
    /\ parentRes \notin UnresumableResStates

-----------------------------------------------------------------------------
Init ==
    /\ childTask = [c \in Children |-> "RUNNING"]
    /\ childPc = [c \in Children |-> "running"]
    /\ parentTask = IF ParentInFlight THEN "RUNNING" ELSE "WAITING"
    /\ parentRes = IF ParentInFlight THEN "RUNNING" ELSE "WAITING"
    /\ lock = IF ParentInFlight THEN "engine" ELSE NoOwner
    /\ runner = [r \in Runners |->
                    IF r = "engine" /\ ParentInFlight THEN "evaluate" ELSE "idle"]
    /\ seen = [r \in Runners |-> FALSE]
    /\ resumeRequested = {}
    /\ crashes = 0

\* Final states a child's resolution may end in.
ChildResolutionEnds == {"DONE", "CANCELLED", "BLOCKED_FATAL", "BLOCKED_BADREQUEST"}

\* Task state the engine commits for a resolution's final state (spec 8, S1 and S3).
TaskStateOf(rs) ==
    CASE rs = "DONE" -> "DONE"
      [] rs = "CANCELLED" -> "CANCELLED"
      [] rs \in {"BLOCKED_FATAL", "BLOCKED_BADREQUEST"} -> "BLOCKED"

\* Variant: the resolution's state is written to the task row as it is
ChildResolveNoMapping(c) ==
    /\ childPc[c] = "running"
    /\ \E rs \in ChildResolutionEnds : childTask' = [childTask EXCEPT ![c] = rs]
    /\ childPc' = [childPc EXCEPT ![c] = "resume_check"]
    /\ UNCHANGED <<parentTask, parentRes, lock, runner, seen, resumeRequested, crashes>>

(***************************************************************************)
(* A child's resolution ends: the engine commits the child task's state   *)
(* for the resolution's final state, then runs the resume check.  A       *)
(* blocked child stays blocked in this model (no human unblocks it).      *)
(***************************************************************************)
ChildResolve(c) ==
    /\ childPc[c] = "running"
    /\ \E rs \in ChildResolutionEnds : childTask' = [childTask EXCEPT ![c] = TaskStateOf(rs)]
    /\ childPc' = [childPc EXCEPT ![c] = "resume_check"]
    /\ UNCHANGED <<parentTask, parentRes, lock, runner, seen, resumeRequested, crashes>>

\* The resume check after the commit; a returned parent is run by the engine.
ResumeCheck(c) ==
    /\ childPc[c] = "resume_check"
    /\ childPc' = [childPc EXCEPT ![c] = "finished"]
    /\ IF ShouldResumeParentTask(c)
         THEN /\ runner' = [runner EXCEPT ![c] = "acquire"]
              /\ resumeRequested' = resumeRequested \cup {c}
         ELSE UNCHANGED <<runner, resumeRequested>>
    /\ UNCHANGED <<childTask, parentTask, parentRes, lock, seen, crashes>>

\* A read of ShouldResumeParentTask fails: the error is returned, nothing is run.
ResumeCheckFails(c) ==
    /\ ReadFailures
    /\ childPc[c] = "resume_check"
    /\ childPc' = [childPc EXCEPT ![c] = "check_failed"]
    /\ UNCHANGED <<childTask, parentTask, parentRes, lock, runner, seen, resumeRequested, crashes>>

(***************************************************************************)
(* A pass of the parent's resolution (spec 4.E): take the advisory lock   *)
(* or drop the request; load, stop on a guarded state, else mark the      *)
(* resolution and the task RUNNING.                                        *)
(***************************************************************************)
TryLock(r) ==
    /\ runner[r] = "acquire"
    /\ IF lock = NoOwner /\ parentRes \notin PassStopStates
         THEN /\ lock' = r
              /\ runner' = [runner EXCEPT ![r] = "evaluate"]
              /\ parentRes' = "RUNNING"
              /\ parentTask' = "RUNNING"
         ELSE /\ runner' = [runner EXCEPT ![r] = "idle"]
              /\ UNCHANGED <<lock, parentRes, parentTask>>
    /\ UNCHANGED <<childTask, childPc, seen, resumeRequested, crashes>>

\* Variant: the step looks for some final child instead of all of them
EvaluateAnyChild(r) ==
    /\ runner[r] = "evaluate"
    /\ seen' = [seen EXCEPT ![r] = \E c \in Children : childTask[c] \in FinishedStates]
    /\ runner' = [runner EXCEPT ![r] = "commit"]
    /\ UNCHANGED <<childTask, childPc, parentTask, parentRes, lock, resumeRequested, crashes>>

\* The waiting step reads the children's committed task states.
Evaluate(r) ==
    /\ runner[r] = "evaluate"
    /\ seen' = [seen EXCEPT ![r] = \A c \in Children : childTask[c] \in FinishedStates]
    /\ runner' = [runner EXCEPT ![r] = "commit"]
    /\ UNCHANGED <<childTask, childPc, parentTask, parentRes, lock, resumeRequested, crashes>>

\* End of the pass: persist DONE or WAITING unless paused meanwhile, release the lock.
Commit(r) ==
    /\ runner[r] = "commit"
    /\ IF parentRes = "PAUSED"
         THEN UNCHANGED <<parentRes, parentTask>>
         ELSE /\ parentRes' = IF seen[r] THEN "DONE" ELSE "WAITING"
              /\ parentTask' = IF seen[r] THEN "DONE" ELSE "WAITING"
    /\ lock' = NoOwner
    /\ runner' = [runner EXCEPT ![r] = "idle"]
    /\ UNCHANGED <<childTask, childPc, seen, resumeRequested, crashes>>

\* A user pauses the parent's resolution through the API.
Pause ==
    /\ parentRes \notin {"DONE", "PAUSED"}
    /\ parentRes' = "PAUSED"
    /\ UNCHANGED <<childTask, childPc, parentTask, lock, runner, seen, resumeRequested, crashes>>

(***************************************************************************)
(* Crashes (spec 4.E "Crash recovery", 4.F).  An engine instance dies in  *)
(* the middle of a pass of the parent: its lock session ends and the      *)
(* resolution stays RUNNING.  Or a child's engine dies after committing   *)
(* the child task and before its resume check.                             *)
(***************************************************************************)
CrashPass(r) ==
    /\ "pass" \in CrashPoints /\ crashes < MaxCrashes
    /\ runner[r] \in {"evaluate", "commit"}
    /\ runner' = [runner EXCEPT ![r] = "idle"]
    /\ lock' = NoOwner
    /\ crashes' = crashes + 1
    /\ UNCHANGED <<childTask, childPc, parentTask, parentRes, seen, resumeRequested>>

CrashCheck(c) ==
    /\ "check" \in CrashPoints /\ crashes < MaxCrashes
    /\ childPc[c] = "resume_check"
    /\ childPc' = [childPc EXCEPT ![c] = "crashed"]
    /\ crashes' = crashes + 1
    /\ UNCHANGED <<childTask, parentTask, parentRes, lock, runner, seen, resumeRequested>>

\* Engine start-up: a RUNNING resolution whose lock nobody holds is CRASHED.
Recover ==
    /\ parentRes = "RUNNING" /\ lock = NoOwner
    /\ parentRes' = "CRASHED"
    /\ UNCHANGED <<childTask, childPc, parentTask, lock, runner, seen, resumeRequested, crashes>>

\* Variant: the collector submits the crashed resolution without reclassifying it
CollectKeepingCrashed ==
    /\ parentRes = "CRASHED" /\ runner["collector"] = "idle"
    /\ runner' = [runner EXCEPT !["collector"] = "acquire"]
    /\ UNCHANGED <<childTask, childPc, parentTask, parentRes, lock, seen, resumeRequested, crashes>>

\* Retry collector tick: a CRASHED resolution is reclassified and submitted.
Collect ==
    /\ parentRes = "CRASHED" /\ runner["collector"] = "idle"
    /\ parentRes' = "TO_RETRY"
    /\ runner' = [runner EXCEPT !["collector"] = "acquire"]
    /\ UNCHANGED <<childTask, childPc, parentTask, lock, seen, resumeRequested, crashes>>

Next ==
    \/ \E c \in Children : ChildResolve(c) \/ ResumeCheck(c) \/ ResumeCheckFails(c)
    \/ \E r \in Runners : TryLock(r) \/ Evaluate(r) \/ Commit(r)
    \/ Pause
    \/ \E r \in Runners : CrashPass(r)
    \/ \E c \in Children : CrashCheck(c)
    \/ Recover \/ Collect

\* The engine's own steps, its restart and the collector's ticks are fair;
\* a user's pause and a crash are not.
Fairness ==
    /\ WF_vars(Recover) /\ WF_vars(Collect)
    /\ \A c \in Children : WF_vars(ChildResolve(c)) /\ WF_vars(ResumeCheck(c))
    /\ \A r \in Runners : WF_vars(TryLock(r)) /\ WF_vars(Evaluate(r)) /\ WF_vars(Commit(r))

Spec == Init /\ [][Next]_vars
FairSpec == Spec /\ Fairness

-----------------------------------------------------------------------------
TypeOK ==
    /\ childTask \in [Children -> TaskStates]
    /\ childPc \in [Children -> {"running", "resume_check", "finished", "check_failed", "crashed"}]
    /\ parentTask \in TaskStates
    /\ parentRes \in ResStates
    /\ lock \in Runners \cup {NoOwner}
    /\ runner \in [Runners -> {"idle", "acquire", "evaluate", "commit"}]
    /\ seen \in [Runners -> BOOLEAN]
    /\ resumeRequested \subseteq Children
    /\ crashes \in 0..MaxCrashes

\* Quiescence: every child has run its check, no parent pass is pending,
\* and no stale RUNNING resolution is waiting for crash recovery.
Quiescent ==
    /\ \A c \in Children : childPc[c] \in {"finished", "check_failed", "crashed"}
    /\ \A r \in Runners : runner[r] = "idle"
    /\ ~(parentRes = "RUNNING" /\ lock = NoOwner)

(***************************************************************************)
(* The claim of the comment in ShouldResumeParentTask: however the         *)
(* completions of sibling tasks interleave, once all of them are final    *)
(* and have run their check without a read failure, at least one check   *)
(* returned the parent, unless the parent's resolution was already done   *)
(* or paused, or is CRASHED (taskutils.go leaves it to the collector).    *)
(***************************************************************************)
SiblingsWakeParent ==
    (/\ Quiescent
     /\ \A c \in Children : childPc[c] = "finished" /\ childTask[c] \in FinishedStates)
        => \/ resumeRequested # {}
           \/ parentRes \in {"DONE", "PAUSED", "CRASHED"}

(***************************************************************************)
(* Once every child task is final, the parent's resolution is eventually  *)
(* DONE, unless a user paused it: the engine, not a human, must wake it,  *)
(* also when a pass of the parent crashed (restart and collector).        *)
(***************************************************************************)
ParentEventuallyResolved ==
    (\A c \in Children : childTask[c] \in FinishedStates)
        ~> (parentRes \in {"DONE", "PAUSED"})

(***************************************************************************)
(* Refinement: a pass is Evaluate then Commit, with child commits and a   *)
(* pause in between, yet it behaves as ParentWait's atomic steps: a       *)
(* successful TryLock is Wake, a Commit is Resolve or Park (or nothing on *)
(* a paused parent), a child's commit is ChildEnds.  A crashed or        *)
(* resubmitted resolution counts as waiting, so Recover is Park.  In      *)
(* particular the parent only becomes DONE when every child task is      *)
(* final at that moment.                                                   *)
(***************************************************************************)
AbstractChild(c) ==
    CASE childTask[c] \in FinishedStates -> "final"
      [] childTask[c] = "BLOCKED" -> "blocked"
      [] OTHER -> "running"

Abstract == INSTANCE ParentWait WITH
    child <- [c \in Children |-> AbstractChild(c)],
    parent <- IF parentRes \in {"CRASHED", "TO_RETRY"} THEN "WAITING" ELSE parentRes

\* SubtaskResume implements ParentWait.
ImplementsParentWait == Abstract!Spec
=============================================================================
