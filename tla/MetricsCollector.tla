--------------------------- MODULE MetricsCollector ---------------------------
(***************************************************************************)
(* The task-state gauge of the API server (api/metrics.go): collectMetrics *)
(* runs one updateMetrics at build time, then a goroutine refreshes it on  *)
(* every 5 s tick until the server's context is cancelled.  updateMetrics *)
(* sets utask_task_state{state,template,group} for every row of the        *)
(* count-by-(group, template, state) aggregation.                          *)
(*                                                                         *)
(* A label set (state, template, group) is a model value of Keys; the task *)
(* table is abstracted to its count per label set.                          *)
(***************************************************************************)
EXTENDS Naturals, Functions, TLC

CONSTANTS
    Keys,        \* label sets (state, template, group)
    MaxCount,    \* bound on the tasks with one label set
    MaxChanges,  \* bound on task creations and state changes
    DBFailures   \* whether opening the DB or the aggregation query may fail

VARIABLES
    db,         \* Keys -> number of tasks with that label set
    changes,    \* task writes so far
    gauge,      \* the GaugeVec: label sets set so far -> value
    pc,         \* "init", "running", "stopped" (loop returned), "nodb"
    cancelled   \* the server's context was cancelled (shutdown signal)

vars == <<db, changes, gauge, pc, cancelled>>

(***************************************************************************)
(* task.LoadStateCountResolverGroup: a GROUP BY count, so only the label   *)
(* sets with at least one task are returned.                               *)
(***************************************************************************)
LoadStateCountResolverGroup(d) == Restrict(d, {k \in Keys : d[k] > 0})

\* updateMetrics: Set every returned label set; the others keep their value.
\* On a query error the stats are nil and nothing is set.
updateMetrics(ok) ==
    gauge' = IF ok THEN LoadStateCountResolverGroup(db) @@ gauge ELSE gauge

QueryOutcomes == IF DBFailures THEN BOOLEAN ELSE {TRUE}

-----------------------------------------------------------------------------
Init ==
    /\ db = [k \in Keys |-> 0]
    /\ changes = 0
    /\ gauge = [k \in {} |-> 0]
    /\ pc = "init"
    /\ cancelled = FALSE

\* A task is created with label set k.
CreateTask(k) ==
    /\ changes < MaxChanges /\ db[k] < MaxCount
    /\ db' = [db EXCEPT ![k] = @ + 1]
    /\ changes' = changes + 1
    /\ UNCHANGED <<gauge, pc, cancelled>>

\* A task changes state (or resolver group): it moves from label set k to j.
MoveTask(k, j) ==
    /\ changes < MaxChanges /\ k # j /\ db[k] > 0 /\ db[j] < MaxCount
    /\ db' = [db EXCEPT ![k] = @ - 1, ![j] = @ + 1]
    /\ changes' = changes + 1
    /\ UNCHANGED <<gauge, pc, cancelled>>

(***************************************************************************)
(* collectMetrics, called by Server.build: NewDBProvider may fail (the    *)
(* function returns and no goroutine is started); else one updateMetrics  *)
(* and the ticker goroutine starts.                                         *)
(***************************************************************************)
collectMetrics ==
    /\ pc = "init"
    /\ \/ /\ DBFailures
          /\ pc' = "nodb" /\ UNCHANGED gauge
       \/ /\ \E ok \in QueryOutcomes : updateMetrics(ok)
          /\ pc' = "running"
    /\ UNCHANGED <<db, changes, cancelled>>

\* Variant: the loop returns after a failed refresh
TickStopsOnError(ok) ==
    /\ pc = "running"
    /\ updateMetrics(ok)
    /\ pc' = IF ok THEN "running" ELSE "stopped"
    /\ UNCHANGED <<db, changes, cancelled>>

\* case <-tick.C: updateMetrics(dbp).  Go's select may take a tick even
\* after the context is done, so cancellation does not disable it.
Tick(ok) ==
    /\ pc = "running"
    /\ updateMetrics(ok)
    /\ UNCHANGED <<db, changes, pc, cancelled>>

\* ListenAndServe's signal goroutine: cancel().
Cancel ==
    /\ ~cancelled
    /\ cancelled' = TRUE
    /\ UNCHANGED <<db, changes, gauge, pc>>

\* case <-ctx.Done(): tick.Stop(); return
Stop ==
    /\ pc = "running" /\ cancelled
    /\ pc' = "stopped"
    /\ UNCHANGED <<db, changes, gauge, cancelled>>

Next ==
    \/ \E k \in Keys : CreateTask(k)
    \/ \E k, j \in Keys : MoveTask(k, j)
    \/ collectMetrics
    \/ \E ok \in QueryOutcomes : Tick(ok)
    \/ Cancel
    \/ Stop

(***************************************************************************)
(* The ticker fires every 5 s and a failing query is transient, so a      *)
(* successful refresh eventually happens while the loop runs; build calls *)
(* collectMetrics; a done context is eventually selected.  Task writes    *)
(* and the shutdown signal are not assumed to happen.                      *)
(***************************************************************************)
Fairness == WF_vars(collectMetrics) /\ WF_vars(Tick(TRUE)) /\ WF_vars(Stop)

Spec == Init /\ [][Next]_vars
FairSpec == Spec /\ Fairness

-----------------------------------------------------------------------------
\* The value a scrape shows for label set k (absent: no sample, read as 0).
Scraped(k) == IF k \in DOMAIN gauge THEN gauge[k] ELSE 0

\* No more task writes happen.
Settled == changes = MaxChanges

\* The exporter keeps refreshing: not shut down, and it has a database.
Serving == ~cancelled /\ pc # "nodb"

(***************************************************************************)
(* Once the tasks stop changing, a running exporter eventually shows the  *)
(* right count for every label set that has tasks.  It needs the refresh  *)
(* loop to survive failed queries and keep ticking.                       *)
(***************************************************************************)
GaugeCatchesUp ==
    Settled ~> (~Serving \/ \A k \in Keys : db[k] > 0 => Scraped(k) = db[k])

(***************************************************************************)
(* Spec 6: the gauge is refreshed from the aggregation: once the tasks    *)
(* stop changing it eventually shows the count of every label set,        *)
(* including those whose last task left.                                  *)
(***************************************************************************)
GaugeMatchesDatabase ==
    Settled ~> (~Serving \/ \A k \in Keys : Scraped(k) = db[k])

=============================================================================
