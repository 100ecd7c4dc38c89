------------------------------ MODULE NotifyBus ------------------------------
(***************************************************************************)
(* The notification bus (pkg/notify): start-up registration of the       *)
(* configured backends by notify/init.Init, which validates and          *)
(* normalises each backend's strategies, and notify.Send, which starts   *)
(* one goroutine per deliverable backend for every message.              *)
(*                                                                         *)
(* A backend config is a record                                            *)
(*   [type, default, templates]                                            *)
(* where default is a map action -> strategy (a function on a subset of  *)
(* keys) and templates maps an action to a sequence of                    *)
(* [templates: SUBSET Templates, strategy] entries.  Keys and strategies *)
(* range over the valid names plus one invalid name ("bogus").           *)
(***************************************************************************)
EXTENDS Naturals, Sequences, SequencesExt

CONSTANTS
    Names,          \* configured backend names (model values)
    Templates,      \* task template names (model values)
    ConfigSpace,    \* the backend configs a deployment may hold
    ActionParams,   \* utask NotifyActions: action -> [disabled, backends]
    MaxMessages     \* number of messages the engine emits

TaskStateUpdateKey == "task_state_update"
TaskStepUpdateKey == "task_step_update"
TaskValidationKey == "task_validation"
ActionKeys == {TaskValidationKey, TaskStateUpdateKey, TaskStepUpdateKey}
Strategies == {"always", "silent", "failure_only", "failure_or_done"}

\* What a message says about the task: the strategies look at failure/done.
Outcomes == {"failure", "done", "other"}
Messages == [action : ActionKeys, template : Templates, outcome : Outcomes]

VARIABLES
    cfg,         \* each backend's config as read from the config store
    phase,       \* "boot" while Init runs, "running" after, "aborted" on an Init error
    toInit,      \* backends Init has not reached yet (map order: any)
    senders,     \* notify.senders: name -> normalised strategies
    sent,        \* messages passed to notify.Send, in order
    goroutines,  \* <<name, message number>> -> sender goroutines not yet run
    delivered    \* name -> message numbers in the order its sender got them

vars == <<cfg, phase, toInit, senders, sent, goroutines, delivered>>

(***************************************************************************)
(* notify/init: validation and normalisation of one backend's strategies. *)
(***************************************************************************)
validateActionName(a) == a \in ActionKeys

\* Variant: failure_or_done is not refused for task_validation
validateStrategyForActionNoFoD(a, s) ==
    CASE s \in {"always", "silent", "failure_or_done"} -> "ok"
      [] s = "failure_only" -> IF a = TaskValidationKey THEN "not_allowed" ELSE "ok"
      [] OTHER -> "unknown"

validateStrategyForAction(a, s) ==
    CASE s \in {"always", "silent"} -> "ok"
      [] s \in {"failure_only", "failure_or_done"} ->
            IF a = TaskValidationKey THEN "not_allowed" ELSE "ok"
      [] OTHER -> "unknown"

\* The default strategies with "always" filled in for every missing action.
NormalizedDefault(c) ==
    [a \in DOMAIN c.default \cup ActionKeys |->
        IF a \in DOMAIN c.default THEN c.default[a] ELSE "always"]

\* Variant: missing actions are left out of the default strategies
validateAndNormalizeNoFill(c) ==
    [ok |-> /\ \A a \in DOMAIN c.default : validateActionName(a)
            /\ \A a \in ActionKeys \cap DOMAIN c.default :
                  validateStrategyForAction(a, c.default[a]) = "ok"
            /\ \A a \in DOMAIN c.templates :
                  /\ validateActionName(a)
                  /\ \A i \in DOMAIN c.templates[a] :
                        validateStrategyForAction(a, c.templates[a][i].strategy) = "ok",
     default |-> c.default]

(***************************************************************************)
(* Every check of the three loops must pass; an error ends the call (which *)
(* error comes first depends on Go's map order, and Init fails either way).*)
(* The inner loop re-declares "action", so template strategies are checked *)
(* against their own action.                                               *)
(***************************************************************************)
validateAndNormalizeNotificationStrategy(c) ==
    LET d == NormalizedDefault(c) IN
    [ok |-> /\ \A a \in DOMAIN c.default : validateActionName(a)
            /\ \A a \in ActionKeys : validateStrategyForAction(a, d[a]) = "ok"
            /\ \A a \in DOMAIN c.templates :
                  /\ validateActionName(a)
                  /\ \A i \in DOMAIN c.templates[a] :
                        validateStrategyForAction(a, c.templates[a][i].strategy) = "ok",
     default |-> d]

(***************************************************************************)
(* checkIfDeliverMessage (spec 4.G): the backend's default strategy for   *)
(* the message's action, overridden by the first template entry of that   *)
(* action naming the message's template.                                  *)
(***************************************************************************)
EffectiveStrategy(s, m) ==
    LET entries == IF m.action \in DOMAIN s.templates THEN s.templates[m.action] ELSE <<>>
        i == SelectInSeq(entries, LAMBDA e : m.template \in e.templates)
    IN  IF i = 0 THEN s.default[m.action] ELSE entries[i].strategy

checkIfDeliverMessage(m, s) ==
    CASE EffectiveStrategy(s, m) = "always" -> TRUE
      [] EffectiveStrategy(s, m) = "silent" -> FALSE
      [] EffectiveStrategy(s, m) = "failure_only" -> m.outcome = "failure"
      [] EffectiveStrategy(s, m) = "failure_or_done" -> m.outcome \in {"failure", "done"}

\* Variant: the backend list of the action is not looked at
SpawnedIgnoringList(name, m) ==
    IF ActionParams[m.action].disabled \/ name \notin DOMAIN senders THEN 0
    ELSE IF checkIfDeliverMessage(m, senders[name]) THEN 1 ELSE 0

(***************************************************************************)
(* notify.Send: how many goroutines it starts for backend `name`: none    *)
(* when disabled; with an empty backend list one per registered sender    *)
(* that accepts m; else one per entry of the list naming it.              *)
(***************************************************************************)
Spawned(name, m) ==
    LET p == ActionParams[m.action]
        accepts == name \in DOMAIN senders /\ checkIfDeliverMessage(m, senders[name])
    IN  CASE p.disabled -> 0
          [] ~accepts -> 0
          [] Len(p.backends) = 0 -> 1
          [] OTHER -> Cardinality({i \in DOMAIN p.backends : p.backends[i] = name})

-----------------------------------------------------------------------------
Init ==
    /\ cfg \in [Names -> ConfigSpace]
    /\ phase = "boot"
    /\ toInit = Names
    /\ senders = [n \in {} |-> {}]
    /\ sent = <<>>
    /\ goroutines = [k \in Names \X (1..MaxMessages) |-> 0]
    /\ delivered = [n \in Names |-> <<>>]

\* notify.RegisterSender: senders[name] = backend (a new name or a replacement).
RegisterSender(name, default, templates) ==
    [x \in DOMAIN senders \cup {name} |->
        IF x = name THEN [default |-> default, templates |-> templates] ELSE senders[x]]

(***************************************************************************)
(* notify/init.Init, one loop iteration: validate, then switch on the     *)
(* backend type and RegisterSender with the normalised default; any error *)
(* is returned and start-up stops.                                        *)
(***************************************************************************)
InitBackend(n) ==
    /\ phase = "boot" /\ n \in toInit
    /\ LET v == validateAndNormalizeNotificationStrategy(cfg[n]) IN
         IF v.ok /\ cfg[n].type # "unknown"
           THEN /\ senders' = RegisterSender(n, v.default, cfg[n].templates)
                /\ toInit' = toInit \ {n}
                /\ UNCHANGED phase
           ELSE /\ phase' = "aborted"
                /\ UNCHANGED <<senders, toInit>>
    /\ UNCHANGED <<cfg, sent, goroutines, delivered>>

\* After the loop: notify.RegisterActions; the service starts.
InitDone ==
    /\ phase = "boot" /\ toInit = {}
    /\ phase' = "running"
    /\ UNCHANGED <<cfg, toInit, senders, sent, goroutines, delivered>>

\* The engine emits message m: notify.Send starts its goroutines and returns.
Send(m) ==
    /\ phase = "running" /\ Len(sent) < MaxMessages
    /\ sent' = Append(sent, m)
    /\ goroutines' = [k \in DOMAIN goroutines |->
                        IF k[2] = Len(sent) + 1 THEN Spawned(k[1], m) ELSE goroutines[k]]
    /\ UNCHANGED <<cfg, phase, toInit, senders, delivered>>

\* A goroutine runs: the sender gets message number k[2].
Deliver(k) ==
    /\ goroutines[k] > 0
    /\ goroutines' = [goroutines EXCEPT ![k] = @ - 1]
    /\ delivered' = [delivered EXCEPT ![k[1]] = Append(@, k[2])]
    /\ UNCHANGED <<cfg, phase, toInit, senders, sent>>

Next ==
    \/ \E n \in Names : InitBackend(n)
    \/ InitDone
    \/ \E m \in Messages : Send(m)
    \/ \E k \in DOMAIN goroutines : Deliver(k)

\* Goroutines are scheduled eventually; start-up runs to its end.
Fairness ==
    /\ WF_vars(\E n \in Names : InitBackend(n)) /\ WF_vars(InitDone)
    /\ \A k \in Names \X (1..MaxMessages) : WF_vars(Deliver(k))

Spec == Init /\ [][Next]_vars
FairSpec == Spec /\ Fairness

-----------------------------------------------------------------------------
TypeOK ==
    /\ phase \in {"boot", "running", "aborted"}
    /\ toInit \subseteq Names
    /\ DOMAIN senders \subseteq Names
    /\ \A n \in DOMAIN senders : senders[n].default \in [ActionKeys -> Strategies]
    /\ sent \in Seq(Messages) /\ Len(sent) <= MaxMessages
    /\ goroutines \in [Names \X (1..MaxMessages) -> Nat]
    /\ delivered \in [Names -> Seq(1..MaxMessages)]

(***************************************************************************)
(* Spec 8.7: whatever the configuration, a service that started never     *)
(* filters a task_validation message with failure_only or failure_or_done *)
(* for any template: every registered backend's effective strategy for    *)
(* that action is always or silent.                                       *)
(***************************************************************************)
ValidationNeverFailureFiltered ==
    phase = "running" =>
        \A n \in DOMAIN senders, t \in Templates, o \in Outcomes :
            EffectiveStrategy(senders[n],
                [action |-> TaskValidationKey, template |-> t, outcome |-> o])
                \in {"always", "silent"}

\* Spec 4.G: backend `name` should get message m.
Selected(name, m) ==
    LET p == ActionParams[m.action] IN
    /\ ~p.disabled
    /\ name \in DOMAIN senders
    /\ Len(p.backends) = 0 \/ name \in ToSet(p.backends)
    /\ checkIfDeliverMessage(m, senders[name])

Received(name, k) == Cardinality({i \in DOMAIN delivered[name] : delivered[name][i] = k})

(***************************************************************************)
(* Every emitted message eventually reaches, exactly once, each backend   *)
(* its action's parameters and that backend's strategies select, and no   *)
(* other backend.                                                          *)
(***************************************************************************)
SelectedBackendsReceive ==
    \A k \in 1..MaxMessages :
        (Len(sent) >= k) ~>
            /\ Len(sent) >= k
            /\ \A n \in Names : Received(n, k) = IF Selected(n, sent[k]) THEN 1 ELSE 0

(***************************************************************************)
(* Spec 5: notifications reach a backend in the order they were emitted.  *)
(***************************************************************************)
DeliveredInEmitOrder ==
    \A n \in Names : \A i, j \in DOMAIN delivered[n] :
        i < j => delivered[n][i] < delivered[n][j]
=============================================================================
