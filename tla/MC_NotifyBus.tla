----------------------------- MODULE MC_NotifyBus -----------------------------
(* Model-checking instances of NotifyBus.                                  *)
EXTENDS NotifyBus, TLC

CONSTANTS b1, b2, t1, t2

\* An action name or strategy the validation must refuse.
Bogus == "bogus"

(***************************************************************************)
(* Config space: one backend, one template. Default maps over a subset of *)
(* {task_validation, task_step_update, bogus} (task_state_update is       *)
(* filtered like task_step_update); template strategies for               *)
(* task_validation and bogus, one entry each matching t1 or nothing.      *)
(***************************************************************************)
SpaceNames == {b1}
SpaceTemplates == {t1}
SpaceDefaults ==
    UNION {[D -> Strategies \cup {Bogus}] :
              D \in SUBSET {TaskValidationKey, TaskStepUpdateKey, Bogus}}
SpaceTemplateMaps ==
    UNION {[D -> {<<[templates |-> T, strategy |-> s]>> :
                     T \in {{}, {t1}}, s \in Strategies \cup {Bogus}}] :
              D \in SUBSET {TaskValidationKey, Bogus}}
SpaceConfigs ==
    [type : {"slack", "unknown"}, default : SpaceDefaults, templates : SpaceTemplateMaps]
SpaceParams == [a \in ActionKeys |-> [disabled |-> FALSE, backends |-> <<>>]]

(***************************************************************************)
(* Delivery: two backends, two templates, fixed valid configs.  b1 sends  *)
(* everything except failures-or-done on step updates, with t1 silenced   *)
(* for task updates by the first of two matching entries; b2 keeps the    *)
(* defaults.  Validation goes to every backend, state updates only to b2, *)
(* step updates to b1 and b2 listed in turn.                              *)
(***************************************************************************)
DeliveryNames == {b1, b2}
DeliveryTemplates == {t1, t2}
B1Config ==
    [type |-> "slack",
     default |-> [a \in ActionKeys |->
                    IF a = TaskStepUpdateKey THEN "failure_or_done" ELSE "always"],
     templates |-> (TaskStateUpdateKey :>
                      <<[templates |-> {t1}, strategy |-> "silent"],
                        [templates |-> {t1, t2}, strategy |-> "failure_only"]>>)]
B2Config == [type |-> "webhook", default |-> [a \in {} |-> "always"],
             templates |-> [a \in {} |-> <<>>]]
DeliveryConfigs == {B1Config, B2Config}
DeliveryParams ==
    (TaskValidationKey :> [disabled |-> FALSE, backends |-> <<>>])
    @@ (TaskStateUpdateKey :> [disabled |-> FALSE, backends |-> <<b2>>])
    @@ (TaskStepUpdateKey :> [disabled |-> FALSE, backends |-> <<b1, b2>>])

\* Delivery configs assigned one per backend.
DeliveryInit ==
    /\ Init
    /\ cfg = (b1 :> B1Config) @@ (b2 :> B2Config)
DeliverySpec == DeliveryInit /\ [][Next]_vars /\ Fairness
=============================================================================
