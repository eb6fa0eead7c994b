----------------------------- MODULE MCScheduling -----------------------------
(* The loops that every worker replica runs on a clock: the recurring tasks, *)
(* GPU scaling, and the scheduled reviews of the LLM supervisor.  They share *)
(* no state; one of them, `focus`, moves in each behaviour.                  *)
EXTENDS RecurringScheduler, GpuScaling, LlmSchedules

VARIABLE focus

taskVars == vars

MCInit ==
    /\ focus \in {"tasks", "gpu", "reviews"}
    /\ Init /\ ScalingInit /\ SuperInit
    /\ focus # "gpu" => gpu = 0
    /\ focus # "reviews" => task = "digest"

MCNext ==
    /\ UNCHANGED focus
    /\ \/ focus = "tasks" /\ Next /\ UNCHANGED <<scalingVars, superVars>>
       \/ focus = "gpu" /\ ScalingNext /\ UNCHANGED <<taskVars, superVars>>
       \/ focus = "reviews" /\ SuperNext /\ UNCHANGED <<taskVars, scalingVars>>

\* Each module's fairness while it moves.
MCSpec ==
    /\ MCInit /\ [][MCNext]_<<taskVars, scalingVars, superVars, focus>>
    /\ \A r \in Replicas : WF_taskVars(focus = "tasks" /\ Tick(r))
    /\ \A k \in Tasks : /\ WF_taskVars(focus = "tasks" /\ PeriodElapses(k))
                        /\ WF_taskVars(focus = "tasks" /\ Start(k))
                        /\ WF_taskVars(focus = "tasks" /\ Finish(k))
    /\ WF_scalingVars(focus = "gpu" /\ Minutes)
    /\ \A r \in Scalers : SF_scalingVars(focus = "gpu" /\ ScaleStep(r))

\* The type invariants of the three modules.
TypesOK == TypeOK /\ ScalingTypeOK /\ SuperTypeOK

\* DueIsServed, of a behaviour in which the tasks move.
DueTasksServed == focus = "tasks" => DueIsServed
=============================================================================
