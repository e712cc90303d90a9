--------------------------- MODULE MCOrderPipeline ---------------------------
(***************************************************************************)
(* Instances of OrderPipeline for TLC.  The pipeline itself never stops    *)
(* receiving webhooks and operator requests; the runs bound how many, and  *)
(* choose which payloads.                                                  *)
(***************************************************************************)
EXTENDS OrderPipeline, TLC

CONSTANTS MaxWebhooks,   \* bound: webhooks delivered, cancellations included
          MaxActions,    \* bound: exception actions of the operator
          MaxSwitches,   \* bound: times the automation is switched on
          MaxCleanups,   \* bound: draft clean-up requests
          MaxMoves,      \* bound: changes Printful makes on its own
          Fixed, Live    \* the facts of the payloads

VARIABLE used            \* how many of each there were

Budgets == {"webhooks", "actions", "switches", "cleanups", "moves"}
Spend(what, bound) == used[what] < bound /\ used' = [used EXCEPT ![what] = @ + 1]

BoundedInit == Init /\ used = [what \in Budgets |-> 0]

BoundedNext ==
  \/ /\ UNCHANGED used
     /\ \/ \E w \in Workers : WorkerStep(w) \/ Crash(w) \/ \E o \in Orders : Claim(w, o)
        \/ \E o \in Orders :
             \/ ExpireLease(o) \/ CancelCommit(o)
             \/ \E saw \in Sights :
                  \/ HookRollback(o, saw)
                  \/ \E topic \in Topics, fixed \in Fixed, live \in Live :
                       HookCommit(o, saw, topic, fixed, live)
             \/ CleanupInspect(o) \/ CleanupDelete(o) \/ CleanupSettle(o) \/ CleanupAbandon(o)
        \/ StopBegin \/ StopCommit
  \/ Spend("switches", MaxSwitches) /\ Enable
  \/ \E o \in Orders :
       \/ Spend("webhooks", MaxWebhooks) /\ (HookRead(o) \/ CancelHook(o))
       \/ Spend("actions", MaxActions) /\ \E action \in Actions : Act(o, action)
       \/ Spend("cleanups", MaxCleanups) /\ CleanupSelect(o)
       \/ Spend("moves", MaxMoves) /\ \E r \in RemoteIds : PrintfulMoves(o, r)

BoundedSpec == BoundedInit /\ [][BoundedNext]_<<vars, used>>
BoundedFairSpec == BoundedSpec /\ Fairness

\* Workers are interchangeable: no definition tells them apart.
Interchangeable == Permutations(Workers)
=============================================================================
