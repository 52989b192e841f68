----------------------------- MODULE MCServices -----------------------------
(***************************************************************************)
(* Two services of a peer that have no state in common, side by side: the  *)
(* URN filter cache and the task driver.  A behaviour is one of a single   *)
(* service, the other staying in an initial state.                         *)
(***************************************************************************)
EXTENDS UrnCache

CONSTANT Task

VARIABLES
    service,  \* which one runs
    until, policy, run, at, ended, state, finishing, timer, listening, woken

taskVars == <<until, policy, run, at, ended, state, finishing, timer, listening, woken>>

T == INSTANCE Tasks

ServicesInit ==
    /\ service \in {"cache", "tasks"}
    /\ Init /\ (service # "cache" => dirs = {})
    /\ T!Init /\ (service # "tasks" => until = "forever" /\ policy = "return")

ServicesNext ==
    \/ service = "cache" /\ Next /\ UNCHANGED <<service, taskVars>>
    \/ service = "tasks" /\ T!Next /\ UNCHANGED <<service, vars>>

\* The fairness of each service, for the one that runs.
ServicesSpec ==
    /\ ServicesInit /\ [][ServicesNext]_<<service, vars, taskVars>>
    /\ WF_vars(service = "cache" /\ Main)
    /\ WF_vars(service = "cache" /\ Bob)
    /\ \A n \in Urns : WF_vars(service = "cache" /\ CreateId(n))
    /\ WF_taskVars(service = "tasks" /\ T!Poll)
    /\ WF_taskVars(service = "tasks" /\ T!Elapse)
    /\ \A t \in Task : WF_taskVars(service = "tasks" /\ \E r \in T!Finished : T!Complete(t, r))

-----------------------------------------------------------------------------
\* The filter catches up with what is created, and its threads end (see UrnCache).
FilterFollows == CatchesUp /\ Terminates

\* Every task the stream yields is joined, or returned with the error, and
\* run_until_idle comes to its end (see Tasks).
TasksEnd == [](T!ErrorKeepsTasks) /\ T!EveryTaskJoined /\ T!IdleResolves
=============================================================================
