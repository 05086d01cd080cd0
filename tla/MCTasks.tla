------------------------------ MODULE MCTasks -------------------------------
(* One caller and three lanes.  What the transactions are for is chosen once *)
(* and the state of the other kind never moves:                             *)
(*   jobs: tasks may use two lanes, up to four jobs: more jobs than lanes,   *)
(*     as many, and fewer; a grain that does not divide them;               *)
(*   stages: the two relations of the runtime's own test, a chain from the  *)
(*     last lane to the caller and every worker waiting for the caller's    *)
(*     task, and a join of the caller on all its workers.                   *)
EXTENDS TaskPool, TaskSlots

CONSTANTS a, none

MCCallers == {a}
MCNoCaller == none
Chain == [l \in Lane |-> {k \in Lane : k = l + 1}]
FanOut == [l \in Lane |-> IF l = 0 THEN {} ELSE {0}]
FanIn == [l \in Lane |-> IF l = 0 THEN Lane \ {0} ELSE {}]
MCStages == {Chain, FanOut, FanIn}

VARIABLE purpose

Jobs == purpose = "jobs" /\ UNCHANGED <<purpose, slotVars>>
Staging == purpose = "stages" /\ UNCHANGED <<purpose, poolVars>>

TasksVars == <<purpose, allVars, slotVars>>
TasksInit == PoolInit /\ SlotInit /\ purpose \in {"jobs", "stages"}
TasksNext == (Jobs /\ PoolNext) \/ (Staging /\ SlotNext)

\* PoolFairness and SlotFairness, each where the transactions are for it.
TasksFairness ==
    /\ \A l \in Lane : WF_TasksVars(Jobs /\ LaneNext(l))
    /\ WF_TasksVars(Jobs /\ Return)
    /\ \A l \in Lane : WF_TasksVars(Staging /\ StageNext(l))
    /\ WF_TasksVars(Staging /\ CloseTransaction)

TasksSpec == TasksInit /\ [][TasksNext]_TasksVars /\ TasksFairness
=============================================================================
