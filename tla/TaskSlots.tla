----------------------------- MODULE TaskSlots ------------------------------
(***************************************************************************)
(* Dependencies between the lanes of one transaction: Threads::wait and     *)
(* Threads::complete on tasks_ (include/cpphdl_graph_threads.h).  A lane    *)
(* waits for the tasks it depends on, evaluates, and completes its own      *)
(* task, as the function of tests/graph/NativeThreadRuntime.cc does.  The   *)
(* transaction itself moves as ForkJoin lets it.                            *)
(*                                                                          *)
(* A task slot holds the epoch_ of the last transaction that completed the  *)
(* task; unlike commands_ and completed_ it is compared with the counter of *)
(* all transactions, those that do not touch the slot included.             *)
(***************************************************************************)
EXTENDS ForkJoin

CONSTANTS
    Stages,     \* dependency relations: functions from Lane to sets of lanes
    StampMod,   \* modulus of epoch_: 2^32 in the code
    MaxEpoch    \* bound: no transaction opens at this epoch or above it

ASSUME StageAssumption == Stages \subseteq [Lane -> SUBSET Lane]
ASSUME StampModAssumption == StampMod \in Nat \ {0, 1} /\ MaxEpoch \in 1 .. StampMod

Stamp == 0 .. StampMod - 1

VARIABLES
    epoch,      \* epoch_
    tasks,      \* tasks_[task].value
    needs,      \* the dependencies of this transaction, {} for every lane of
                \* one that uses no task slot
    usesTasks,  \* whether the function of this transaction completes its task
    taskPc,         \* where the function of a lane is
    target,     \* the tasks a lane has still to wait for
    task,       \* waitFor's slot, for each lane that is in a wait
    observed,   \* waitFor's observed, for each lane
    results     \* lanes whose result of this transaction is written

slotVars == <<epoch, tasks, needs, usesTasks, taskPc, target, task, observed, results>>
allSlotVars == <<vars, slotVars>>

NoNeeds == [l \in Lane |-> {}]

SlotInit ==
    /\ Init
    /\ epoch = 0
    /\ tasks = [l \in Lane |-> 0]
    /\ needs = NoNeeds
    /\ usesTasks = FALSE
    /\ taskPc = [l \in Lane |-> "out"]
    /\ target = NoNeeds
    /\ task = [l \in Lane |-> 0]
    /\ observed = [l \in Lane |-> 0]
    /\ results = {}

Move(l, from, to) ==
    /\ taskPc[l] = from
    /\ taskPc' = [taskPc EXCEPT ![l] = to]

\* run(): epoch_ moves with every transaction.
OpenTransaction(c, n, uses, stage) ==
    /\ epoch < MaxEpoch
    /\ Open(c, n)
    /\ epoch' = (epoch + 1) % StampMod
    /\ usesTasks' = uses
    /\ needs' = [l \in Lane |-> IF uses THEN stage[l] \cap (0 .. n - 1) ELSE {}]
    /\ results' = {}
    /\ UNCHANGED <<tasks, taskPc, target, task, observed>>

EnterStage(l) ==
    /\ Start(l)
    /\ Move(l, "out", "wait")
    /\ target' = [target EXCEPT ![l] = needs[l]]
    /\ UNCHANGED <<epoch, tasks, needs, usesTasks, task, observed, results>>

\* Mutant of TaskReady: any completion counts, of whatever transaction.
TaskReadyEver(l, t) ==
    /\ t \in target[l]
    /\ tasks[t] # 0
    /\ Move(l, "wait", "wait")
    /\ target' = [target EXCEPT ![l] = @ \ {t}]
    /\ UNCHANGED <<vars, epoch, tasks, needs, usesTasks, task, observed, results>>

\* wait(task, epoch): the load that finds the stamp of this transaction ...
TaskReady(l, t) ==
    /\ t \in target[l]
    /\ tasks[t] = epoch
    /\ Move(l, "wait", "wait")
    /\ target' = [target EXCEPT ![l] = @ \ {t}]
    /\ UNCHANGED <<vars, epoch, tasks, needs, usesTasks, task, observed, results>>

\* ... and the one that does not, when the spin window is used up.
TaskPark(l, t) ==
    /\ t \in target[l]
    /\ tasks[t] # epoch
    /\ Move(l, "wait", "park")
    /\ task' = [task EXCEPT ![l] = t]
    /\ observed' = [observed EXCEPT ![l] = tasks[t]]
    /\ UNCHANGED <<vars, epoch, tasks, needs, usesTasks, target, results>>

TaskSleep(l) ==
    /\ tasks[task[l]] = observed[l]
    /\ Move(l, "park", "asleep")
    /\ UNCHANGED <<vars, epoch, tasks, needs, usesTasks, target, task, observed, results>>

TaskWoken(l) ==
    /\ tasks[task[l]] # observed[l]
    /\ Move(l, "park", "wait")
    /\ task' = [task EXCEPT ![l] = 0]
    /\ observed' = [observed EXCEPT ![l] = 0]
    /\ UNCHANGED <<vars, epoch, tasks, needs, usesTasks, target, results>>

Body(l) ==
    /\ target[l] = {}
    /\ Move(l, "wait", "body")
    /\ UNCHANGED <<vars, epoch, tasks, needs, usesTasks, target, task, observed, results>>

BodyDone(l) ==
    /\ Move(l, "body", IF usesTasks THEN "store" ELSE "done")
    /\ results' = results \cup {l}
    /\ UNCHANGED <<vars, epoch, tasks, needs, usesTasks, target, task, observed>>

\* complete(task, epoch): the store, and then notify_all.
Store(l) ==
    /\ Move(l, "store", "notify")
    /\ tasks' = [tasks EXCEPT ![l] = epoch]
    /\ UNCHANGED <<vars, epoch, needs, usesTasks, target, task, observed, results>>

\* Mutant of NotifyAll: notify_one, where several lanes may wait.
NotifyOne(l) ==
    LET waiting == {k \in Lane : taskPc[k] = "asleep" /\ task[k] = l}
    IN  /\ taskPc[l] = "notify"
        /\ \E w \in IF waiting = {} THEN {l} ELSE waiting :
              taskPc' = [k \in Lane |-> IF k = l THEN "done" ELSE IF k = w THEN "park" ELSE taskPc[k]]
        /\ UNCHANGED <<vars, epoch, tasks, needs, usesTasks, target, task, observed, results>>

NotifyAll(l) ==
    /\ taskPc[l] = "notify"
    /\ taskPc' = [k \in Lane |->
                IF k = l THEN "done"
                ELSE IF taskPc[k] = "asleep" /\ task[k] = l THEN "park"
                ELSE taskPc[k]]
    /\ UNCHANGED <<vars, epoch, tasks, needs, usesTasks, target, task, observed, results>>

LeaveStage(l) ==
    /\ Finish(l)
    /\ Move(l, "done", "out")
    /\ UNCHANGED <<epoch, tasks, needs, usesTasks, target, task, observed, results>>

CloseTransaction ==
    /\ Close
    /\ results' = {}
    /\ needs' = NoNeeds
    /\ usesTasks' = FALSE
    /\ UNCHANGED <<epoch, tasks, taskPc, target, task, observed>>

StageNext(l) ==
    \/ EnterStage(l)
    \/ \E t \in Lane : TaskReady(l, t) \/ TaskPark(l, t)
    \/ TaskSleep(l) \/ TaskWoken(l) \/ Body(l) \/ BodyDone(l)
    \/ Store(l) \/ NotifyAll(l) \/ LeaveStage(l)

SlotNext ==
    \/ \E c \in Callers, n \in 1 .. Lanes, s \in Stages : OpenTransaction(c, n, TRUE, s)
    \/ \E c \in Callers, n \in 1 .. Lanes : OpenTransaction(c, n, FALSE, NoNeeds)
    \/ \E l \in Lane : StageNext(l)
    \/ CloseTransaction

SlotFairness ==
    /\ \A l \in Lane : WF_allSlotVars(StageNext(l))
    /\ WF_allSlotVars(CloseTransaction)

SlotSpec == SlotInit /\ [][SlotNext]_allSlotVars /\ SlotFairness

-----------------------------------------------------------------------------
(* Properties. *)

\* A lane that evaluates reads the results of this transaction: wait returns
\* for a task only after the lane of that task has written its own result.
WaitMeansCompleted ==
    \A l \in Lane : taskPc[l] = "body" => needs[l] \subseteq results

\* Lanes that wait for one another along an acyclic relation all end, however
\* the store and the notification of a completion fall against the sleep of
\* the lanes that wait for it.
StageReturns == usesTasks ~> ~usesTasks
=============================================================================
