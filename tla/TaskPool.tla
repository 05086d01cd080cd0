------------------------------ MODULE TaskPool ------------------------------
(***************************************************************************)
(* How a parallel transaction shares out more jobs than it has lanes:       *)
(* Threads::runTasks (include/cpphdl_graph_threads.h) and Batch::run        *)
(* (include/cpphdl_graph_batch.h).  Both are one call of Threads::run, so   *)
(* the lanes move as ForkJoin lets them; this module adds what the function *)
(* of each lane does: the atomic counter `next' and the range of jobs a     *)
(* lane has claimed from it.                                                *)
(***************************************************************************)
EXTENDS ForkJoin, FiniteSets

CONSTANTS
    TaskWorkers,    \* taskWorkers_, CPPHDL_NATIVE_TASK_WORKERS
    MaxCount,       \* bound on the number of jobs of one call
    MaxGrain        \* bound on the grain of a dynamic batch

ASSUME TaskWorkersAssumption == TaskWorkers \in 1 .. Lanes
ASSUME MaxAssumption == MaxCount \in Nat /\ MaxGrain \in Nat \ {0}

Job == 0 .. MaxCount - 1
NoJob == MaxCount

VARIABLES
    mode,           \* which of the lane functions the call passed
    count, width, grain,    \* jobs of the call, lanes it opened, batch grain
    next,           \* Work::next, Context::next
    pc,             \* where the function of a lane is
    first, end,     \* jobs the lane holds: first, ..., end - 1
    error,          \* Context::error, by the job that threw it
    ranOn,          \* history: the lanes on which each job has been called
    failed          \* history: jobs that threw

local == <<pc, first, end>>
work == <<mode, count, width, grain>>
poolVars == <<work, next, local, error, ranOn, failed>>
allVars == <<vars, poolVars>>

TaskModes == {"direct", "serial", "queue"}
BatchModes == {"static", "dynamic"}
NoMode == "none"    \* between two calls

PoolInit ==
    /\ Init
    /\ mode = NoMode /\ count = 0 /\ width = 1 /\ grain = 1
    /\ next = 0
    /\ pc = [l \in Lane |-> "out"]
    /\ first = [l \in Lane |-> 0]
    /\ end = [l \in Lane |-> 0]
    /\ error = NoJob
    /\ ranOn = [j \in Job |-> {}]
    /\ failed = {}

Least(S) == CHOOSE x \in S : \A y \in S : x <= y

-----------------------------------------------------------------------------
(* Opening a call. *)

OpenCall(c, m, n, w, g, counter) ==
    /\ Open(c, w)
    /\ mode' = m /\ count' = n /\ width' = w /\ grain' = g
    /\ next' = counter
    /\ UNCHANGED <<local, error, ranOn, failed>>

TaskMode(n, w) ==
    IF w = n THEN "direct" ELSE IF w = 1 THEN "serial" ELSE "queue"

\* runTasks: one lane per task, one lane for all, or tasks beyond the first
\* of each lane claimed from a counter that starts at the number of lanes.
RunTasks(c, n, requested) ==
    LET w == Least({TaskWorkers, n, requested})
    IN  /\ n > 0
        /\ OpenCall(c, TaskMode(n, w), n, w, 1, w)

\* Batch::run with threads_ equal to the executor's lanes.
RunBatch(c, n, m, g) ==
    /\ n > 0
    /\ OpenCall(c, m, n, Least({Lanes, n}), g, 0)

-----------------------------------------------------------------------------
(* The function of one lane. *)

StaticWidth == count \div width
StaticExtra == count % width
StaticFirst(l) == StaticWidth * l + Least({l, StaticExtra})
\* Mutant of StaticEnd: the remainder of the division is dropped.
StaticEndEven(l) == StaticFirst(l) + StaticWidth

StaticEnd(l) == StaticFirst(l) + StaticWidth + (IF l < StaticExtra THEN 1 ELSE 0)

\* The jobs a lane has before it looks at the counter.
OwnFirst(l) == CASE mode = "serial" -> 0
                 [] mode = "static" -> StaticFirst(l)
                 [] OTHER -> l
OwnEnd(l) == CASE mode = "serial" -> count
               [] mode = "static" -> StaticEnd(l)
               [] OTHER -> l + 1

Hold(l, from, to, at) ==
    /\ first' = [first EXCEPT ![l] = from]
    /\ end' = [end EXCEPT ![l] = to]
    /\ pc' = [pc EXCEPT ![l] = at]

EnterLane(l) ==
    /\ Start(l)
    /\ IF mode = "dynamic" THEN Hold(l, 0, 0, "claim")
                           ELSE Hold(l, OwnFirst(l), OwnEnd(l), "jobs")
    /\ UNCHANGED <<work, next, error, ranOn, failed>>

\* Mutant of CallJob: a later exception replaces the first.
CallJobOverwrites(l) ==
    /\ pc[l] = "jobs" /\ first[l] < end[l]
    /\ ranOn' = [ranOn EXCEPT ![first[l]] = @ \cup {l}]
    /\ \/ UNCHANGED <<error, failed>>
       \/ /\ mode \in BatchModes
          /\ failed' = failed \cup {first[l]}
          /\ error' = first[l]
    /\ first' = [first EXCEPT ![l] = @ + 1]
    /\ UNCHANGED <<vars, work, next, pc, end>>

\* One call of the user's function.  Only a batch job may throw: the tasks of
\* runTasks are noexcept.  The first exception to take errorMutex is kept.
CallJob(l) ==
    /\ pc[l] = "jobs" /\ first[l] < end[l]
    /\ ranOn' = [ranOn EXCEPT ![first[l]] = @ \cup {l}]
    /\ \/ UNCHANGED <<error, failed>>
       \/ /\ mode \in BatchModes
          /\ failed' = failed \cup {first[l]}
          /\ error' = IF error = NoJob THEN first[l] ELSE error
    /\ first' = [first EXCEPT ![l] = @ + 1]
    /\ UNCHANGED <<vars, work, next, pc, end>>

\* The range is used up: the queue and the dynamic batch look for another.
JobsDone(l) ==
    /\ pc[l] = "jobs" /\ first[l] = end[l]
    /\ Hold(l, 0, 0, IF mode \in {"queue", "dynamic"} THEN "claim" ELSE "done")
    /\ UNCHANGED <<vars, work, next, error, ranOn, failed>>

\* next.fetch_add(1)
FetchAdd(l) ==
    /\ pc[l] = "claim" /\ mode = "queue"
    /\ next' = next + 1
    /\ IF next >= count THEN Hold(l, 0, 0, "done")
                        ELSE Hold(l, next, next + 1, "jobs")
    /\ UNCHANGED <<vars, work, error, ranOn, failed>>

\* Mutant of LoadNext: the end of the jobs is tested off by one.
LoadNextBeyond(l) ==
    /\ \/ pc[l] = "claim" /\ mode = "dynamic"
       \/ pc[l] = "exchange" /\ next # first[l]
    /\ IF next > count THEN Hold(l, 0, 0, "done")
                       ELSE Hold(l, next, next + Least({grain, count - next}), "exchange")
    /\ UNCHANGED <<vars, work, next, error, ranOn, failed>>

\* next.load(), and the reload by a compare_exchange that failed.
LoadNext(l) ==
    /\ \/ pc[l] = "claim" /\ mode = "dynamic"
       \/ pc[l] = "exchange" /\ next # first[l]
    /\ IF next >= count THEN Hold(l, 0, 0, "done")
                        ELSE Hold(l, next, next + Least({grain, count - next}), "exchange")
    /\ UNCHANGED <<vars, work, next, error, ranOn, failed>>

\* Mutant of Exchange: a plain store, which another lane may precede.
ExchangeBlindly(l) ==
    /\ pc[l] = "exchange"
    /\ next' = end[l]
    /\ pc' = [pc EXCEPT ![l] = "jobs"]
    /\ UNCHANGED <<vars, work, first, end, error, ranOn, failed>>

\* next.compare_exchange_weak(first, end) that succeeds.
Exchange(l) ==
    /\ pc[l] = "exchange" /\ next = first[l]
    /\ next' = end[l]
    /\ pc' = [pc EXCEPT ![l] = "jobs"]
    /\ UNCHANGED <<vars, work, first, end, error, ranOn, failed>>

LeaveLane(l) ==
    /\ pc[l] = "done"
    /\ Finish(l)
    /\ Hold(l, 0, 0, "out")
    /\ UNCHANGED <<work, next, error, ranOn, failed>>

\* run has joined every lane; Batch::run rethrows error.  The context of the
\* call was on the caller's stack.
Return ==
    /\ Close
    /\ mode' = NoMode /\ count' = 0 /\ width' = 1 /\ grain' = 1
    /\ next' = 0
    /\ error' = NoJob
    /\ ranOn' = [j \in Job |-> {}]
    /\ failed' = {}
    /\ UNCHANGED local

LaneNext(l) ==
    \/ EnterLane(l) \/ CallJob(l) \/ JobsDone(l) \/ FetchAdd(l) \/ LoadNext(l)
    \/ Exchange(l) \/ LeaveLane(l)

PoolNext ==
    \/ \E c \in Callers, n \in 1 .. MaxCount, r \in 1 .. Lanes + 1 : RunTasks(c, n, r)
    \/ \E c \in Callers, n \in 1 .. MaxCount, m \in BatchModes, g \in 1 .. MaxGrain :
          RunBatch(c, n, m, g)
    \/ \E l \in Lane : LaneNext(l)
    \/ Return

\* Threads gives each lane and the returning caller the processor.
PoolFairness ==
    /\ \A l \in Lane : WF_allVars(LaneNext(l))
    /\ WF_allVars(Return)

PoolSpec == PoolInit /\ [][PoolNext]_allVars /\ PoolFairness

-----------------------------------------------------------------------------
(* Properties. *)

\* No job is called twice: whatever way lanes claim ranges, the ranges they
\* hold are disjoint from each other and from the jobs already called.
Held(l) == IF pc[l] = "jobs" THEN first[l] .. end[l] - 1 ELSE {}

DisjointClaims ==
    \A l, k \in Lane : l # k =>
        /\ Held(l) \cap Held(k) = {}
        /\ \A j \in Held(l) : j < count /\ ranOn[j] = {}

\* A call returns only when each of its jobs has been called exactly once, on
\* one of the lanes the worker budget allowed, and for runTasks the first
\* task, which may have effects pinned to the caller, on the caller.
JobsAtReturn ==
    [][owner # NoCaller /\ owner' = NoCaller =>
         /\ \A j \in Job : Cardinality(ranOn[j]) = (IF j < count THEN 1 ELSE 0)
         /\ \A j \in Job : ranOn[j] \subseteq 0 .. width - 1
         /\ mode \in TaskModes => ranOn[0] = {0} /\ width <= TaskWorkers
      ]_allVars

\* A batch reports an exception exactly when a job threw, it reports the first one, of
\* a job of this batch, and keeps it while the others go on: errorMutex and the test
\* of error before it is set.
ErrorReported ==
    [][IF failed' = {} THEN error' = NoJob
       ELSE IF failed = {} THEN error' \in failed'
       ELSE error' = error
      ]_allVars

\* Every call ends: no lane claims for ever, and none waits for another.
CallReturns == owner # NoCaller ~> owner = NoCaller
=============================================================================
