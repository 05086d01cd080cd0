------------------------------ MODULE Threads -------------------------------
(***************************************************************************)
(* graph_runtime::Threads (include/cpphdl_graph_threads.h): the persistent  *)
(* worker pool that evaluates one graph transaction at a time.              *)
(*                                                                          *)
(* Callers are host threads sharing the pool; the thread that constructs    *)
(* and destroys it is the host.  One action is one access to shared state.  *)
(* Every slot is published with release and read with acquire, and relaxed  *)
(* accesses are ordered by a slot of the same thread, so interleaving is    *)
(* the memory model.  The spin of waitFor and worker is a bounded re-read   *)
(* of an unchanged slot: it is the stuttering before the thread parks.      *)
(* A local variable has its initial value while it is out of scope.         *)
(***************************************************************************)
EXTENDS Naturals

CONSTANTS
    Callers,
    NoCaller,
    Lanes,
    StampMod        \* modulus of a slot and of epoch_: 2^32 in the code

ASSUME LanesAssumption == Lanes \in Nat \ {0}
ASSUME CallerAssumption == NoCaller \notin Callers
ASSUME StampModAssumption == StampMod \in Nat \ {0, 1}

Worker == 1 .. Lanes - 1
Stamp == 0 .. StampMod - 1

\* Mutant of Bump: the counter does not wrap.
BumpUnbounded(s) == s + 1

\* ++ on a uint32_t.
Bump(s) == IF s = StampMod - 1 THEN 0 ELSE s + 1

VARIABLES
    mutex,          \* mutex_: the caller that holds it
    model,          \* model_ and function_, identified by the caller they belong to
    epoch,          \* epoch_
    commands,       \* commands_[lane].value
    completed,      \* completed_[lane].value
    stopping,       \* stopping_
    cpc, active, lane, observed, threw,     \* run(), for each caller
    wpc, stamp, seen, arg,                  \* worker(), for each worker
    hpc, hlane                              \* constructor, destructor and stop()

shared == <<mutex, model, epoch, commands, completed, stopping>>
callerVars == <<cpc, active, lane, observed, threw>>
workerVars == <<wpc, stamp, seen, arg>>
hostVars == <<hpc, hlane>>
vars == <<shared, callerVars, workerVars, hostVars>>

CallerPC == {"idle", "signal", "notify", "lane0", "continuation",
             "join", "park", "asleep"}
WorkerPC == {"unborn", "load", "park", "asleep", "check", "run", "complete",
             "wake", "exited"}
HostPC == {"construct", "bind", "ready", "signal", "notify", "join", "gone"}

TypeOK ==
    /\ mutex \in Callers \cup {NoCaller}
    /\ model \in Callers \cup {NoCaller}
    /\ epoch \in Stamp
    /\ commands \in [Worker -> Stamp]
    /\ completed \in [Worker -> Stamp]
    /\ stopping \in BOOLEAN
    /\ cpc \in [Callers -> CallerPC]
    /\ active \in [Callers -> 1 .. Lanes]
    /\ lane \in [Callers -> 1 .. Lanes]
    /\ observed \in [Callers -> Stamp]
    /\ threw \in [Callers -> BOOLEAN]
    /\ wpc \in [Worker -> WorkerPC]
    /\ stamp \in [Worker -> Stamp]
    /\ seen \in [Worker -> Stamp]
    /\ arg \in [Worker -> (Callers \cup {NoCaller}) \X Stamp]
    /\ hpc \in HostPC
    /\ hlane \in 1 .. Lanes

NoArg == <<NoCaller, 0>>

Init ==
    /\ mutex = NoCaller
    /\ model = NoCaller
    /\ epoch = 0
    /\ commands = [l \in Worker |-> 0]
    /\ completed = [l \in Worker |-> 0]
    /\ stopping = FALSE
    /\ cpc = [c \in Callers |-> "idle"]
    /\ active = [c \in Callers |-> 1]
    /\ lane = [c \in Callers |-> 1]
    /\ observed = [c \in Callers |-> 0]
    /\ threw = [c \in Callers |-> FALSE]
    /\ wpc = [l \in Worker |-> "unborn"]
    /\ stamp = [l \in Worker |-> 0]
    /\ seen = [l \in Worker |-> 0]
    /\ arg = [l \in Worker |-> NoArg]
    /\ hpc = "construct"
    /\ hlane = 1

-----------------------------------------------------------------------------
(* The thread of a caller: run(model, function, activeLanes, continuation). *)

CallerStep(c, from, to) ==
    /\ cpc[c] = from
    /\ cpc' = [cpc EXCEPT ![c] = to]

\* lock_guard, then model_, function_ and epoch_ under the lock.  The range of
\* n is the check that throws invalid_argument before anything is changed.
Enter(c, n) ==
    /\ hpc = "ready"
    /\ mutex = NoCaller
    /\ CallerStep(c, "idle", "signal")
    /\ mutex' = c
    /\ model' = c
    /\ epoch' = Bump(epoch)
    /\ active' = [active EXCEPT ![c] = n]
    /\ lane' = [lane EXCEPT ![c] = 1]
    /\ threw' = [threw EXCEPT ![c] = FALSE]
    /\ UNCHANGED <<commands, completed, stopping, observed, workerVars, hostVars>>

\* commands_[lane].value.fetch_add(1, release)
Signal(c) ==
    /\ lane[c] < active[c]
    /\ CallerStep(c, "signal", "notify")
    /\ commands' = [commands EXCEPT ![lane[c]] = Bump(@)]
    /\ UNCHANGED <<mutex, model, epoch, completed, stopping, active, lane,
                   observed, threw, workerVars, hostVars>>

\* notify_one: at most one thread, the worker of that lane, waits on a command.
Unpark(l) ==
    wpc' = [wpc EXCEPT ![l] = IF @ = "asleep" THEN "park" ELSE @]

Notify(c) ==
    /\ CallerStep(c, "notify", "signal")
    /\ Unpark(lane[c])
    /\ lane' = [lane EXCEPT ![c] = @ + 1]
    /\ UNCHANGED <<shared, active, observed, threw, stamp, seen, arg, hostVars>>

\* invoke(function, model, 0, epoch) on the caller's own thread.
CallerLane(c) ==
    /\ lane[c] = active[c]
    /\ CallerStep(c, "signal", "lane0")
    /\ UNCHANGED <<shared, active, lane, observed, threw, workerVars, hostVars>>

CallerLaneDone(c) ==
    /\ CallerStep(c, "lane0", "continuation")
    /\ UNCHANGED <<shared, active, lane, observed, threw, workerVars, hostVars>>

\* Mutant of Continuation: its exception leaves run without the join.
ContinuationEscapes(c) ==
    /\ CallerStep(c, "continuation", "join")
    /\ \E e \in BOOLEAN :
          /\ threw' = [threw EXCEPT ![c] = e]
          /\ lane' = [lane EXCEPT ![c] = IF e THEN active[c] ELSE 1]
    /\ UNCHANGED <<shared, active, observed, workerVars, hostVars>>

\* The continuation returns, or its exception is kept until every lane is joined.
Continuation(c) ==
    /\ CallerStep(c, "continuation", "join")
    /\ lane' = [lane EXCEPT ![c] = 1]
    /\ \E e \in BOOLEAN : threw' = [threw EXCEPT ![c] = e]
    /\ UNCHANGED <<shared, active, observed, workerVars, hostVars>>

\* Mutant of Joined: the caller does not wait for the completion.
JoinedBlindly(c) ==
    /\ lane[c] < active[c]
    /\ CallerStep(c, "join", "join")
    /\ lane' = [lane EXCEPT ![c] = @ + 1]
    /\ UNCHANGED <<shared, active, observed, threw, workerVars, hostVars>>

\* waitFor(completed_[lane], commands_[lane]): the load that finds them equal.
Joined(c) ==
    /\ lane[c] < active[c]
    /\ completed[lane[c]] = commands[lane[c]]
    /\ CallerStep(c, "join", "join")
    /\ lane' = [lane EXCEPT ![c] = @ + 1]
    /\ UNCHANGED <<shared, active, observed, threw, workerVars, hostVars>>

\* The load that finds them different, with the spin window used up.
JoinPark(c) ==
    /\ lane[c] < active[c]
    /\ completed[lane[c]] # commands[lane[c]]
    /\ CallerStep(c, "join", "park")
    /\ observed' = [observed EXCEPT ![c] = completed[lane[c]]]
    /\ UNCHANGED <<shared, active, lane, threw, workerVars, hostVars>>

\* slot.wait(observed) blocks only while the slot still has the observed value.
JoinSleep(c) ==
    /\ CallerStep(c, "park", "asleep")
    /\ completed[lane[c]] = observed[c]
    /\ UNCHANGED <<shared, active, lane, observed, threw, workerVars, hostVars>>

JoinWoken(c) ==
    /\ CallerStep(c, "park", "join")
    /\ completed[lane[c]] # observed[c]
    /\ observed' = [observed EXCEPT ![c] = 0]
    /\ UNCHANGED <<shared, active, lane, threw, workerVars, hostVars>>

\* Return, or rethrow: either way the lock_guard releases the pool.
Leave(c) ==
    /\ lane[c] = active[c]
    /\ CallerStep(c, "join", "idle")
    /\ mutex' = NoCaller
    /\ active' = [active EXCEPT ![c] = 1]
    /\ lane' = [lane EXCEPT ![c] = 1]
    /\ threw' = [threw EXCEPT ![c] = FALSE]
    /\ UNCHANGED <<model, epoch, commands, completed, stopping, observed,
                   workerVars, hostVars>>

CallerNext(c) ==
    \/ Signal(c) \/ Notify(c) \/ CallerLane(c) \/ CallerLaneDone(c)
    \/ Continuation(c) \/ Joined(c) \/ JoinPark(c) \/ JoinSleep(c)
    \/ JoinWoken(c) \/ Leave(c)

-----------------------------------------------------------------------------
(* The thread of a worker: worker(lane). *)

WorkerStep(l, from, to) ==
    /\ wpc[l] = from
    /\ wpc' = [wpc EXCEPT ![l] = to]

\* command.load(acquire) that returns a value other than seen.
Load(l) ==
    /\ commands[l] # seen[l]
    /\ WorkerStep(l, "load", "check")
    /\ stamp' = [stamp EXCEPT ![l] = commands[l]]
    /\ UNCHANGED <<shared, callerVars, seen, arg, hostVars>>

LoadPark(l) ==
    /\ commands[l] = seen[l]
    /\ WorkerStep(l, "load", "park")
    /\ UNCHANGED <<shared, callerVars, stamp, seen, arg, hostVars>>

\* Mutant of Sleep: the wait does not compare before it blocks.
SleepBlindly(l) ==
    /\ WorkerStep(l, "park", "asleep")
    /\ UNCHANGED <<shared, callerVars, stamp, seen, arg, hostVars>>

\* command.wait(seen)
Sleep(l) ==
    /\ commands[l] = seen[l]
    /\ WorkerStep(l, "park", "asleep")
    /\ UNCHANGED <<shared, callerVars, stamp, seen, arg, hostVars>>

Woken(l) ==
    /\ commands[l] # seen[l]
    /\ WorkerStep(l, "park", "load")
    /\ UNCHANGED <<shared, callerVars, stamp, seen, arg, hostVars>>

\* invoke(function_, model_, lane, epoch_): the arguments are read here.
Invoke(l) ==
    /\ ~stopping
    /\ WorkerStep(l, "check", "run")
    /\ arg' = [arg EXCEPT ![l] = <<model, epoch>>]
    /\ UNCHANGED <<shared, callerVars, stamp, seen, hostVars>>

Exit(l) ==
    /\ stopping
    /\ WorkerStep(l, "check", "exited")
    /\ UNCHANGED <<shared, callerVars, stamp, seen, arg, hostVars>>

Invoked(l) ==
    /\ WorkerStep(l, "run", "complete")
    /\ arg' = [arg EXCEPT ![l] = NoArg]
    /\ UNCHANGED <<shared, callerVars, stamp, seen, hostVars>>

\* completed_[lane].value.store(epoch, release)
Complete(l) ==
    /\ WorkerStep(l, "complete", "wake")
    /\ completed' = [completed EXCEPT ![l] = stamp[l]]
    /\ UNCHANGED <<mutex, model, epoch, commands, stopping, callerVars, stamp,
                   seen, arg, hostVars>>

\* Mutant of Wake: the worker forgets which command it has served.
WakeUnseen(l) ==
    /\ WorkerStep(l, "wake", "load")
    /\ stamp' = [stamp EXCEPT ![l] = 0]
    /\ cpc' = [c \in Callers |->
                 IF cpc[c] = "asleep" /\ lane[c] = l THEN "park" ELSE cpc[c]]
    /\ UNCHANGED <<shared, active, lane, observed, threw, seen, arg, hostVars>>

\* notify_all on the completion slot, then seen = epoch.
Wake(l) ==
    /\ WorkerStep(l, "wake", "load")
    /\ seen' = [seen EXCEPT ![l] = stamp[l]]
    /\ stamp' = [stamp EXCEPT ![l] = 0]
    /\ cpc' = [c \in Callers |->
                 IF cpc[c] = "asleep" /\ lane[c] = l THEN "park" ELSE cpc[c]]
    /\ UNCHANGED <<shared, active, lane, observed, threw, arg, hostVars>>

WorkerNext(l) ==
    \/ Load(l) \/ LoadPark(l) \/ Sleep(l) \/ Woken(l) \/ Invoke(l) \/ Exit(l)
    \/ Invoked(l) \/ Complete(l) \/ Wake(l)

-----------------------------------------------------------------------------
(* The thread of the host: constructor, destructor, stop(). *)

HostStep(from, to) ==
    /\ hpc = from
    /\ hpc' = to

\* workers_.emplace_back starts a thread; it may fail, and so may binding it
\* to a processor.  Either way the constructor stops the workers it has.
Spawn ==
    /\ hlane < Lanes
    /\ HostStep("construct", "bind")
    /\ wpc' = [wpc EXCEPT ![hlane] = "load"]
    /\ UNCHANGED <<shared, callerVars, stamp, seen, arg, hlane>>

Bound ==
    /\ HostStep("bind", "construct")
    /\ hlane' = hlane + 1
    /\ UNCHANGED <<shared, callerVars, workerVars>>

Constructed ==
    /\ hlane = Lanes
    /\ HostStep("construct", "ready")
    /\ UNCHANGED <<shared, callerVars, workerVars, hlane>>

Stop(from) ==
    /\ HostStep(from, "signal")
    /\ stopping' = TRUE
    /\ hlane' = 1
    /\ UNCHANGED <<mutex, model, epoch, commands, completed, callerVars, workerVars>>

ConstructFails ==
    \/ hlane < Lanes /\ Stop("construct")
    \/ Stop("bind")

\* The pool is destroyed by its last owner, so no caller is inside run.
Destroy ==
    /\ \A c \in Callers : cpc[c] = "idle"
    /\ Stop("ready")

StopSignal ==
    /\ hlane < Lanes
    /\ HostStep("signal", "notify")
    /\ commands' = [commands EXCEPT ![hlane] = Bump(@)]
    /\ UNCHANGED <<mutex, model, epoch, completed, stopping, callerVars,
                   workerVars, hlane>>

\* Mutant of StopNotify: stop() does not notify the workers.
StopSilently ==
    /\ HostStep("notify", "signal")
    /\ hlane' = hlane + 1
    /\ UNCHANGED <<shared, callerVars, workerVars>>

StopNotify ==
    /\ HostStep("notify", "signal")
    /\ Unpark(hlane)
    /\ hlane' = hlane + 1
    /\ UNCHANGED <<shared, callerVars, stamp, seen, arg>>

StopSignalled ==
    /\ hlane = Lanes
    /\ HostStep("signal", "join")
    /\ hlane' = 1
    /\ UNCHANGED <<shared, callerVars, workerVars>>

StopJoin ==
    /\ hlane < Lanes
    /\ wpc[hlane] \in {"exited", "unborn"}
    /\ HostStep("join", "join")
    /\ hlane' = hlane + 1
    /\ UNCHANGED <<shared, callerVars, workerVars>>

Stopped ==
    /\ hlane = Lanes
    /\ HostStep("join", "gone")
    /\ UNCHANGED <<shared, callerVars, workerVars, hlane>>

HostNext ==
    \/ Spawn \/ Bound \/ Constructed \/ StopSignal \/ StopNotify
    \/ StopSignalled \/ StopJoin \/ Stopped

-----------------------------------------------------------------------------
(* atomic::wait may return to its own comparison without a notification. *)

SpuriousWorker(l) ==
    /\ WorkerStep(l, "asleep", "park")
    /\ UNCHANGED <<shared, callerVars, stamp, seen, arg, hostVars>>

SpuriousCaller(c) ==
    /\ CallerStep(c, "asleep", "park")
    /\ UNCHANGED <<shared, active, lane, observed, threw, workerVars, hostVars>>

\* A destroyed pool, or one whose constructor failed, takes no further step.
Terminated ==
    /\ hpc = "gone"
    /\ UNCHANGED vars

Next ==
    \/ \E c \in Callers, n \in 1 .. Lanes : Enter(c, n)
    \/ \E c \in Callers : CallerNext(c) \/ SpuriousCaller(c)
    \/ \E l \in Worker : WorkerNext(l) \/ SpuriousWorker(l)
    \/ HostNext \/ ConstructFails \/ Destroy
    \/ Terminated

(***************************************************************************)
(* Every thread that can take a step of the pool's own code eventually      *)
(* takes it (preemptive scheduling).  Nobody has to call run or to destroy  *)
(* the pool, std::mutex is not fair to one caller, and a wait need never    *)
(* end spuriously.                                                          *)
(***************************************************************************)
Fairness ==
    /\ \A c \in Callers : WF_vars(CallerNext(c))
    /\ \A l \in Worker : WF_vars(WorkerNext(l))
    /\ WF_vars(HostNext)

Spec == Init /\ [][Next]_vars /\ Fairness

-----------------------------------------------------------------------------
(* Properties. *)

\* A lane being evaluated on a worker belongs to the transaction that is open,
\* was asked for, and was handed the model and the epoch of that transaction:
\* no worker evaluates the job of an earlier caller or of the next one.
JobMetadata ==
    \A l \in Worker : wpc[l] = "run" =>
        /\ mutex # NoCaller
        /\ l < active[mutex]
        /\ arg[l] = <<mutex, epoch>>

\* A sleeping worker whose command has moved is about to be notified by the
\* thread that moved it, and a caller asleep on a completion that has come is
\* about to be notified by the worker that completed.
NoLostWakeup ==
    /\ \A l \in Worker : wpc[l] = "asleep" /\ commands[l] # seen[l] =>
          \/ \E c \in Callers : cpc[c] = "notify" /\ lane[c] = l
          \/ hpc = "notify" /\ hlane = l
    /\ \A c \in Callers : cpc[c] = "asleep" /\ completed[lane[c]] # observed[c] =>
          wpc[lane[c]] = "wake"

\* A caller leaves run only when each lane it asked for is idle again, whether
\* or not its continuation failed, so its model's storage has no reader left.
DrainBeforeReturn ==
    [][\A c \in Callers : cpc[c] # "idle" /\ cpc'[c] = "idle" =>
          \A l \in Worker : l < active[c] =>
             wpc[l] \notin {"check", "run", "complete"} /\ commands[l] = completed[l]
      ]_vars

\* A constructor failure or a destructor ends every worker thread: stop() returns.
StopEnds == stopping ~> hpc = "gone"

\* The abstract transaction: a lane is to do from the opening of the
\* transaction until the function is called for it, busy during the call.
Signalled(c, l) ==
    cpc[c] \notin {"signal", "notify"} \/ l < lane[c] \/ (cpc[c] = "notify" /\ l = lane[c])

ToDo(c, l) ==
    /\ l < active[c]
    /\ IF l = 0
       THEN cpc[c] \in {"signal", "notify"}
       ELSE \/ ~Signalled(c, l)
            \/ commands[l] # completed[l] /\ wpc[l] \notin {"run", "complete"}

Evaluates(l) ==
    IF l = 0 THEN \E c \in Callers : cpc[c] = "lane0" ELSE wpc[l] = "run"

AbstractTodo == {l \in 0 .. Lanes - 1 : mutex # NoCaller /\ ToDo(mutex, l)}

AbstractBusy == {l \in 0 .. Lanes - 1 : Evaluates(l)}

AbstractThrew == mutex # NoCaller /\ threw[mutex]

Transaction == INSTANCE ForkJoin WITH
    owner <- mutex, todo <- AbstractTodo, busy <- AbstractBusy,
    threw <- AbstractThrew

\* The pool implements a fork-join transaction: every requested lane is
\* evaluated exactly once, no other is, and an opened transaction is closed.
ForkJoinSpec == Transaction!Spec
=============================================================================
