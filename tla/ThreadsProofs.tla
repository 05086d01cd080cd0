--------------------------- MODULE ThreadsProofs ----------------------------
(***************************************************************************)
(* Proofs about the worker pool for every number of callers, lanes and      *)
(* every width of the slots.                                                *)
(***************************************************************************)
EXTENDS Threads, TLAPS

\* A caller's loop index is within the lanes it asked for, and it has no
\* exception to report before its continuation has run.
LaneInv ==
    \A c \in Callers :
        /\ lane[c] <= active[c]
        /\ cpc[c] \in {"idle", "signal", "notify", "lane0", "continuation"} => ~threw[c]
        /\ cpc[c] \in {"notify", "park", "asleep"} => lane[c] < active[c]

\* A caller is inside run exactly while it holds the mutex, and the shared
\* job metadata are its own.
MutexInv ==
    /\ \A c \in Callers : cpc[c] # "idle" <=> mutex = c
    /\ mutex # NoCaller => model = mutex

\* The life of the pool: callers only between constructor and destructor.
HostInv ==
    /\ hpc # "ready" => mutex = NoCaller
    /\ stopping <=> hpc \in {"signal", "notify", "join", "gone"}
    /\ hpc \in {"bind", "notify"} => hlane < Lanes
    /\ \A l \in Worker :
          \/ hpc = "construct" /\ hlane <= l
          \/ hpc = "bind" /\ hlane < l
          => wpc[l] = "unborn"
    /\ stopping => \A l \in Worker : wpc[l] \notin {"run", "complete"}

\* The stamps of a lane: a worker that has not taken a command has seen all
\* it completed, and the command it has taken is the one outstanding.
Outstanding(l) == commands[l] # completed[l]

StampInv ==
    \A l \in Worker :
        /\ wpc[l] # "wake" => seen[l] = completed[l]
        /\ wpc[l] \in {"check", "run", "complete"} =>
              stamp[l] = commands[l] /\ Outstanding(l)
        /\ wpc[l] = "wake" => stamp[l] = completed[l]
        /\ wpc[l] = "run" => arg[l] = <<model, epoch>>

\* A command is outstanding only for a lane the open transaction has signalled
\* and not yet joined, or for one that the host has told to stop.
JoinedLane(c, l) == cpc[c] \in {"join", "park", "asleep"} /\ l < lane[c]

ToldToStop(l) ==
    \/ hpc = "signal" /\ l < hlane
    \/ hpc = "notify" /\ l <= hlane
    \/ hpc \in {"join", "gone"}

DispatchInv ==
    \A l \in Worker : Outstanding(l) =>
        \/ /\ mutex # NoCaller
           /\ l < active[mutex]
           /\ Signalled(mutex, l)
           /\ ~JoinedLane(mutex, l)
        \/ ToldToStop(l)

Inv ==
    /\ TypeOK
    /\ LaneInv
    /\ MutexInv
    /\ HostInv
    /\ StampInv
    /\ DispatchInv
    /\ NoLostWakeup
-----------------------------------------------------------------------------
LEMMA BumpType == 0 \in Stamp /\ \A s \in Stamp : Bump(s) \in Stamp /\ Bump(s) # s
  BY StampModAssumption DEF Stamp, Bump

LEMMA EnterKeeps ==
  ASSUME Inv, NEW c \in Callers, NEW n \in 1 .. Lanes, Enter(c, n)
  PROVE  Inv'
<1>1. TypeOK'
  BY LanesAssumption, BumpType DEF Inv, Enter, CallerStep, TypeOK, CallerPC,
     WorkerPC, HostPC, NoArg, LaneInv, HostInv, shared, callerVars,
     workerVars, hostVars
<1>2. LaneInv'
  BY CallerAssumption DEF Inv, Enter, CallerStep, TypeOK, LaneInv, shared,
     callerVars, workerVars, hostVars
<1>3. MutexInv'
  BY CallerAssumption DEF Inv, Enter, CallerStep, TypeOK, MutexInv, shared,
     callerVars, workerVars, hostVars
<1>4. HostInv'
  BY CallerAssumption DEF Inv, Enter, CallerStep, TypeOK, HostInv, MutexInv,
     StampInv, DispatchInv, ToldToStop, Outstanding, Worker, shared,
     callerVars, workerVars, hostVars
<1>5. StampInv'
  BY CallerAssumption DEF Inv, Enter, CallerStep, TypeOK, StampInv,
     DispatchInv, MutexInv, HostInv, LaneInv, ToldToStop, Outstanding,
     Signalled, Worker, shared, callerVars, workerVars, hostVars
<1>6. DispatchInv'
  BY CallerAssumption DEF Inv, Enter, CallerStep, TypeOK, LaneInv, MutexInv,
     HostInv, StampInv, DispatchInv, Outstanding, JoinedLane, Signalled,
     ToldToStop, Worker, shared, callerVars, workerVars, hostVars
<1>7. NoLostWakeup'
  BY CallerAssumption DEF Inv, Enter, CallerStep, TypeOK, LaneInv, MutexInv,
     HostInv, StampInv, NoLostWakeup, Worker, shared, callerVars,
     workerVars, hostVars
<1> QED  BY <1>1, <1>2, <1>3, <1>4, <1>5, <1>6, <1>7 DEF Inv

\* The lane a caller is about to signal has no command outstanding.
LEMMA SignalsIdleLane ==
  ASSUME Inv, NEW c \in Callers, Signal(c)
  PROVE  /\ mutex = c /\ hpc = "ready"
         /\ lane[c] \in Worker
         /\ ~Outstanding(lane[c])
<1>1. lane[c] \in 1 .. Lanes /\ active[c] \in 1 .. Lanes /\ lane[c] < active[c]
  BY DEF Inv, Signal, TypeOK
<1>2. lane[c] \in Worker
  BY <1>1, LanesAssumption DEF Worker
<1>3. mutex = c
  BY DEF Inv, Signal, CallerStep, MutexInv
<1>4. hpc = "ready"
  BY <1>3, CallerAssumption DEF Inv, HostInv
<1>5. ~Outstanding(lane[c])
  BY <1>2, <1>3, <1>4, CallerAssumption DEF Inv, Signal, CallerStep, TypeOK,
     DispatchInv, Signalled, ToldToStop, Worker
<1> QED  BY <1>2, <1>3, <1>4, <1>5

LEMMA SignalKeeps ==
  ASSUME Inv, NEW c \in Callers, Signal(c)
  PROVE  Inv'
<1>1. TypeOK'
  BY LanesAssumption, BumpType DEF Inv, Signal, CallerStep, TypeOK,
     CallerPC, WorkerPC, HostPC, NoArg, LaneInv, HostInv, shared,
     callerVars, workerVars, hostVars
<1>2. LaneInv'
  BY CallerAssumption DEF Inv, Signal, CallerStep, TypeOK, LaneInv, shared,
     callerVars, workerVars, hostVars
<1>3. MutexInv'
  BY CallerAssumption DEF Inv, Signal, CallerStep, TypeOK, MutexInv, shared,
     callerVars, workerVars, hostVars
<1>4. StampInv'
  <2> DEFINE i == lane[c]
  <2>1. commands' = [commands EXCEPT ![i] = Bump(commands[i])]
    BY DEF Signal
  <2>2. commands[i] \in Stamp
    BY SignalsIdleLane DEF Inv, TypeOK
  <2>3. /\ commands'[i] # completed[i]
        /\ \A l \in Worker : l # i => commands'[l] = commands[l]
        /\ commands[i] = completed[i]
    BY <2>1, <2>2, SignalsIdleLane, BumpType DEF Inv, TypeOK, Outstanding
  <2>4. UNCHANGED <<completed, wpc, seen, stamp, arg, model, epoch>>
    BY DEF Signal, workerVars
  <2>5. StampInv
    BY DEF Inv
  <2> HIDE DEF i
  <2> QED
    BY <2>3, <2>4, <2>5 DEF StampInv, Outstanding
<1>5. DispatchInv'
  BY CallerAssumption DEF Inv, Signal, CallerStep, TypeOK, LaneInv,
     MutexInv, HostInv, StampInv, DispatchInv, Outstanding, JoinedLane,
     Signalled, ToldToStop, Worker, shared, callerVars, workerVars, hostVars
<1>6. NoLostWakeup'
  BY CallerAssumption DEF Inv, Signal, CallerStep, TypeOK, LaneInv,
     MutexInv, HostInv, StampInv, NoLostWakeup, Worker, shared, callerVars,
     workerVars, hostVars
<1>7. HostInv'
  BY DEF Inv, Signal, HostInv, shared, callerVars, workerVars, hostVars
<1> QED  BY <1>1, <1>2, <1>3, <1>4, <1>5, <1>6, <1>7 DEF Inv

LEMMA NotifyKeeps ==
  ASSUME Inv, NEW c \in Callers, Notify(c)
  PROVE  Inv'
<1>1. TypeOK'
  BY LanesAssumption, BumpType DEF Inv, Notify, CallerStep, Unpark, TypeOK,
     CallerPC, WorkerPC, HostPC, NoArg, Worker, LaneInv, HostInv, shared,
     callerVars, workerVars, hostVars
<1>2. LaneInv'
  BY CallerAssumption DEF Inv, Notify, CallerStep, Unpark, TypeOK, LaneInv,
     shared, callerVars, workerVars, hostVars
<1>3. MutexInv'
  BY CallerAssumption DEF Inv, Notify, CallerStep, Unpark, TypeOK, MutexInv,
     shared, callerVars, workerVars, hostVars
<1>4. HostInv'
  BY CallerAssumption DEF Inv, Notify, CallerStep, Unpark, TypeOK, HostInv,
     MutexInv, StampInv, DispatchInv, ToldToStop, Outstanding, Worker,
     shared, callerVars, workerVars, hostVars
<1>5. StampInv'
  BY CallerAssumption DEF Inv, Notify, CallerStep, Unpark, TypeOK, StampInv,
     DispatchInv, MutexInv, HostInv, LaneInv, ToldToStop, Outstanding,
     Signalled, Worker, shared, callerVars, workerVars, hostVars
<1>6. DispatchInv'
  BY CallerAssumption DEF Inv, Notify, CallerStep, Unpark, TypeOK, LaneInv,
     MutexInv, HostInv, StampInv, DispatchInv, Outstanding, JoinedLane,
     Signalled, ToldToStop, Worker, shared, callerVars, workerVars, hostVars
<1>7. NoLostWakeup'
  BY CallerAssumption DEF Inv, Notify, CallerStep, Unpark, TypeOK, LaneInv,
     MutexInv, HostInv, StampInv, NoLostWakeup, Worker, shared, callerVars,
     workerVars, hostVars
<1> QED  BY <1>1, <1>2, <1>3, <1>4, <1>5, <1>6, <1>7 DEF Inv

LEMMA CallerLaneKeeps ==
  ASSUME Inv, NEW c \in Callers, CallerLane(c)
  PROVE  Inv'
<1>1. TypeOK'
  BY LanesAssumption, BumpType DEF Inv, CallerLane, CallerStep, TypeOK,
     CallerPC, WorkerPC, HostPC, NoArg, LaneInv, HostInv, shared,
     callerVars, workerVars, hostVars
<1>2. LaneInv'
  BY CallerAssumption DEF Inv, CallerLane, CallerStep, TypeOK, LaneInv,
     shared, callerVars, workerVars, hostVars
<1>3. MutexInv'
  BY CallerAssumption DEF Inv, CallerLane, CallerStep, TypeOK, MutexInv,
     shared, callerVars, workerVars, hostVars
<1>4. DispatchInv'
  BY CallerAssumption DEF Inv, CallerLane, CallerStep, TypeOK, LaneInv,
     MutexInv, HostInv, StampInv, DispatchInv, Outstanding, JoinedLane,
     Signalled, ToldToStop, Worker, shared, callerVars, workerVars, hostVars
<1>5. NoLostWakeup'
  BY CallerAssumption DEF Inv, CallerLane, CallerStep, TypeOK, LaneInv,
     MutexInv, HostInv, StampInv, NoLostWakeup, Worker, shared, callerVars,
     workerVars, hostVars
<1>6. HostInv' /\ StampInv'
  BY DEF Inv, CallerLane, HostInv, StampInv, Outstanding, shared,
     callerVars, workerVars, hostVars
<1> QED  BY <1>1, <1>2, <1>3, <1>4, <1>5, <1>6 DEF Inv

LEMMA CallerLaneDoneKeeps ==
  ASSUME Inv, NEW c \in Callers, CallerLaneDone(c)
  PROVE  Inv'
<1>1. TypeOK'
  BY LanesAssumption, BumpType DEF Inv, CallerLaneDone, CallerStep, TypeOK,
     CallerPC, WorkerPC, HostPC, NoArg, LaneInv, HostInv, shared,
     callerVars, workerVars, hostVars
<1>2. LaneInv'
  BY CallerAssumption DEF Inv, CallerLaneDone, CallerStep, TypeOK, LaneInv,
     shared, callerVars, workerVars, hostVars
<1>3. MutexInv'
  BY CallerAssumption DEF Inv, CallerLaneDone, CallerStep, TypeOK, MutexInv,
     shared, callerVars, workerVars, hostVars
<1>4. DispatchInv'
  BY CallerAssumption DEF Inv, CallerLaneDone, CallerStep, TypeOK, LaneInv,
     MutexInv, HostInv, StampInv, DispatchInv, Outstanding, JoinedLane,
     Signalled, ToldToStop, Worker, shared, callerVars, workerVars, hostVars
<1>5. NoLostWakeup'
  BY CallerAssumption DEF Inv, CallerLaneDone, CallerStep, TypeOK, LaneInv,
     MutexInv, HostInv, StampInv, NoLostWakeup, Worker, shared, callerVars,
     workerVars, hostVars
<1>6. HostInv' /\ StampInv'
  BY DEF Inv, CallerLaneDone, HostInv, StampInv, Outstanding, shared,
     callerVars, workerVars, hostVars
<1> QED  BY <1>1, <1>2, <1>3, <1>4, <1>5, <1>6 DEF Inv

LEMMA ContinuationKeeps ==
  ASSUME Inv, NEW c \in Callers, Continuation(c)
  PROVE  Inv'
<1>1. TypeOK'
  BY LanesAssumption, BumpType DEF Inv, Continuation, CallerStep, TypeOK,
     CallerPC, WorkerPC, HostPC, NoArg, LaneInv, HostInv, shared,
     callerVars, workerVars, hostVars
<1>2. LaneInv'
  BY CallerAssumption DEF Inv, Continuation, CallerStep, TypeOK, LaneInv,
     shared, callerVars, workerVars, hostVars
<1>3. MutexInv'
  BY CallerAssumption DEF Inv, Continuation, CallerStep, TypeOK, MutexInv,
     shared, callerVars, workerVars, hostVars
<1>4. DispatchInv'
  BY CallerAssumption DEF Inv, Continuation, CallerStep, TypeOK, LaneInv,
     MutexInv, HostInv, StampInv, DispatchInv, Outstanding, JoinedLane,
     Signalled, ToldToStop, Worker, shared, callerVars, workerVars, hostVars
<1>5. NoLostWakeup'
  BY CallerAssumption DEF Inv, Continuation, CallerStep, TypeOK, LaneInv,
     MutexInv, HostInv, StampInv, NoLostWakeup, Worker, shared, callerVars,
     workerVars, hostVars
<1>6. HostInv' /\ StampInv'
  BY DEF Inv, Continuation, HostInv, StampInv, Outstanding, shared,
     callerVars, workerVars, hostVars
<1> QED  BY <1>1, <1>2, <1>3, <1>4, <1>5, <1>6 DEF Inv

LEMMA JoinedKeeps ==
  ASSUME Inv, NEW c \in Callers, Joined(c)
  PROVE  Inv'
<1>1. TypeOK'
  BY LanesAssumption, BumpType DEF Inv, Joined, CallerStep, TypeOK,
     CallerPC, WorkerPC, HostPC, NoArg, LaneInv, HostInv, shared,
     callerVars, workerVars, hostVars
<1>2. LaneInv'
  BY CallerAssumption DEF Inv, Joined, CallerStep, TypeOK, LaneInv, shared,
     callerVars, workerVars, hostVars
<1>3. MutexInv'
  BY CallerAssumption DEF Inv, Joined, CallerStep, TypeOK, MutexInv, shared,
     callerVars, workerVars, hostVars
<1>4. DispatchInv'
  BY CallerAssumption DEF Inv, Joined, CallerStep, TypeOK, LaneInv,
     MutexInv, HostInv, StampInv, DispatchInv, Outstanding, JoinedLane,
     Signalled, ToldToStop, Worker, shared, callerVars, workerVars, hostVars
<1>5. NoLostWakeup'
  BY CallerAssumption DEF Inv, Joined, CallerStep, TypeOK, LaneInv,
     MutexInv, HostInv, StampInv, NoLostWakeup, Worker, shared, callerVars,
     workerVars, hostVars
<1>6. HostInv' /\ StampInv'
  BY DEF Inv, Joined, HostInv, StampInv, Outstanding, shared, callerVars,
     workerVars, hostVars
<1> QED  BY <1>1, <1>2, <1>3, <1>4, <1>5, <1>6 DEF Inv

LEMMA JoinParkKeeps ==
  ASSUME Inv, NEW c \in Callers, JoinPark(c)
  PROVE  Inv'
<1>1. TypeOK'
  BY LanesAssumption, BumpType DEF Inv, JoinPark, CallerStep, TypeOK,
     CallerPC, WorkerPC, HostPC, NoArg, Worker, LaneInv, HostInv, shared,
     callerVars, workerVars, hostVars
<1>2. LaneInv'
  BY CallerAssumption DEF Inv, JoinPark, CallerStep, TypeOK, LaneInv,
     shared, callerVars, workerVars, hostVars
<1>3. MutexInv'
  BY CallerAssumption DEF Inv, JoinPark, CallerStep, TypeOK, MutexInv,
     shared, callerVars, workerVars, hostVars
<1>4. DispatchInv'
  BY CallerAssumption DEF Inv, JoinPark, CallerStep, TypeOK, LaneInv,
     MutexInv, HostInv, StampInv, DispatchInv, Outstanding, JoinedLane,
     Signalled, ToldToStop, Worker, shared, callerVars, workerVars, hostVars
<1>5. NoLostWakeup'
  BY CallerAssumption DEF Inv, JoinPark, CallerStep, TypeOK, LaneInv,
     MutexInv, HostInv, StampInv, NoLostWakeup, Worker, shared, callerVars,
     workerVars, hostVars
<1>6. HostInv' /\ StampInv'
  BY DEF Inv, JoinPark, HostInv, StampInv, Outstanding, shared, callerVars,
     workerVars, hostVars
<1> QED  BY <1>1, <1>2, <1>3, <1>4, <1>5, <1>6 DEF Inv

LEMMA JoinSleepKeeps ==
  ASSUME Inv, NEW c \in Callers, JoinSleep(c)
  PROVE  Inv'
<1>1. TypeOK'
  BY LanesAssumption, BumpType DEF Inv, JoinSleep, CallerStep, TypeOK,
     CallerPC, WorkerPC, HostPC, NoArg, LaneInv, HostInv, shared,
     callerVars, workerVars, hostVars
<1>2. LaneInv'
  BY CallerAssumption DEF Inv, JoinSleep, CallerStep, TypeOK, LaneInv,
     shared, callerVars, workerVars, hostVars
<1>3. MutexInv'
  BY CallerAssumption DEF Inv, JoinSleep, CallerStep, TypeOK, MutexInv,
     shared, callerVars, workerVars, hostVars
<1>4. DispatchInv'
  BY CallerAssumption DEF Inv, JoinSleep, CallerStep, TypeOK, LaneInv,
     MutexInv, HostInv, StampInv, DispatchInv, Outstanding, JoinedLane,
     Signalled, ToldToStop, Worker, shared, callerVars, workerVars, hostVars
<1>5. NoLostWakeup'
  BY CallerAssumption DEF Inv, JoinSleep, CallerStep, TypeOK, LaneInv,
     MutexInv, HostInv, StampInv, NoLostWakeup, Worker, shared, callerVars,
     workerVars, hostVars
<1>6. HostInv' /\ StampInv'
  BY DEF Inv, JoinSleep, HostInv, StampInv, Outstanding, shared, callerVars,
     workerVars, hostVars
<1> QED  BY <1>1, <1>2, <1>3, <1>4, <1>5, <1>6 DEF Inv

LEMMA JoinWokenKeeps ==
  ASSUME Inv, NEW c \in Callers, JoinWoken(c)
  PROVE  Inv'
<1>1. TypeOK'
  BY LanesAssumption, BumpType DEF Inv, JoinWoken, CallerStep, TypeOK,
     CallerPC, WorkerPC, HostPC, NoArg, LaneInv, HostInv, shared,
     callerVars, workerVars, hostVars
<1>2. LaneInv'
  BY CallerAssumption DEF Inv, JoinWoken, CallerStep, TypeOK, LaneInv,
     shared, callerVars, workerVars, hostVars
<1>3. MutexInv'
  BY CallerAssumption DEF Inv, JoinWoken, CallerStep, TypeOK, MutexInv,
     shared, callerVars, workerVars, hostVars
<1>4. DispatchInv'
  BY CallerAssumption DEF Inv, JoinWoken, CallerStep, TypeOK, LaneInv,
     MutexInv, HostInv, StampInv, DispatchInv, Outstanding, JoinedLane,
     Signalled, ToldToStop, Worker, shared, callerVars, workerVars, hostVars
<1>5. NoLostWakeup'
  BY CallerAssumption DEF Inv, JoinWoken, CallerStep, TypeOK, LaneInv,
     MutexInv, HostInv, StampInv, NoLostWakeup, Worker, shared, callerVars,
     workerVars, hostVars
<1>6. HostInv' /\ StampInv'
  BY DEF Inv, JoinWoken, HostInv, StampInv, Outstanding, shared, callerVars,
     workerVars, hostVars
<1> QED  BY <1>1, <1>2, <1>3, <1>4, <1>5, <1>6 DEF Inv

LEMMA LeaveKeeps ==
  ASSUME Inv, NEW c \in Callers, Leave(c)
  PROVE  Inv'
<1>1. TypeOK'
  BY LanesAssumption, BumpType DEF Inv, Leave, CallerStep, TypeOK, CallerPC,
     WorkerPC, HostPC, NoArg, LaneInv, HostInv, shared, callerVars,
     workerVars, hostVars
<1>2. LaneInv'
  BY CallerAssumption DEF Inv, Leave, CallerStep, TypeOK, LaneInv, shared,
     callerVars, workerVars, hostVars
<1>3. MutexInv'
  BY CallerAssumption DEF Inv, Leave, CallerStep, TypeOK, MutexInv, shared,
     callerVars, workerVars, hostVars
<1>4. HostInv'
  BY CallerAssumption DEF Inv, Leave, CallerStep, TypeOK, HostInv, MutexInv,
     StampInv, DispatchInv, ToldToStop, Outstanding, Worker, shared,
     callerVars, workerVars, hostVars
<1>5. DispatchInv'
  BY CallerAssumption DEF Inv, Leave, CallerStep, TypeOK, LaneInv, MutexInv,
     HostInv, StampInv, DispatchInv, Outstanding, JoinedLane, Signalled,
     ToldToStop, Worker, shared, callerVars, workerVars, hostVars
<1>6. NoLostWakeup'
  BY CallerAssumption DEF Inv, Leave, CallerStep, TypeOK, LaneInv, MutexInv,
     HostInv, StampInv, NoLostWakeup, Worker, shared, callerVars,
     workerVars, hostVars
<1>7. StampInv'
  BY DEF Inv, Leave, StampInv, Outstanding, shared, callerVars, workerVars,
     hostVars
<1> QED  BY <1>1, <1>2, <1>3, <1>4, <1>5, <1>6, <1>7 DEF Inv

LEMMA SpuriousCallerKeeps ==
  ASSUME Inv, NEW c \in Callers, SpuriousCaller(c)
  PROVE  Inv'
<1>1. TypeOK'
  BY LanesAssumption, BumpType DEF Inv, SpuriousCaller, CallerStep, TypeOK,
     CallerPC, WorkerPC, HostPC, NoArg, LaneInv, HostInv, shared,
     callerVars, workerVars, hostVars
<1>2. LaneInv'
  BY CallerAssumption DEF Inv, SpuriousCaller, CallerStep, TypeOK, LaneInv,
     shared, callerVars, workerVars, hostVars
<1>3. MutexInv'
  BY CallerAssumption DEF Inv, SpuriousCaller, CallerStep, TypeOK, MutexInv,
     shared, callerVars, workerVars, hostVars
<1>4. DispatchInv'
  BY CallerAssumption DEF Inv, SpuriousCaller, CallerStep, TypeOK, LaneInv,
     MutexInv, HostInv, StampInv, DispatchInv, Outstanding, JoinedLane,
     Signalled, ToldToStop, Worker, shared, callerVars, workerVars, hostVars
<1>5. NoLostWakeup'
  BY CallerAssumption DEF Inv, SpuriousCaller, CallerStep, TypeOK, LaneInv,
     MutexInv, HostInv, StampInv, NoLostWakeup, Worker, shared, callerVars,
     workerVars, hostVars
<1>6. HostInv' /\ StampInv'
  BY DEF Inv, SpuriousCaller, HostInv, StampInv, Outstanding, shared,
     callerVars, workerVars, hostVars
<1> QED  BY <1>1, <1>2, <1>3, <1>4, <1>5, <1>6 DEF Inv

LEMMA LoadKeeps ==
  ASSUME Inv, NEW l \in Worker, Load(l)
  PROVE  Inv'
<1>1. TypeOK'
  BY LanesAssumption, BumpType DEF Inv, Load, WorkerStep, TypeOK, CallerPC,
     WorkerPC, HostPC, NoArg, LaneInv, HostInv, shared, callerVars,
     workerVars, hostVars
<1>2. HostInv'
  BY DEF Inv, Load, WorkerStep, TypeOK, HostInv, MutexInv, StampInv,
     DispatchInv, ToldToStop, Outstanding, Worker, shared, callerVars,
     workerVars, hostVars
<1>3. StampInv'
  BY DEF Inv, Load, WorkerStep, TypeOK, StampInv, DispatchInv, MutexInv,
     HostInv, LaneInv, ToldToStop, Outstanding, Signalled, Worker, shared,
     callerVars, workerVars, hostVars
<1>4. NoLostWakeup'
  BY DEF Inv, Load, WorkerStep, TypeOK, LaneInv, MutexInv, HostInv,
     StampInv, NoLostWakeup, Worker, shared, callerVars, workerVars,
     hostVars
<1>5. LaneInv' /\ MutexInv' /\ DispatchInv'
  BY DEF Inv, Load, LaneInv, MutexInv, DispatchInv, Outstanding, Signalled,
     JoinedLane, ToldToStop, shared, callerVars, workerVars, hostVars
<1> QED  BY <1>1, <1>2, <1>3, <1>4, <1>5 DEF Inv

LEMMA LoadParkKeeps ==
  ASSUME Inv, NEW l \in Worker, LoadPark(l)
  PROVE  Inv'
<1>1. TypeOK'
  BY LanesAssumption, BumpType DEF Inv, LoadPark, WorkerStep, TypeOK,
     CallerPC, WorkerPC, HostPC, NoArg, LaneInv, HostInv, shared,
     callerVars, workerVars, hostVars
<1>2. HostInv'
  BY DEF Inv, LoadPark, WorkerStep, TypeOK, HostInv, MutexInv, StampInv,
     DispatchInv, ToldToStop, Outstanding, Worker, shared, callerVars,
     workerVars, hostVars
<1>3. StampInv'
  BY DEF Inv, LoadPark, WorkerStep, TypeOK, StampInv, DispatchInv, MutexInv,
     HostInv, LaneInv, ToldToStop, Outstanding, Signalled, Worker, shared,
     callerVars, workerVars, hostVars
<1>4. NoLostWakeup'
  BY DEF Inv, LoadPark, WorkerStep, TypeOK, LaneInv, MutexInv, HostInv,
     StampInv, NoLostWakeup, Worker, shared, callerVars, workerVars,
     hostVars
<1>5. LaneInv' /\ MutexInv' /\ DispatchInv'
  BY DEF Inv, LoadPark, LaneInv, MutexInv, DispatchInv, Outstanding,
     Signalled, JoinedLane, ToldToStop, shared, callerVars, workerVars,
     hostVars
<1> QED  BY <1>1, <1>2, <1>3, <1>4, <1>5 DEF Inv

LEMMA SleepKeeps ==
  ASSUME Inv, NEW l \in Worker, Sleep(l)
  PROVE  Inv'
<1>1. TypeOK'
  BY LanesAssumption, BumpType DEF Inv, Sleep, WorkerStep, TypeOK, CallerPC,
     WorkerPC, HostPC, NoArg, LaneInv, HostInv, shared, callerVars,
     workerVars, hostVars
<1>2. HostInv'
  BY DEF Inv, Sleep, WorkerStep, TypeOK, HostInv, MutexInv, StampInv,
     DispatchInv, ToldToStop, Outstanding, Worker, shared, callerVars,
     workerVars, hostVars
<1>3. StampInv'
  BY DEF Inv, Sleep, WorkerStep, TypeOK, StampInv, DispatchInv, MutexInv,
     HostInv, LaneInv, ToldToStop, Outstanding, Signalled, Worker, shared,
     callerVars, workerVars, hostVars
<1>4. NoLostWakeup'
  BY DEF Inv, Sleep, WorkerStep, TypeOK, LaneInv, MutexInv, HostInv,
     StampInv, NoLostWakeup, Worker, shared, callerVars, workerVars,
     hostVars
<1>5. LaneInv' /\ MutexInv' /\ DispatchInv'
  BY DEF Inv, Sleep, LaneInv, MutexInv, DispatchInv, Outstanding, Signalled,
     JoinedLane, ToldToStop, shared, callerVars, workerVars, hostVars
<1> QED  BY <1>1, <1>2, <1>3, <1>4, <1>5 DEF Inv

LEMMA WokenKeeps ==
  ASSUME Inv, NEW l \in Worker, Woken(l)
  PROVE  Inv'
<1>1. TypeOK'
  BY LanesAssumption, BumpType DEF Inv, Woken, WorkerStep, TypeOK, CallerPC,
     WorkerPC, HostPC, NoArg, LaneInv, HostInv, shared, callerVars,
     workerVars, hostVars
<1>2. HostInv'
  BY DEF Inv, Woken, WorkerStep, TypeOK, HostInv, MutexInv, StampInv,
     DispatchInv, ToldToStop, Outstanding, Worker, shared, callerVars,
     workerVars, hostVars
<1>3. StampInv'
  BY DEF Inv, Woken, WorkerStep, TypeOK, StampInv, DispatchInv, MutexInv,
     HostInv, LaneInv, ToldToStop, Outstanding, Signalled, Worker, shared,
     callerVars, workerVars, hostVars
<1>4. NoLostWakeup'
  BY DEF Inv, Woken, WorkerStep, TypeOK, LaneInv, MutexInv, HostInv,
     StampInv, NoLostWakeup, Worker, shared, callerVars, workerVars,
     hostVars
<1>5. LaneInv' /\ MutexInv' /\ DispatchInv'
  BY DEF Inv, Woken, LaneInv, MutexInv, DispatchInv, Outstanding, Signalled,
     JoinedLane, ToldToStop, shared, callerVars, workerVars, hostVars
<1> QED  BY <1>1, <1>2, <1>3, <1>4, <1>5 DEF Inv

LEMMA InvokeKeeps ==
  ASSUME Inv, NEW l \in Worker, Invoke(l)
  PROVE  Inv'
<1>1. TypeOK'
  BY LanesAssumption, BumpType DEF Inv, Invoke, WorkerStep, TypeOK,
     CallerPC, WorkerPC, HostPC, NoArg, LaneInv, HostInv, shared,
     callerVars, workerVars, hostVars
<1>2. HostInv'
  BY DEF Inv, Invoke, WorkerStep, TypeOK, HostInv, MutexInv, StampInv,
     DispatchInv, ToldToStop, Outstanding, Worker, shared, callerVars,
     workerVars, hostVars
<1>3. StampInv'
  BY DEF Inv, Invoke, WorkerStep, TypeOK, StampInv, DispatchInv, MutexInv,
     HostInv, LaneInv, ToldToStop, Outstanding, Signalled, Worker, shared,
     callerVars, workerVars, hostVars
<1>4. NoLostWakeup'
  BY DEF Inv, Invoke, WorkerStep, TypeOK, LaneInv, MutexInv, HostInv,
     StampInv, NoLostWakeup, Worker, shared, callerVars, workerVars,
     hostVars
<1>5. LaneInv' /\ MutexInv' /\ DispatchInv'
  BY DEF Inv, Invoke, LaneInv, MutexInv, DispatchInv, Outstanding,
     Signalled, JoinedLane, ToldToStop, shared, callerVars, workerVars,
     hostVars
<1> QED  BY <1>1, <1>2, <1>3, <1>4, <1>5 DEF Inv

LEMMA ExitKeeps ==
  ASSUME Inv, NEW l \in Worker, Exit(l)
  PROVE  Inv'
<1>1. TypeOK'
  BY LanesAssumption, BumpType DEF Inv, Exit, WorkerStep, TypeOK, CallerPC,
     WorkerPC, HostPC, NoArg, LaneInv, HostInv, shared, callerVars,
     workerVars, hostVars
<1>2. HostInv'
  BY DEF Inv, Exit, WorkerStep, TypeOK, HostInv, MutexInv, StampInv,
     DispatchInv, ToldToStop, Outstanding, Worker, shared, callerVars,
     workerVars, hostVars
<1>3. StampInv'
  BY DEF Inv, Exit, WorkerStep, TypeOK, StampInv, DispatchInv, MutexInv,
     HostInv, LaneInv, ToldToStop, Outstanding, Signalled, Worker, shared,
     callerVars, workerVars, hostVars
<1>4. NoLostWakeup'
  BY DEF Inv, Exit, WorkerStep, TypeOK, LaneInv, MutexInv, HostInv,
     StampInv, NoLostWakeup, Worker, shared, callerVars, workerVars,
     hostVars
<1>5. LaneInv' /\ MutexInv' /\ DispatchInv'
  BY DEF Inv, Exit, LaneInv, MutexInv, DispatchInv, Outstanding, Signalled,
     JoinedLane, ToldToStop, shared, callerVars, workerVars, hostVars
<1> QED  BY <1>1, <1>2, <1>3, <1>4, <1>5 DEF Inv

LEMMA InvokedKeeps ==
  ASSUME Inv, NEW l \in Worker, Invoked(l)
  PROVE  Inv'
<1>1. TypeOK'
  BY LanesAssumption, BumpType DEF Inv, Invoked, WorkerStep, TypeOK,
     CallerPC, WorkerPC, HostPC, NoArg, LaneInv, HostInv, shared,
     callerVars, workerVars, hostVars
<1>2. HostInv'
  BY DEF Inv, Invoked, WorkerStep, TypeOK, HostInv, MutexInv, StampInv,
     DispatchInv, ToldToStop, Outstanding, Worker, shared, callerVars,
     workerVars, hostVars
<1>3. StampInv'
  BY DEF Inv, Invoked, WorkerStep, TypeOK, StampInv, DispatchInv, MutexInv,
     HostInv, LaneInv, ToldToStop, Outstanding, Signalled, Worker, shared,
     callerVars, workerVars, hostVars
<1>4. NoLostWakeup'
  BY DEF Inv, Invoked, WorkerStep, TypeOK, LaneInv, MutexInv, HostInv,
     StampInv, NoLostWakeup, Worker, shared, callerVars, workerVars,
     hostVars
<1>5. LaneInv' /\ MutexInv' /\ DispatchInv'
  BY DEF Inv, Invoked, LaneInv, MutexInv, DispatchInv, Outstanding,
     Signalled, JoinedLane, ToldToStop, shared, callerVars, workerVars,
     hostVars
<1> QED  BY <1>1, <1>2, <1>3, <1>4, <1>5 DEF Inv

LEMMA CompleteKeeps ==
  ASSUME Inv, NEW l \in Worker, Complete(l)
  PROVE  Inv'
<1>1. TypeOK'
  BY LanesAssumption, BumpType DEF Inv, Complete, WorkerStep, TypeOK,
     CallerPC, WorkerPC, HostPC, NoArg, LaneInv, HostInv, shared,
     callerVars, workerVars, hostVars
<1>2. HostInv'
  BY DEF Inv, Complete, WorkerStep, TypeOK, HostInv, MutexInv, StampInv,
     DispatchInv, ToldToStop, Outstanding, Worker, shared, callerVars,
     workerVars, hostVars
<1>3. StampInv'
  BY DEF Inv, Complete, WorkerStep, TypeOK, StampInv, DispatchInv, MutexInv,
     HostInv, LaneInv, ToldToStop, Outstanding, Signalled, Worker, shared,
     callerVars, workerVars, hostVars
<1>4. DispatchInv'
  BY DEF Inv, Complete, WorkerStep, TypeOK, LaneInv, MutexInv, HostInv,
     StampInv, DispatchInv, Outstanding, JoinedLane, Signalled, ToldToStop,
     Worker, shared, callerVars, workerVars, hostVars
<1>5. NoLostWakeup'
  BY DEF Inv, Complete, WorkerStep, TypeOK, LaneInv, MutexInv, HostInv,
     StampInv, NoLostWakeup, Worker, shared, callerVars, workerVars,
     hostVars
<1>6. LaneInv' /\ MutexInv'
  BY DEF Inv, Complete, LaneInv, MutexInv, shared, callerVars, workerVars,
     hostVars
<1> QED  BY <1>1, <1>2, <1>3, <1>4, <1>5, <1>6 DEF Inv

LEMMA WakeKeeps ==
  ASSUME Inv, NEW l \in Worker, Wake(l)
  PROVE  Inv'
<1>1. TypeOK'
  BY LanesAssumption, BumpType DEF Inv, Wake, WorkerStep, TypeOK, CallerPC,
     WorkerPC, HostPC, NoArg, LaneInv, HostInv, shared, callerVars,
     workerVars, hostVars
<1>2. LaneInv'
  BY DEF Inv, Wake, WorkerStep, TypeOK, LaneInv, shared, callerVars,
     workerVars, hostVars
<1>3. MutexInv'
  BY DEF Inv, Wake, WorkerStep, TypeOK, MutexInv, shared, callerVars,
     workerVars, hostVars
<1>4. HostInv'
  BY DEF Inv, Wake, WorkerStep, TypeOK, HostInv, MutexInv, StampInv,
     DispatchInv, ToldToStop, Outstanding, Worker, shared, callerVars,
     workerVars, hostVars
<1>5. StampInv'
  BY DEF Inv, Wake, WorkerStep, TypeOK, StampInv, DispatchInv, MutexInv,
     HostInv, LaneInv, ToldToStop, Outstanding, Signalled, Worker, shared,
     callerVars, workerVars, hostVars
<1>6. DispatchInv'
  BY DEF Inv, Wake, WorkerStep, TypeOK, LaneInv, MutexInv, HostInv,
     StampInv, DispatchInv, Outstanding, JoinedLane, Signalled, ToldToStop,
     Worker, shared, callerVars, workerVars, hostVars
<1>7. NoLostWakeup'
  BY DEF Inv, Wake, WorkerStep, TypeOK, LaneInv, MutexInv, HostInv,
     StampInv, NoLostWakeup, Worker, shared, callerVars, workerVars,
     hostVars
<1> QED  BY <1>1, <1>2, <1>3, <1>4, <1>5, <1>6, <1>7 DEF Inv

LEMMA SpuriousWorkerKeeps ==
  ASSUME Inv, NEW l \in Worker, SpuriousWorker(l)
  PROVE  Inv'
<1>1. TypeOK'
  BY LanesAssumption, BumpType DEF Inv, SpuriousWorker, WorkerStep, TypeOK,
     CallerPC, WorkerPC, HostPC, NoArg, LaneInv, HostInv, shared,
     callerVars, workerVars, hostVars
<1>2. HostInv'
  BY DEF Inv, SpuriousWorker, WorkerStep, TypeOK, HostInv, MutexInv,
     StampInv, DispatchInv, ToldToStop, Outstanding, Worker, shared,
     callerVars, workerVars, hostVars
<1>3. StampInv'
  BY DEF Inv, SpuriousWorker, WorkerStep, TypeOK, StampInv, DispatchInv,
     MutexInv, HostInv, LaneInv, ToldToStop, Outstanding, Signalled, Worker,
     shared, callerVars, workerVars, hostVars
<1>4. NoLostWakeup'
  BY DEF Inv, SpuriousWorker, WorkerStep, TypeOK, LaneInv, MutexInv,
     HostInv, StampInv, NoLostWakeup, Worker, shared, callerVars,
     workerVars, hostVars
<1>5. LaneInv' /\ MutexInv' /\ DispatchInv'
  BY DEF Inv, SpuriousWorker, LaneInv, MutexInv, DispatchInv, Outstanding,
     Signalled, JoinedLane, ToldToStop, shared, callerVars, workerVars,
     hostVars
<1> QED  BY <1>1, <1>2, <1>3, <1>4, <1>5 DEF Inv

LEMMA SpawnKeeps ==
  ASSUME Inv, Spawn
  PROVE  Inv'
<1>1. TypeOK'
  BY LanesAssumption, BumpType DEF Inv, Spawn, HostStep, TypeOK, CallerPC,
     WorkerPC, HostPC, NoArg, Worker, LaneInv, HostInv, shared, callerVars,
     workerVars, hostVars
<1>2. HostInv'
  BY DEF Inv, Spawn, HostStep, TypeOK, HostInv, MutexInv, StampInv,
     DispatchInv, ToldToStop, Outstanding, Worker, shared, callerVars,
     workerVars, hostVars
<1>3. StampInv'
  BY DEF Inv, Spawn, HostStep, TypeOK, StampInv, DispatchInv, MutexInv,
     HostInv, LaneInv, ToldToStop, Outstanding, Signalled, Worker, shared,
     callerVars, workerVars, hostVars
<1>4. DispatchInv'
  BY DEF Inv, Spawn, HostStep, TypeOK, LaneInv, MutexInv, HostInv, StampInv,
     DispatchInv, Outstanding, JoinedLane, Signalled, ToldToStop, Worker,
     shared, callerVars, workerVars, hostVars
<1>5. NoLostWakeup'
  BY DEF Inv, Spawn, HostStep, TypeOK, LaneInv, MutexInv, HostInv, StampInv,
     NoLostWakeup, Worker, shared, callerVars, workerVars, hostVars
<1>6. LaneInv' /\ MutexInv'
  BY DEF Inv, Spawn, LaneInv, MutexInv, shared, callerVars, workerVars,
     hostVars
<1> QED  BY <1>1, <1>2, <1>3, <1>4, <1>5, <1>6 DEF Inv

LEMMA BoundKeeps ==
  ASSUME Inv, Bound
  PROVE  Inv'
<1>1. TypeOK'
  BY LanesAssumption, BumpType DEF Inv, Bound, HostStep, TypeOK, CallerPC,
     WorkerPC, HostPC, NoArg, LaneInv, HostInv, shared, callerVars,
     workerVars, hostVars
<1>2. HostInv'
  BY DEF Inv, Bound, HostStep, TypeOK, HostInv, MutexInv, StampInv,
     DispatchInv, ToldToStop, Outstanding, Worker, shared, callerVars,
     workerVars, hostVars
<1>3. DispatchInv'
  BY DEF Inv, Bound, HostStep, TypeOK, LaneInv, MutexInv, HostInv, StampInv,
     DispatchInv, Outstanding, JoinedLane, Signalled, ToldToStop, Worker,
     shared, callerVars, workerVars, hostVars
<1>4. NoLostWakeup'
  BY DEF Inv, Bound, HostStep, TypeOK, LaneInv, MutexInv, HostInv, StampInv,
     NoLostWakeup, Worker, shared, callerVars, workerVars, hostVars
<1>5. LaneInv' /\ MutexInv' /\ StampInv'
  BY DEF Inv, Bound, LaneInv, MutexInv, StampInv, Outstanding, shared,
     callerVars, workerVars, hostVars
<1> QED  BY <1>1, <1>2, <1>3, <1>4, <1>5 DEF Inv

LEMMA ConstructedKeeps ==
  ASSUME Inv, Constructed
  PROVE  Inv'
<1>1. TypeOK'
  BY LanesAssumption, BumpType DEF Inv, Constructed, HostStep, TypeOK,
     CallerPC, WorkerPC, HostPC, NoArg, LaneInv, HostInv, shared,
     callerVars, workerVars, hostVars
<1>2. HostInv'
  BY DEF Inv, Constructed, HostStep, TypeOK, HostInv, MutexInv, StampInv,
     DispatchInv, ToldToStop, Outstanding, Worker, shared, callerVars,
     workerVars, hostVars
<1>3. DispatchInv'
  BY DEF Inv, Constructed, HostStep, TypeOK, LaneInv, MutexInv, HostInv,
     StampInv, DispatchInv, Outstanding, JoinedLane, Signalled, ToldToStop,
     Worker, shared, callerVars, workerVars, hostVars
<1>4. NoLostWakeup'
  BY DEF Inv, Constructed, HostStep, TypeOK, LaneInv, MutexInv, HostInv,
     StampInv, NoLostWakeup, Worker, shared, callerVars, workerVars,
     hostVars
<1>5. LaneInv' /\ MutexInv' /\ StampInv'
  BY DEF Inv, Constructed, LaneInv, MutexInv, StampInv, Outstanding, shared,
     callerVars, workerVars, hostVars
<1> QED  BY <1>1, <1>2, <1>3, <1>4, <1>5 DEF Inv

LEMMA StopSignalKeeps ==
  ASSUME Inv, StopSignal
  PROVE  Inv'
<1>1. TypeOK'
  BY LanesAssumption, BumpType DEF Inv, StopSignal, HostStep, TypeOK,
     CallerPC, WorkerPC, HostPC, NoArg, LaneInv, HostInv, shared,
     callerVars, workerVars, hostVars
<1>2. HostInv'
  BY DEF Inv, StopSignal, HostStep, TypeOK, HostInv, MutexInv, StampInv,
     DispatchInv, ToldToStop, Outstanding, Worker, shared, callerVars,
     workerVars, hostVars
<1>3. StampInv'
  BY BumpType DEF Inv, StopSignal, HostStep, TypeOK, StampInv, DispatchInv,
     MutexInv, HostInv, LaneInv, ToldToStop, Outstanding, Signalled, Worker,
     shared, callerVars, workerVars, hostVars
<1>4. DispatchInv'
  BY DEF Inv, StopSignal, HostStep, TypeOK, LaneInv, MutexInv, HostInv,
     StampInv, DispatchInv, Outstanding, JoinedLane, Signalled, ToldToStop,
     Worker, shared, callerVars, workerVars, hostVars
<1>5. NoLostWakeup'
  BY DEF Inv, StopSignal, HostStep, TypeOK, LaneInv, MutexInv, HostInv,
     StampInv, NoLostWakeup, Worker, shared, callerVars, workerVars,
     hostVars
<1>6. LaneInv' /\ MutexInv'
  BY DEF Inv, StopSignal, LaneInv, MutexInv, shared, callerVars, workerVars,
     hostVars
<1> QED  BY <1>1, <1>2, <1>3, <1>4, <1>5, <1>6 DEF Inv

LEMMA StopNotifyKeeps ==
  ASSUME Inv, StopNotify
  PROVE  Inv'
<1>1. TypeOK'
  BY LanesAssumption, BumpType DEF Inv, StopNotify, HostStep, Unpark,
     TypeOK, CallerPC, WorkerPC, HostPC, NoArg, Worker, LaneInv, HostInv,
     shared, callerVars, workerVars, hostVars
<1>2. HostInv'
  BY DEF Inv, StopNotify, HostStep, Unpark, TypeOK, HostInv, MutexInv,
     StampInv, DispatchInv, ToldToStop, Outstanding, Worker, shared,
     callerVars, workerVars, hostVars
<1>3. StampInv'
  BY DEF Inv, StopNotify, HostStep, Unpark, TypeOK, StampInv, DispatchInv,
     MutexInv, HostInv, LaneInv, ToldToStop, Outstanding, Signalled, Worker,
     shared, callerVars, workerVars, hostVars
<1>4. DispatchInv'
  BY DEF Inv, StopNotify, HostStep, Unpark, TypeOK, LaneInv, MutexInv,
     HostInv, StampInv, DispatchInv, Outstanding, JoinedLane, Signalled,
     ToldToStop, Worker, shared, callerVars, workerVars, hostVars
<1>5. NoLostWakeup'
  BY DEF Inv, StopNotify, HostStep, Unpark, TypeOK, LaneInv, MutexInv,
     HostInv, StampInv, NoLostWakeup, Worker, shared, callerVars,
     workerVars, hostVars
<1>6. LaneInv' /\ MutexInv'
  BY DEF Inv, StopNotify, LaneInv, MutexInv, shared, callerVars, workerVars,
     hostVars
<1> QED  BY <1>1, <1>2, <1>3, <1>4, <1>5, <1>6 DEF Inv

LEMMA StopSignalledKeeps ==
  ASSUME Inv, StopSignalled
  PROVE  Inv'
<1>1. TypeOK'
  BY LanesAssumption, BumpType DEF Inv, StopSignalled, HostStep, TypeOK,
     CallerPC, WorkerPC, HostPC, NoArg, LaneInv, HostInv, shared,
     callerVars, workerVars, hostVars
<1>2. HostInv'
  BY DEF Inv, StopSignalled, HostStep, TypeOK, HostInv, MutexInv, StampInv,
     DispatchInv, ToldToStop, Outstanding, Worker, shared, callerVars,
     workerVars, hostVars
<1>3. DispatchInv'
  BY DEF Inv, StopSignalled, HostStep, TypeOK, LaneInv, MutexInv, HostInv,
     StampInv, DispatchInv, Outstanding, JoinedLane, Signalled, ToldToStop,
     Worker, shared, callerVars, workerVars, hostVars
<1>4. NoLostWakeup'
  BY DEF Inv, StopSignalled, HostStep, TypeOK, LaneInv, MutexInv, HostInv,
     StampInv, NoLostWakeup, Worker, shared, callerVars, workerVars,
     hostVars
<1>5. LaneInv' /\ MutexInv' /\ StampInv'
  BY DEF Inv, StopSignalled, LaneInv, MutexInv, StampInv, Outstanding,
     shared, callerVars, workerVars, hostVars
<1> QED  BY <1>1, <1>2, <1>3, <1>4, <1>5 DEF Inv

LEMMA StopJoinKeeps ==
  ASSUME Inv, StopJoin
  PROVE  Inv'
<1>1. TypeOK'
  BY LanesAssumption, BumpType DEF Inv, StopJoin, HostStep, TypeOK,
     CallerPC, WorkerPC, HostPC, NoArg, LaneInv, HostInv, shared,
     callerVars, workerVars, hostVars
<1>2. HostInv'
  BY DEF Inv, StopJoin, HostStep, TypeOK, HostInv, MutexInv, StampInv,
     DispatchInv, ToldToStop, Outstanding, Worker, shared, callerVars,
     workerVars, hostVars
<1>3. DispatchInv'
  BY DEF Inv, StopJoin, HostStep, TypeOK, LaneInv, MutexInv, HostInv,
     StampInv, DispatchInv, Outstanding, JoinedLane, Signalled, ToldToStop,
     Worker, shared, callerVars, workerVars, hostVars
<1>4. NoLostWakeup'
  BY DEF Inv, StopJoin, HostStep, TypeOK, LaneInv, MutexInv, HostInv,
     StampInv, NoLostWakeup, Worker, shared, callerVars, workerVars,
     hostVars
<1>5. LaneInv' /\ MutexInv' /\ StampInv'
  BY DEF Inv, StopJoin, LaneInv, MutexInv, StampInv, Outstanding, shared,
     callerVars, workerVars, hostVars
<1> QED  BY <1>1, <1>2, <1>3, <1>4, <1>5 DEF Inv

LEMMA StoppedKeeps ==
  ASSUME Inv, Stopped
  PROVE  Inv'
<1>1. TypeOK'
  BY LanesAssumption, BumpType DEF Inv, Stopped, HostStep, TypeOK, CallerPC,
     WorkerPC, HostPC, NoArg, LaneInv, HostInv, shared, callerVars,
     workerVars, hostVars
<1>2. HostInv'
  BY DEF Inv, Stopped, HostStep, TypeOK, HostInv, MutexInv, StampInv,
     DispatchInv, ToldToStop, Outstanding, Worker, shared, callerVars,
     workerVars, hostVars
<1>3. DispatchInv'
  BY DEF Inv, Stopped, HostStep, TypeOK, LaneInv, MutexInv, HostInv,
     StampInv, DispatchInv, Outstanding, JoinedLane, Signalled, ToldToStop,
     Worker, shared, callerVars, workerVars, hostVars
<1>4. NoLostWakeup'
  BY DEF Inv, Stopped, HostStep, TypeOK, LaneInv, MutexInv, HostInv,
     StampInv, NoLostWakeup, Worker, shared, callerVars, workerVars,
     hostVars
<1>5. LaneInv' /\ MutexInv' /\ StampInv'
  BY DEF Inv, Stopped, LaneInv, MutexInv, StampInv, Outstanding, shared,
     callerVars, workerVars, hostVars
<1> QED  BY <1>1, <1>2, <1>3, <1>4, <1>5 DEF Inv

LEMMA StopKeeps ==
  ASSUME Inv, NEW from \in {"construct", "bind", "ready"}, 
              \A c \in Callers : cpc[c] = "idle", Stop(from)
  PROVE  Inv'
<1>1. TypeOK'
  BY LanesAssumption, BumpType DEF Inv, Stop, HostStep, TypeOK, CallerPC,
     WorkerPC, HostPC, NoArg, LaneInv, HostInv, shared, callerVars,
     workerVars, hostVars
<1>2. HostInv'
  BY DEF Inv, Stop, HostStep, TypeOK, HostInv, MutexInv, StampInv,
     DispatchInv, ToldToStop, Outstanding, Worker, shared, callerVars,
     workerVars, hostVars
<1>3. DispatchInv'
  BY DEF Inv, Stop, HostStep, TypeOK, LaneInv, MutexInv, HostInv, StampInv,
     DispatchInv, Outstanding, JoinedLane, Signalled, ToldToStop, Worker,
     shared, callerVars, workerVars, hostVars
<1>4. NoLostWakeup'
  BY DEF Inv, Stop, HostStep, TypeOK, LaneInv, MutexInv, HostInv, StampInv,
     NoLostWakeup, Worker, shared, callerVars, workerVars, hostVars
<1>5. LaneInv' /\ MutexInv' /\ StampInv'
  BY DEF Inv, Stop, LaneInv, MutexInv, StampInv, Outstanding, shared,
     callerVars, workerVars, hostVars
<1> QED  BY <1>1, <1>2, <1>3, <1>4, <1>5 DEF Inv

-----------------------------------------------------------------------------
LEMMA InitInv == Init => Inv
<1> SUFFICES ASSUME Init PROVE Inv
  OBVIOUS
<1>1. TypeOK
  <2>1. 1 \in 1 .. Lanes /\ 0 \in Stamp
    BY LanesAssumption, BumpType
  <2>2. NoArg \in (Callers \cup {NoCaller}) \X Stamp
    BY <2>1 DEF NoArg
  <2> QED  BY <2>1, <2>2 DEF Init, TypeOK, CallerPC, WorkerPC, HostPC
<1>2. LaneInv /\ MutexInv /\ HostInv
  BY CallerAssumption, LanesAssumption DEF Init, LaneInv, MutexInv, HostInv, Worker
<1>3. StampInv /\ DispatchInv /\ NoLostWakeup
  BY DEF Init, StampInv, DispatchInv, NoLostWakeup, Outstanding
<1> QED  BY <1>1, <1>2, <1>3 DEF Inv

\* The callers are all outside run when the host stops the pool: in the
\* destructor by contract, in the constructor because nobody has the pool yet.
LEMMA HostKeeps ==
  ASSUME Inv, HostNext \/ ConstructFails \/ Destroy
  PROVE  Inv'
<1>1. CASE HostNext
  BY <1>1, SpawnKeeps, BoundKeeps, ConstructedKeeps, StopSignalKeeps,
     StopNotifyKeeps, StopSignalledKeeps, StopJoinKeeps, StoppedKeeps DEF HostNext
<1>2. CASE ConstructFails
  <2>1. \A c \in Callers : cpc[c] = "idle"
    BY <1>2, CallerAssumption DEF Inv, ConstructFails, Stop, HostStep, HostInv, MutexInv
  <2> QED  BY <1>2, <2>1, StopKeeps DEF ConstructFails
<1>3. CASE Destroy
  BY <1>3, StopKeeps DEF Destroy
<1> QED  BY <1>1, <1>2, <1>3

LEMMA NextInv == Inv /\ [Next]_vars => Inv'
<1> SUFFICES ASSUME Inv, [Next]_vars PROVE Inv'
  OBVIOUS
<1>1. CASE \E c \in Callers, n \in 1 .. Lanes : Enter(c, n)
  BY <1>1, EnterKeeps
<1>2. ASSUME NEW c \in Callers, CallerNext(c) \/ SpuriousCaller(c) PROVE Inv'
  BY <1>2, SignalKeeps, NotifyKeeps, CallerLaneKeeps, CallerLaneDoneKeeps,
     ContinuationKeeps, JoinedKeeps, JoinParkKeeps, JoinSleepKeeps,
     JoinWokenKeeps, LeaveKeeps, SpuriousCallerKeeps DEF CallerNext
<1>3. ASSUME NEW l \in Worker, WorkerNext(l) \/ SpuriousWorker(l) PROVE Inv'
  BY <1>3, LoadKeeps, LoadParkKeeps, SleepKeeps, WokenKeeps, InvokeKeeps,
     ExitKeeps, InvokedKeeps, CompleteKeeps, WakeKeeps, SpuriousWorkerKeeps
     DEF WorkerNext
<1>4. CASE HostNext \/ ConstructFails \/ Destroy
  BY <1>4, HostKeeps
<1>5. CASE UNCHANGED vars
  BY <1>5 DEF vars, shared, callerVars, workerVars, hostVars, Inv, TypeOK,
     LaneInv, MutexInv, HostInv, StampInv, DispatchInv, NoLostWakeup,
     Outstanding, Signalled, JoinedLane, ToldToStop
<1> QED  BY <1>1, <1>2, <1>3, <1>4, <1>5 DEF Next, Terminated

\* The inductive invariant holds of every behaviour of the pool.
THEOREM Invariance == Spec => []Inv
  BY InitInv, NextInv, PTL DEF Spec

\* Every variable of the pool keeps its type, for any number of lanes and any
\* width of the slots: no loop index of run or stop leaves the slot arrays.
THEOREM TypeCorrect == Spec => []TypeOK
<1>1. Inv => TypeOK
  BY DEF Inv
<1> QED  BY <1>1, Invariance, PTL

\* A worker evaluates only the job of the transaction that is open, and only if
\* that transaction asked for its lane, whatever the wraparound of the slots.
THEOREM JobMetadataHolds == Spec => []JobMetadata
<1>1. Inv => JobMetadata
  <2> SUFFICES ASSUME Inv, NEW l \in Worker, wpc[l] = "run"
               PROVE  mutex # NoCaller /\ l < active[mutex] /\ arg[l] = <<mutex, epoch>>
    BY DEF JobMetadata
  <2>1. Outstanding(l) /\ arg[l] = <<model, epoch>>
    BY DEF Inv, StampInv
  <2>2. ~ToldToStop(l)
    BY DEF Inv, HostInv, ToldToStop
  <2>3. mutex # NoCaller /\ l < active[mutex]
    BY <2>1, <2>2 DEF Inv, DispatchInv
  <2> QED  BY <2>1, <2>3 DEF Inv, MutexInv
<1> QED  BY <1>1, Invariance, PTL

\* No wakeup is lost: whoever sleeps on a slot that has moved is about to be
\* notified by the thread that moved it.
THEOREM NoLostWakeupHolds == Spec => []NoLostWakeup
<1>1. Inv => NoLostWakeup
  BY DEF Inv
<1> QED  BY <1>1, Invariance, PTL

\* A call of run ends only when no worker still has its job, whether or not
\* the continuation threw.
THEOREM DrainHolds == Spec => DrainBeforeReturn
<1> DEFINE Drained ==
      \A c \in Callers : cpc[c] # "idle" /\ cpc'[c] = "idle" =>
         \A l \in Worker : l < active[c] =>
            wpc[l] \notin {"check", "run", "complete"} /\ commands[l] = completed[l]
<1>1. Inv /\ [Next]_vars => [Drained]_vars
  <2> SUFFICES ASSUME Inv, [Next]_vars,
                      NEW c \in Callers, cpc[c] # "idle", cpc'[c] = "idle",
                      NEW l \in Worker, l < active[c]
               PROVE  /\ wpc[l] \notin {"check", "run", "complete"}
                      /\ commands[l] = completed[l]
    OBVIOUS
  <2>1. Leave(c)
    BY DEF Next, vars, shared, callerVars, workerVars, hostVars, Inv, TypeOK,
       CallerStep, WorkerStep, HostStep, Stop, Enter, CallerNext, Signal, Notify,
       CallerLane, CallerLaneDone, Continuation, Joined, JoinPark, JoinSleep,
       JoinWoken, Leave, SpuriousCaller, WorkerNext, Load, LoadPark, Sleep, Woken,
       Invoke, Exit, Invoked, Complete, Wake, SpuriousWorker, HostNext, Spawn,
       Bound, Constructed, StopSignal, StopNotify, StopSignalled, StopJoin,
       Stopped, ConstructFails, Destroy, Terminated
  <2>2. mutex = c /\ ~ToldToStop(l) /\ JoinedLane(c, l)
    BY <2>1, CallerAssumption DEF Leave, CallerStep, Inv, TypeOK, MutexInv, HostInv,
       ToldToStop, JoinedLane
  <2>3. ~Outstanding(l)
    BY <2>2 DEF Inv, DispatchInv
  <2> QED  BY <2>3 DEF Inv, StampInv, Outstanding
<1> QED  BY <1>1, Invariance, PTL DEF Spec, DrainBeforeReturn

-----------------------------------------------------------------------------
(* Every step of the worker pool is a step of a fork-join transaction, or   *)
(* leaves the transaction alone.                                            *)

AbstractVars == <<mutex, AbstractTodo, AbstractBusy, AbstractThrew>>

\* Signalling and joining the workers is invisible to the transaction.
LEMMA CallerStutters ==
  ASSUME Inv, NEW c \in Callers,
         Signal(c) \/ Notify(c) \/ Joined(c) \/ JoinPark(c) \/ JoinSleep(c)
            \/ JoinWoken(c) \/ SpuriousCaller(c)
  PROVE  UNCHANGED AbstractVars
<1>1. CASE Signal(c)
  <2>1. lane[c] \in Worker /\ mutex = c /\ ~Outstanding(lane[c])
    BY <1>1, SignalsIdleLane
  <2>2. Outstanding(lane[c])'
    BY <1>1, <2>1, BumpType DEF Signal, Inv, TypeOK, Outstanding
  <2>3. wpc[lane[c]] \notin {"run", "complete"}
    BY <2>1 DEF Inv, StampInv
  <2>4. ASSUME NEW k \in 0 .. Lanes - 1 PROVE ToDo(c, k)' <=> ToDo(c, k)
    <3>1. CASE k = 0
      BY <1>1, <3>1, CallerAssumption DEF Signal, CallerStep, Inv, TypeOK, ToDo
    <3>2. CASE k = lane[c]
      BY <1>1, <2>1, <2>2, <2>3, <3>2, CallerAssumption DEF Signal, CallerStep, Inv,
         TypeOK, ToDo, Signalled, Outstanding, Worker, workerVars
    <3>3. CASE k # 0 /\ k # lane[c]
      BY <1>1, <2>1, <3>3, CallerAssumption, LanesAssumption DEF Signal, CallerStep,
         Inv, TypeOK, ToDo, Signalled, Worker, workerVars
    <3> QED  BY <3>1, <3>2, <3>3
  <2>5. AbstractTodo' = AbstractTodo
    BY <1>1, <2>1, <2>4 DEF Signal, AbstractTodo
  <2>6. AbstractBusy' = AbstractBusy
    BY <1>1, CallerAssumption DEF Signal, CallerStep, Inv, TypeOK, AbstractBusy,
       Evaluates, workerVars
  <2> QED  BY <1>1, <2>5, <2>6 DEF Signal, AbstractVars, AbstractThrew
<1>2. CASE Notify(c)
  BY <1>2, CallerAssumption, LanesAssumption DEF AbstractVars, Inv, Notify,
     CallerStep, Unpark, TypeOK, LaneInv, MutexInv, AbstractTodo,
     AbstractBusy, AbstractThrew, ToDo, Evaluates, Signalled, Worker,
     shared, callerVars, workerVars, hostVars
<1>3. CASE Joined(c)
  BY <1>3, CallerAssumption, LanesAssumption DEF AbstractVars, Inv, Joined,
     CallerStep, TypeOK, LaneInv, MutexInv, AbstractTodo, AbstractBusy,
     AbstractThrew, ToDo, Evaluates, Signalled, Worker, shared, callerVars,
     workerVars, hostVars
<1>4. CASE JoinPark(c)
  BY <1>4, CallerAssumption, LanesAssumption DEF AbstractVars, Inv,
     JoinPark, CallerStep, TypeOK, LaneInv, MutexInv, AbstractTodo,
     AbstractBusy, AbstractThrew, ToDo, Evaluates, Signalled, Worker,
     shared, callerVars, workerVars, hostVars
<1>5. CASE JoinSleep(c)
  BY <1>5, CallerAssumption, LanesAssumption DEF AbstractVars, Inv,
     JoinSleep, CallerStep, TypeOK, LaneInv, MutexInv, AbstractTodo,
     AbstractBusy, AbstractThrew, ToDo, Evaluates, Signalled, Worker,
     shared, callerVars, workerVars, hostVars
<1>6. CASE JoinWoken(c)
  BY <1>6, CallerAssumption, LanesAssumption DEF AbstractVars, Inv,
     JoinWoken, CallerStep, TypeOK, LaneInv, MutexInv, AbstractTodo,
     AbstractBusy, AbstractThrew, ToDo, Evaluates, Signalled, Worker,
     shared, callerVars, workerVars, hostVars
<1>7. CASE SpuriousCaller(c)
  BY <1>7, CallerAssumption, LanesAssumption DEF AbstractVars, Inv,
     SpuriousCaller, CallerStep, TypeOK, LaneInv, MutexInv, AbstractTodo,
     AbstractBusy, AbstractThrew, ToDo, Evaluates, Signalled, Worker,
     shared, callerVars, workerVars, hostVars
<1> QED  BY <1>1, <1>2, <1>3, <1>4, <1>5, <1>6, <1>7

\* So are a worker's waiting, its taking a command and its reporting back.
LEMMA WorkerStutters ==
  ASSUME Inv, NEW l \in Worker,
         Load(l) \/ LoadPark(l) \/ Sleep(l) \/ Woken(l) \/ Exit(l) \/
            Complete(l) \/ Wake(l) \/ SpuriousWorker(l)
  PROVE  UNCHANGED AbstractVars
<1>1. CASE Load(l)
  BY <1>1, CallerAssumption, LanesAssumption DEF AbstractVars, Inv, Load,
     WorkerStep, TypeOK, MutexInv, HostInv, StampInv, AbstractTodo,
     AbstractBusy, AbstractThrew, ToDo, Evaluates, Signalled, Worker,
     shared, callerVars, workerVars, hostVars
<1>2. CASE LoadPark(l)
  BY <1>2, CallerAssumption, LanesAssumption DEF AbstractVars, Inv,
     LoadPark, WorkerStep, TypeOK, MutexInv, HostInv, StampInv,
     AbstractTodo, AbstractBusy, AbstractThrew, ToDo, Evaluates, Signalled,
     Worker, shared, callerVars, workerVars, hostVars
<1>3. CASE Sleep(l)
  BY <1>3, CallerAssumption, LanesAssumption DEF AbstractVars, Inv, Sleep,
     WorkerStep, TypeOK, MutexInv, HostInv, StampInv, AbstractTodo,
     AbstractBusy, AbstractThrew, ToDo, Evaluates, Signalled, Worker,
     shared, callerVars, workerVars, hostVars
<1>4. CASE Woken(l)
  BY <1>4, CallerAssumption, LanesAssumption DEF AbstractVars, Inv, Woken,
     WorkerStep, TypeOK, MutexInv, HostInv, StampInv, AbstractTodo,
     AbstractBusy, AbstractThrew, ToDo, Evaluates, Signalled, Worker,
     shared, callerVars, workerVars, hostVars
<1>5. CASE Exit(l)
  BY <1>5, CallerAssumption, LanesAssumption DEF AbstractVars, Inv, Exit,
     WorkerStep, TypeOK, MutexInv, HostInv, StampInv, AbstractTodo,
     AbstractBusy, AbstractThrew, ToDo, Evaluates, Signalled, Worker,
     shared, callerVars, workerVars, hostVars
<1>6. CASE Complete(l)
  BY <1>6, CallerAssumption, LanesAssumption DEF AbstractVars, Inv,
     Complete, WorkerStep, TypeOK, MutexInv, HostInv, StampInv, DispatchInv,
     Outstanding, AbstractTodo, AbstractBusy, AbstractThrew, ToDo,
     Evaluates, Signalled, Worker, shared, callerVars, workerVars, hostVars
<1>7. CASE Wake(l)
  BY <1>7, CallerAssumption, LanesAssumption DEF AbstractVars, Inv, Wake,
     WorkerStep, TypeOK, MutexInv, HostInv, StampInv, AbstractTodo,
     AbstractBusy, AbstractThrew, ToDo, Evaluates, Signalled, Worker,
     shared, callerVars, workerVars, hostVars
<1>8. CASE SpuriousWorker(l)
  BY <1>8, CallerAssumption, LanesAssumption DEF AbstractVars, Inv,
     SpuriousWorker, WorkerStep, TypeOK, MutexInv, HostInv, StampInv,
     AbstractTodo, AbstractBusy, AbstractThrew, ToDo, Evaluates, Signalled,
     Worker, shared, callerVars, workerVars, hostVars
<1> QED  BY <1>1, <1>2, <1>3, <1>4, <1>5, <1>6, <1>7, <1>8

\* The host moves only between transactions.
LEMMA HostStutters ==
  ASSUME Inv, 
         Spawn \/ Bound \/ Constructed \/ StopSignal \/ StopNotify \/
            StopSignalled \/ StopJoin \/ Stopped \/ ConstructFails \/
            Destroy
  PROVE  UNCHANGED AbstractVars
<1>1. CASE Spawn
  BY <1>1, CallerAssumption, LanesAssumption DEF AbstractVars, Inv, Spawn,
     HostStep, TypeOK, MutexInv, HostInv, StampInv, AbstractTodo,
     AbstractBusy, AbstractThrew, ToDo, Evaluates, Signalled, Worker,
     shared, callerVars, workerVars, hostVars
<1>2. CASE Bound
  BY <1>2, CallerAssumption, LanesAssumption DEF AbstractVars, Inv, Bound,
     HostStep, TypeOK, MutexInv, HostInv, StampInv, AbstractTodo,
     AbstractBusy, AbstractThrew, ToDo, Evaluates, Signalled, Worker,
     shared, callerVars, workerVars, hostVars
<1>3. CASE Constructed
  BY <1>3, CallerAssumption, LanesAssumption DEF AbstractVars, Inv,
     Constructed, HostStep, TypeOK, MutexInv, HostInv, StampInv,
     AbstractTodo, AbstractBusy, AbstractThrew, ToDo, Evaluates, Signalled,
     Worker, shared, callerVars, workerVars, hostVars
<1>4. CASE StopSignal
  BY <1>4, CallerAssumption, LanesAssumption DEF AbstractVars, Inv,
     StopSignal, HostStep, TypeOK, MutexInv, HostInv, StampInv,
     AbstractTodo, AbstractBusy, AbstractThrew, ToDo, Evaluates, Signalled,
     Worker, shared, callerVars, workerVars, hostVars
<1>5. CASE StopNotify
  BY <1>5, CallerAssumption, LanesAssumption DEF AbstractVars, Inv,
     StopNotify, HostStep, Unpark, TypeOK, MutexInv, HostInv, StampInv,
     AbstractTodo, AbstractBusy, AbstractThrew, ToDo, Evaluates, Signalled,
     Worker, shared, callerVars, workerVars, hostVars
<1>6. CASE StopSignalled
  BY <1>6, CallerAssumption, LanesAssumption DEF AbstractVars, Inv,
     StopSignalled, HostStep, TypeOK, MutexInv, HostInv, StampInv,
     AbstractTodo, AbstractBusy, AbstractThrew, ToDo, Evaluates, Signalled,
     Worker, shared, callerVars, workerVars, hostVars
<1>7. CASE StopJoin
  BY <1>7, CallerAssumption, LanesAssumption DEF AbstractVars, Inv,
     StopJoin, HostStep, TypeOK, MutexInv, HostInv, StampInv, AbstractTodo,
     AbstractBusy, AbstractThrew, ToDo, Evaluates, Signalled, Worker,
     shared, callerVars, workerVars, hostVars
<1>8. CASE Stopped
  BY <1>8, CallerAssumption, LanesAssumption DEF AbstractVars, Inv, Stopped,
     HostStep, TypeOK, MutexInv, HostInv, StampInv, AbstractTodo,
     AbstractBusy, AbstractThrew, ToDo, Evaluates, Signalled, Worker,
     shared, callerVars, workerVars, hostVars
<1>9. CASE ConstructFails
  BY <1>9, CallerAssumption, LanesAssumption DEF AbstractVars, Inv,
     ConstructFails, HostStep, Stop, TypeOK, MutexInv, HostInv, StampInv,
     AbstractTodo, AbstractBusy, AbstractThrew, ToDo, Evaluates, Signalled,
     Worker, shared, callerVars, workerVars, hostVars
<1>10. CASE Destroy
  BY <1>10, CallerAssumption, LanesAssumption DEF AbstractVars, Inv,
     Destroy, HostStep, Stop, TypeOK, MutexInv, HostInv, StampInv,
     AbstractTodo, AbstractBusy, AbstractThrew, ToDo, Evaluates, Signalled,
     Worker, shared, callerVars, workerVars, hostVars
<1> QED  BY <1>1, <1>2, <1>3, <1>4, <1>5, <1>6, <1>7, <1>8, <1>9, <1>10

\* The lanes a caller asks for are to do when it has the mutex.
LEMMA EnterOpens ==
  ASSUME Inv, NEW c \in Callers, NEW n \in 1 .. Lanes, Enter(c, n)
  PROVE  Transaction!Open(c, n)
<1>1. mutex = NoCaller /\ mutex' = c
  BY DEF Enter
<1>2. AbstractTodo' = 0 .. n - 1
  BY <1>1, CallerAssumption, LanesAssumption DEF Enter, CallerStep, Inv, TypeOK,
     AbstractTodo, ToDo, Signalled
<1>3. AbstractBusy' = {}
  <2>1. \A l \in Worker : wpc[l] # "run"
    BY <1>1 DEF Enter, Inv, HostInv, StampInv, DispatchInv, ToldToStop
  <2>2. \A k \in Callers : cpc'[k] # "lane0"
    BY <1>1, CallerAssumption DEF Enter, CallerStep, Inv, TypeOK, MutexInv
  <2> QED
    BY <2>1, <2>2, LanesAssumption DEF Enter, AbstractBusy, Evaluates, Worker, workerVars
<1>4. AbstractThrew' = FALSE
  BY <1>1, CallerAssumption DEF Enter, Inv, TypeOK, AbstractThrew
<1> QED  BY <1>1, <1>2, <1>3, <1>4 DEF Transaction!Open

\* The caller evaluates lane 0 once it has signalled every other lane.
LEMMA CallerLaneStarts ==
  ASSUME Inv, NEW c \in Callers, CallerLane(c)
  PROVE  Transaction!Start(0)
<1>1. mutex = c
  BY DEF CallerLane, CallerStep, Inv, MutexInv
<1>2. 0 \in AbstractTodo
  BY <1>1, CallerAssumption, LanesAssumption DEF CallerLane, CallerStep, Inv, TypeOK,
     AbstractTodo, ToDo
<1>3. AbstractTodo' = AbstractTodo \ {0}
  BY <1>1, CallerAssumption, LanesAssumption DEF CallerLane, CallerStep, Inv, TypeOK,
     AbstractTodo, ToDo, Signalled, shared, workerVars
<1>4. AbstractBusy' = AbstractBusy \cup {0}
  BY <1>1, LanesAssumption DEF CallerLane, CallerStep, Inv, TypeOK, MutexInv,
     AbstractBusy, Evaluates, workerVars
<1>5. UNCHANGED <<mutex, AbstractThrew>>
  BY DEF CallerLane, AbstractThrew, shared
<1> QED  BY <1>2, <1>3, <1>4, <1>5 DEF Transaction!Start

LEMMA CallerLaneFinishes ==
  ASSUME Inv, NEW c \in Callers, CallerLaneDone(c)
  PROVE  Transaction!Finish(0)
<1>1. mutex = c
  BY DEF CallerLaneDone, CallerStep, Inv, MutexInv
<1>2. 0 \in AbstractBusy
  BY LanesAssumption DEF CallerLaneDone, CallerStep, AbstractBusy, Evaluates
<1>3. AbstractBusy' = AbstractBusy \ {0}
  BY <1>1, LanesAssumption DEF CallerLaneDone, CallerStep, Inv, TypeOK, MutexInv,
     AbstractBusy, Evaluates, workerVars
<1>4. AbstractTodo' = AbstractTodo
  BY <1>1, CallerAssumption DEF CallerLaneDone, CallerStep, Inv, TypeOK,
     AbstractTodo, ToDo, Signalled, shared, workerVars
<1>5. UNCHANGED <<mutex, AbstractThrew>>
  BY DEF CallerLaneDone, AbstractThrew, shared
<1> QED  BY <1>2, <1>3, <1>4, <1>5 DEF Transaction!Finish

\* The continuation ends normally, which nobody sees, or it throws.
LEMMA ContinuationThrows ==
  ASSUME Inv, NEW c \in Callers, Continuation(c)
  PROVE  Transaction!Throw \/ UNCHANGED AbstractVars
<1>1. mutex = c /\ mutex' = c /\ c # NoCaller
  BY CallerAssumption DEF Continuation, CallerStep, Inv, MutexInv, shared
<1>2. UNCHANGED <<AbstractTodo, AbstractBusy>>
  <2>1. AbstractTodo' = AbstractTodo
    BY <1>1, CallerAssumption DEF Continuation, CallerStep, Inv, TypeOK,
       AbstractTodo, ToDo, Signalled, shared, workerVars
  <2>2. AbstractBusy' = AbstractBusy
    BY <1>1 DEF Continuation, CallerStep, Inv, TypeOK, MutexInv, AbstractBusy,
       Evaluates, workerVars
  <2> QED  BY <2>1, <2>2
<1>3. 0 \notin AbstractTodo \cup AbstractBusy
  BY <1>1 DEF Continuation, CallerStep, Inv, MutexInv, AbstractTodo, ToDo,
     AbstractBusy, Evaluates
<1>4. CASE threw'[c] = TRUE
  BY <1>1, <1>2, <1>3, <1>4 DEF Transaction!Throw, AbstractThrew
<1>5. CASE threw'[c] = FALSE
  <2>1. ~threw[c]
    BY DEF Continuation, CallerStep, Inv, LaneInv
  <2> QED  BY <1>1, <1>2, <1>5, <2>1 DEF AbstractVars, AbstractThrew
<1> QED  BY <1>1, <1>4, <1>5 DEF Continuation, Inv, TypeOK

\* A caller that leaves has joined every lane, so nothing is left of its
\* transaction.
LEMMA LeaveCloses ==
  ASSUME Inv, NEW c \in Callers, Leave(c)
  PROVE  Transaction!Close
<1>1. mutex = c /\ c # NoCaller /\ mutex' = NoCaller
  BY CallerAssumption DEF Leave, CallerStep, Inv, MutexInv
<1>2. \A l \in Worker : ~Outstanding(l)
  BY <1>1 DEF Leave, CallerStep, Inv, TypeOK, HostInv, DispatchInv, JoinedLane,
     ToldToStop, Worker
<1>3. AbstractTodo = {}
  BY <1>1, <1>2, LanesAssumption DEF Leave, CallerStep, AbstractTodo, ToDo,
     Signalled, Outstanding, Worker
<1>4. AbstractBusy = {}
  <2>1. \A l \in Worker : wpc[l] # "run"
    BY <1>2 DEF Inv, StampInv
  <2>2. \A k \in Callers : cpc[k] # "lane0"
    BY <1>1 DEF Leave, CallerStep, Inv, MutexInv
  <2> QED  BY <2>1, <2>2, LanesAssumption DEF AbstractBusy, Evaluates, Worker
<1>5. AbstractTodo' = {} /\ AbstractThrew' = FALSE
  BY <1>1 DEF AbstractTodo, AbstractThrew
<1>6. AbstractBusy' = {}
  BY <1>4, <1>1 DEF Leave, CallerStep, Inv, TypeOK, AbstractBusy, Evaluates, workerVars
<1> QED  BY <1>1, <1>3, <1>4, <1>5, <1>6 DEF Transaction!Close

\* A worker that takes a command before the pool stops has been asked for by
\* the open transaction and has not yet evaluated its lane.
LEMMA InvokeStarts ==
  ASSUME Inv, NEW l \in Worker, Invoke(l)
  PROVE  Transaction!Start(l)
<1>1. l \in 0 .. Lanes - 1 /\ l # 0
  BY LanesAssumption DEF Worker
<1>2. Outstanding(l) /\ ~ToldToStop(l)
  BY DEF Invoke, WorkerStep, Inv, StampInv, HostInv, ToldToStop
<1>3. l \in AbstractTodo
  BY <1>1, <1>2 DEF Invoke, WorkerStep, Inv, DispatchInv, AbstractTodo, ToDo, Outstanding
<1>4. AbstractTodo' = AbstractTodo \ {l}
  <2>1. mutex # NoCaller => Signalled(mutex, l)
    BY <1>2 DEF Inv, DispatchInv
  <2> QED
    BY <1>1, <2>1, LanesAssumption DEF Invoke, WorkerStep, Inv, TypeOK, AbstractTodo,
       ToDo, Signalled, Worker, shared, callerVars
<1>5. AbstractBusy' = AbstractBusy \cup {l}
  BY <1>1, LanesAssumption DEF Invoke, WorkerStep, Inv, TypeOK, AbstractBusy,
     Evaluates, Worker, callerVars
<1>6. UNCHANGED <<mutex, AbstractThrew>>
  BY DEF Invoke, AbstractThrew, shared, callerVars
<1> QED  BY <1>3, <1>4, <1>5, <1>6 DEF Transaction!Start

LEMMA InvokedFinishes ==
  ASSUME Inv, NEW l \in Worker, Invoked(l)
  PROVE  Transaction!Finish(l)
<1>1. l \in 0 .. Lanes - 1 /\ l # 0
  BY LanesAssumption DEF Worker
<1>2. l \in AbstractBusy
  BY <1>1 DEF Invoked, WorkerStep, AbstractBusy, Evaluates
<1>3. AbstractBusy' = AbstractBusy \ {l}
  BY <1>1, LanesAssumption DEF Invoked, WorkerStep, Inv, TypeOK, AbstractBusy,
     Evaluates, Worker, callerVars
<1>4. AbstractTodo' = AbstractTodo
  BY <1>1, LanesAssumption DEF Invoked, WorkerStep, Inv, TypeOK, AbstractTodo, ToDo,
     Signalled, Worker, shared, callerVars
<1>5. UNCHANGED <<mutex, AbstractThrew>>
  BY DEF Invoked, AbstractThrew, shared, callerVars
<1> QED  BY <1>2, <1>3, <1>4, <1>5 DEF Transaction!Finish

-----------------------------------------------------------------------------
LEMMA InitTransaction == Init => Transaction!Init
<1> SUFFICES ASSUME Init PROVE Transaction!Init
  OBVIOUS
<1>1. AbstractTodo = {} /\ AbstractThrew = FALSE
  BY DEF Init, AbstractTodo, AbstractThrew
<1>2. AbstractBusy = {}
  BY LanesAssumption DEF Init, AbstractBusy, Evaluates, Worker
<1> QED  BY <1>1, <1>2 DEF Init, Transaction!Init

LEMMA NextTransaction == Inv /\ [Next]_vars => [Transaction!Next]_AbstractVars
<1> SUFFICES ASSUME Inv, [Next]_vars PROVE Transaction!Next \/ UNCHANGED AbstractVars
  OBVIOUS
<1>0. Worker \subseteq 0 .. Lanes - 1 /\ 0 \in 0 .. Lanes - 1
  BY LanesAssumption DEF Worker
<1> USE DEF Transaction!Next, Transaction!Progress, Transaction!Lane
<1>1. CASE \E c \in Callers, n \in 1 .. Lanes : Enter(c, n)
  BY <1>1, EnterOpens
<1>2. ASSUME NEW c \in Callers, CallerNext(c) \/ SpuriousCaller(c)
      PROVE  Transaction!Next \/ UNCHANGED AbstractVars
  BY <1>0, <1>2, CallerStutters, CallerLaneStarts, CallerLaneFinishes,
     ContinuationThrows, LeaveCloses DEF CallerNext
<1>3. ASSUME NEW l \in Worker, WorkerNext(l) \/ SpuriousWorker(l)
      PROVE  Transaction!Next \/ UNCHANGED AbstractVars
  BY <1>0, <1>3, WorkerStutters, InvokeStarts, InvokedFinishes DEF WorkerNext
<1>4. CASE HostNext \/ ConstructFails \/ Destroy
  BY <1>4, HostStutters DEF HostNext
<1>5. CASE UNCHANGED vars
  BY <1>5 DEF vars, shared, callerVars, workerVars, hostVars, AbstractVars,
     AbstractTodo, AbstractBusy, AbstractThrew, ToDo, Evaluates, Signalled
<1> QED  BY <1>1, <1>2, <1>3, <1>4, <1>5 DEF Next, Terminated

\* The pool implements the safety part of the fork-join transaction, so every
\* lane a caller asks for is evaluated exactly once between its entering and
\* its leaving run, for any number of callers and lanes.
THEOREM ImplementsForkJoin == Spec => Transaction!Init /\ [][Transaction!Next]_AbstractVars
  BY InitTransaction, NextTransaction, Invariance, PTL DEF Spec
=============================================================================
