------------------------------ MODULE Axi4Cdc -------------------------------
(***************************************************************************)
(* One path of an AXI bridge (tribe_cpu/common/Axi4Cdc.h) between a master  *)
(* and a responder: the write path of AW, W and B, or the read path of AR   *)
(* and R.  The paths of a bridge share no register.  Axi4FastToSlowCdc      *)
(* gates its address channels, Axi4SlowToFastCdc does not; behind the       *)
(* latter are the memories or, through Axi4RegionMux, the devices.          *)
(*                                                                          *)
(* A transaction is its address and id.  The data beat of a write and the   *)
(* response to it are the same identity, so that a beat that met another's  *)
(* address would be seen.                                                   *)
(***************************************************************************)
EXTENDS ToggleMailbox, Axi4RegionMux

CONSTANT Modes  \* the paths that are checked: gated by Axi4FastToSlowCdc, with data a write's,
                \* muxed in front of the devices

ASSUME ModeAssumption ==
    /\ Modes \subseteq [gated : BOOLEAN, data : BOOLEAN, muxed : BOOLEAN]
    /\ Beat \subseteq Nat /\ None \notin Int

VARIABLES
    mode,                   \* the path: one of Modes
    phase, job, shown,      \* master: where it is, its transaction, the address it drives
    outstanding, seen,      \* write_outstanding_fast_reg, aw_seen_fast_reg; same for reads
    src, dst,               \* the mailboxes
    mux,                    \* registers of the multiplexer
    addr, data, answer,     \* each target: address and data it holds, its response
    reset, masterCleared, responderCleared

Gated == mode.gated
HasData == mode.data

\* The channels whose source is the master's side, and the one back.
Outward == {"address"} \cup IF HasData THEN {"data"} ELSE {}
Channel == Outward \cup {"response"}
Nothing == [t \in Target |-> None]

masterVars == <<phase, job, shown>>
responderVars == <<mux, addr, data, answer>>
resetVars == <<reset, masterCleared, responderCleared>>
vars == <<mode, masterVars, outstanding, seen, src, dst, responderVars, resetVars>>

Init ==
    /\ mode \in Modes
    /\ phase = "idle" /\ job = None /\ shown = None
    /\ outstanding = FALSE /\ seen = FALSE
    /\ src = [c \in Channel |-> ClearedSource]
    /\ dst = [c \in Channel |-> ClearedDestination]
    /\ mux = MuxCleared
    /\ addr = Nothing /\ data = Nothing /\ answer = Nothing
    /\ reset = FALSE /\ masterCleared = FALSE /\ responderCleared = FALSE

-----------------------------------------------------------------------------
(* Handshakes on the master's side. *)

\* Mutant of AddressReady: an address that was accepted is accepted again.
AddressReadyAgain ==
    /\ Ready(src["address"])
    /\ Gated => ~outstanding

\* awready_out, arready_out
AddressReady ==
    /\ Ready(src["address"])
    /\ Gated => ~outstanding /\ ~(seen /\ shown = src["address"].payload)

AddressAccepted == shown # None /\ AddressReady
DataAccepted == HasData /\ phase = "data" /\ Ready(src["data"])
ResponseTaken == phase = "response" /\ Valid(dst["response"])

\* What a target sees of the address channel, and whether the others are its own;
\* without the multiplexer there is one target.
Offered(t) ==
    /\ Valid(dst["address"])
    /\ IF mode.muxed THEN OffersTo(mux, src["address"].payload, t) ELSE t = 1
Routed(t) == IF mode.muxed THEN RoutedTo(mux, t) ELSE t = 1

\* Handshakes on the responder's side.  A target takes an address when it has no
\* transaction, a data beat with its address or after it, and answers then.
AddressTaken(t, willing) == willing /\ addr[t] = None /\ answer[t] = None /\ Offered(t)

DataTaken(t, willing) ==
    /\ HasData /\ willing /\ Routed(t) /\ data[t] = None /\ Valid(dst["data"])
    /\ mode.muxed \/ addr[t] # None \/ AddressTaken(t, willing)

Answered(t) == answer[t] # None /\ Routed(t) /\ Ready(src["response"])

\* Mutant of Leaving: a data beat is not acknowledged.
LeavingData(channel, willing) ==
    CASE channel = "address" -> \E t \in Target : AddressTaken(t, willing)
      [] channel = "data" -> FALSE
      [] channel = "response" -> ResponseTaken

\* The beat that enters a mailbox on an edge, and whether one leaves it.
Entering(channel) ==
    CASE channel = "address" /\ AddressAccepted -> shown
      [] channel = "data" /\ DataAccepted -> job
      [] channel = "response" /\ \E t \in Target : Answered(t) ->
            LET t == CHOOSE t \in Target : Answered(t) IN Global(t, answer[t])
      [] OTHER -> None

Leaving(channel, willing) ==
    CASE channel = "address" -> \E t \in Target : AddressTaken(t, willing)
      [] channel = "data" -> \E t \in Target : DataTaken(t, willing)
      [] channel = "response" -> ResponseTaken

\* The mailboxes on an edge of the master's clock, the responder's, or both.
Mailboxes(master, responder, willing) ==
    /\ src' = [c \in Channel |->
                 IF ~(IF c \in Outward THEN master ELSE responder) THEN src[c]
                 ELSE IF reset THEN ClearedSource
                 ELSE SourceEdge(src[c], dst[c], Entering(c))]
    /\ dst' = [c \in Channel |->
                 IF ~(IF c \in Outward THEN responder ELSE master) THEN dst[c]
                 ELSE IF reset THEN ClearedDestination
                 ELSE DestinationEdge(src[c], dst[c], Leaving(c, willing))]

\* Mutant of Gate: the address stays seen when the master drops it.
GateShut ==
    /\ outstanding' = (Gated /\ ~reset /\ ~ResponseTaken /\ (outstanding \/ AddressAccepted))
    /\ seen' = (Gated /\ ~reset /\ (seen \/ AddressAccepted))

\* write_outstanding_fast_reg and aw_seen_fast_reg, or those of the read path.
Gate ==
    /\ outstanding' = (Gated /\ ~reset /\ ~ResponseTaken /\ (outstanding \/ AddressAccepted))
    /\ seen' = (Gated /\ ~reset /\ shown # None /\ (seen \/ AddressAccepted))

-----------------------------------------------------------------------------
(* The master and the targets. *)

\* Behind the gate a master may drive its address on, unchanged, to the
\* response and beyond; without it, it drops an address that is accepted.
KeepOrDrop == shown' \in IF Gated THEN {shown, None} ELSE {None}

Rest == phase' = "idle" /\ job' = None /\ KeepOrDrop

\* A new transaction shows another address than the edge before.
StartJob ==
    /\ phase' = "address"
    /\ job' \in Beat \ {shown, job}
    /\ shown' = job'

Master ==
    CASE reset -> phase' = "idle" /\ job' = None /\ shown' = None
      [] ~reset /\ (phase = "idle" \/ ResponseTaken) -> Rest \/ StartJob
      [] ~reset /\ phase = "address" /\ AddressAccepted ->
            /\ phase' = IF HasData THEN "data" ELSE "response"
            /\ KeepOrDrop
            /\ UNCHANGED job
      [] ~reset /\ DataAccepted -> phase' = "response" /\ KeepOrDrop /\ UNCHANGED job
      [] ~reset /\ phase \in {"data", "response"} /\ ~DataAccepted /\ ~ResponseTaken ->
            KeepOrDrop /\ UNCHANGED <<phase, job>>
      [] OTHER -> UNCHANGED masterVars

\* A target performs the operation when it has what it needs for it.
Perform(t, willing) == willing /\ addr[t] # None /\ (HasData => data[t] # None)

Multiplexer(willing) ==
    mux' = IF reset \/ ~mode.muxed THEN MuxCleared
           ELSE MuxEdge(mux, src["address"].payload,
                        \E t \in Target : AddressTaken(t, willing), \E t \in Target : Answered(t))

Responder(willing) ==
    /\ Multiplexer(willing)
    /\ IF reset THEN addr' = Nothing /\ data' = Nothing /\ answer' = Nothing
       ELSE /\ addr' = [t \in Target |->
                 IF AddressTaken(t, willing) THEN Local(t, src["address"].payload)
                 ELSE IF Perform(t, willing) THEN None ELSE addr[t]]
            /\ data' = [t \in Target |->
                 IF DataTaken(t, willing) THEN src["data"].payload
                 ELSE IF Perform(t, willing) THEN None ELSE data[t]]
            /\ answer' = [t \in Target |->
                 IF Perform(t, willing) THEN addr[t]
                 ELSE IF Answered(t) THEN None ELSE answer[t]]

-----------------------------------------------------------------------------
(* Clock edges and reset. *)

MasterClock ==
    /\ Mailboxes(TRUE, FALSE, FALSE) /\ Gate /\ Master
    /\ masterCleared' = reset
    /\ UNCHANGED <<responderVars, reset, responderCleared>>

ResponderClock(willing) ==
    /\ Mailboxes(FALSE, TRUE, willing) /\ Responder(willing)
    /\ responderCleared' = reset
    /\ UNCHANGED <<masterVars, outstanding, seen, reset, masterCleared>>

BothClocks(willing) ==
    /\ Mailboxes(TRUE, TRUE, willing) /\ Gate /\ Master /\ Responder(willing)
    /\ masterCleared' = reset /\ responderCleared' = reset
    /\ UNCHANGED reset

RaiseReset ==
    /\ ~reset
    /\ reset' = TRUE
    /\ masterCleared' = FALSE /\ responderCleared' = FALSE
    /\ UNCHANGED <<masterVars, outstanding, seen, src, dst, responderVars>>

LowerReset ==
    /\ reset /\ masterCleared /\ responderCleared
    /\ reset' = FALSE
    /\ masterCleared' = FALSE /\ responderCleared' = FALSE
    /\ UNCHANGED <<masterVars, outstanding, seen, src, dst, responderVars>>

Next ==
    /\ UNCHANGED mode
    /\ \/ MasterClock
       \/ \E willing \in BOOLEAN : ResponderClock(willing) \/ BothClocks(willing)
       \/ RaiseReset \/ LowerReset

(***************************************************************************)
(* Both clocks run and the responder is willing again and again.  An edge   *)
(* is asked for only where registers of the bridge would move, so that the  *)
(* master is not made to start, nor to drop an address it keeps driving.    *)
(***************************************************************************)
bridgeVars == <<src, dst, outstanding, seen>>

Fairness ==
    /\ WF_<<bridgeVars, masterCleared>>
         (UNCHANGED mode /\ (MasterClock \/ \E w \in BOOLEAN : BothClocks(w)))
    /\ WF_<<bridgeVars, responderVars, responderCleared>>
         (UNCHANGED mode /\ (ResponderClock(TRUE) \/ BothClocks(TRUE)))
    /\ WF_resetVars(UNCHANGED mode /\ LowerReset)

Spec == Init /\ [][Next]_vars /\ Fairness

-----------------------------------------------------------------------------
(* Properties. *)

\* The data beat that a target joins with an address is the one its master sent
\* with it, although the two crossed separately and the data may be at the
\* multiplexer first; and no other target has it.
DataMeetsAddress ==
    \A t \in Target : data[t] # None => addr[t] # None /\ data[t] = Global(t, addr[t])

\* The path is a memory port with one transaction outstanding: each one is
\* performed once, whatever the master does with its address meanwhile, and
\* answered to the master that waits for it.
Full(channel) == src[channel].request # dst[channel].ack

\* Of several transactions that were under way at once, one that is not the master's.
Of(places) ==
    IF places = {} THEN None ELSE CHOOSE b \in places : places = {b} \/ b # job

Held(place) == {Global(t, place[t]) : t \in {u \in Target : place[u] # None}}

Owed == Of(Held(addr) \cup IF Full("address") THEN {src["address"].payload} ELSE {})
Answer == Of(Held(answer) \cup IF Full("response") THEN {src["response"].payload} ELSE {})

Port == INSTANCE MemChannel WITH
    Request <- Beat,
    want <- IF reset THEN None ELSE job,
    owed <- IF reset THEN None ELSE Owed,
    answer <- IF reset THEN None ELSE Answer

PortSpec == Port!Spec

\* A transaction that is started ends, behind the gate also when the one before
\* it had the same address.
JobEnds == []<>(job = None) \/ []<><<job' # job>>_job
=============================================================================
