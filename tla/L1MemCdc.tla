------------------------------ MODULE L1MemCdc ------------------------------
(***************************************************************************)
(* L1MemFastToSlowCdc (tribe_cpu/cache/L1MemCdc.h): a one-entry mailbox     *)
(* that carries a level-held L1 memory request from clk to l2_clock and its *)
(* response back, each side telling the other by a toggle that passes a     *)
(* two-stage synchronizer.                                                  *)
(*                                                                          *)
(* An edge of a clock is the _work of that domain followed by its strobe;   *)
(* coincident edges are both _works followed by both strobes.  A request is *)
(* its identity, which stands for the operation, the address, the data, the *)
(* mask and the cacheability, and the memory's answer to it is the same     *)
(* identity.                                                                *)
(***************************************************************************)
EXTENDS Naturals

CONSTANTS
    Request,        \* identities of requests
    NoRequest       \* no request, and the cleared payload registers

ASSUME NoRequestAssumption == NoRequest \notin Request

VARIABLES
    want,               \* fast_in: the request held by the L1, or NoRequest
    l1Reset,            \* the reset input of both domains
    fastCleared, slowCleared,   \* history: edges seen by each domain in this reset
    payload_fast,       \* read_fast_reg, write_fast_reg, addr_fast_reg, ...
    request_fast, request_active_fast, request_orphaned_fast,
    response_fast1, response_fast2, response_ack_fast,
    read_data_fast,
    request_slow1, request_slow2, request_seen_slow, request_active_slow,
    payload_slow,       \* read_slow_reg, write_slow_reg, addr_slow_reg, ...
    read_data_slow, response_slow

fastRegs == <<payload_fast, request_fast, request_active_fast,
              request_orphaned_fast, response_fast1, response_fast2,
              response_ack_fast, read_data_fast>>
slowRegs == <<request_slow1, request_slow2, request_seen_slow,
              request_active_slow, payload_slow, read_data_slow, response_slow>>
l1ResetVars == <<l1Reset, fastCleared, slowCleared>>
l1MemVars == <<want, l1ResetVars, fastRegs, slowRegs>>

TypeOK ==
    /\ want \in Request \cup {NoRequest}
    /\ {l1Reset, fastCleared, slowCleared} \subseteq BOOLEAN
    /\ payload_fast \in Request \cup {NoRequest} /\ payload_slow \in Request \cup {NoRequest}
    /\ read_data_fast \in Request \cup {NoRequest} /\ read_data_slow \in Request \cup {NoRequest}
    /\ {request_fast, request_active_fast, request_orphaned_fast, response_fast1,
        response_fast2, response_ack_fast} \subseteq BOOLEAN
    /\ {request_slow1, request_slow2, request_seen_slow, request_active_slow,
        response_slow} \subseteq BOOLEAN

\* Power-up: reset has cleared both domains (clr() clears every register).
L1MemInit ==
    /\ want = NoRequest
    /\ l1Reset = FALSE /\ fastCleared = FALSE /\ slowCleared = FALSE
    /\ payload_fast = NoRequest /\ payload_slow = NoRequest
    /\ read_data_fast = NoRequest /\ read_data_slow = NoRequest
    /\ request_fast = FALSE /\ request_active_fast = FALSE
    /\ request_orphaned_fast = FALSE
    /\ response_fast1 = FALSE /\ response_fast2 = FALSE /\ response_ack_fast = FALSE
    /\ request_slow1 = FALSE /\ request_slow2 = FALSE
    /\ request_seen_slow = FALSE /\ request_active_slow = FALSE
    /\ response_slow = FALSE

-----------------------------------------------------------------------------
(* The fast domain. *)

request == want # NoRequest

ResponseVisible == request_active_fast /\ response_fast2 # response_ack_fast

\* fast_in.wait_out
wait_out == request /\ ~(ResponseVisible /\ ~request_orphaned_fast)

\* Mutant of FastClear: reset forgets one of the registers.
FastClearButActive ==
    /\ payload_fast' = NoRequest /\ read_data_fast' = NoRequest
    /\ request_fast' = FALSE
    /\ request_orphaned_fast' = FALSE
    /\ response_fast1' = FALSE /\ response_fast2' = FALSE
    /\ response_ack_fast' = FALSE
    /\ UNCHANGED request_active_fast

FastClear ==
    /\ payload_fast' = NoRequest /\ read_data_fast' = NoRequest
    /\ request_fast' = FALSE /\ request_active_fast' = FALSE
    /\ request_orphaned_fast' = FALSE
    /\ response_fast1' = FALSE /\ response_fast2' = FALSE
    /\ response_ack_fast' = FALSE

\* The synchronizer, and the capture of the data as the toggle advances.
FastSynchronize ==
    /\ response_fast1' = response_slow
    /\ response_fast2' = response_fast1
    /\ read_data_fast' =
          IF response_fast1 # response_fast2 THEN read_data_slow ELSE read_data_fast

Acknowledge ==
    /\ ResponseVisible
    /\ response_ack_fast' = response_fast2
    /\ request_active_fast' = FALSE
    /\ request_orphaned_fast' = FALSE
    /\ UNCHANGED <<payload_fast, request_fast>>

\* Mutant of Capture: a new request replaces the one under way.
CaptureOver ==
    /\ request
    /\ payload_fast' = want
    /\ request_fast' = ~request_fast
    /\ request_active_fast' = TRUE
    /\ request_orphaned_fast' = FALSE
    /\ UNCHANGED response_ack_fast

Capture ==
    /\ ~request_active_fast /\ request
    /\ payload_fast' = want
    /\ request_fast' = ~request_fast
    /\ request_active_fast' = TRUE
    /\ request_orphaned_fast' = FALSE
    /\ UNCHANGED response_ack_fast

\* Mutant of Orphan: a withdrawal is not remembered.
OrphanForgotten ==
    /\ request_active_fast /\ ~ResponseVisible /\ ~request
    /\ UNCHANGED <<payload_fast, request_fast, request_active_fast,
                   request_orphaned_fast, response_ack_fast>>

Orphan ==
    /\ request_active_fast /\ ~ResponseVisible /\ ~request
    /\ request_orphaned_fast' = TRUE
    /\ UNCHANGED <<payload_fast, request_fast, request_active_fast, response_ack_fast>>

FastIdle ==
    /\ ~ResponseVisible /\ (request_active_fast <=> request)
    /\ UNCHANGED <<payload_fast, request_fast, request_active_fast,
                   request_orphaned_fast, response_ack_fast>>

\* work_clk_func(reset)
FastWork ==
    IF l1Reset THEN FastClear
    ELSE FastSynchronize /\ (Acknowledge \/ Capture \/ Orphan \/ FastIdle)

\* The L1 holds its request until wait_out drops, may then present another one
\* at once, and may withdraw a request (a flush) for at least one cycle.  It
\* gives a request an identity that no part of the mailbox still carries.
Fresh == Request \ {want, payload_fast, payload_slow, read_data_fast, read_data_slow}

Requester ==
    want' \in IF l1Reset THEN {NoRequest}
              ELSE IF request /\ wait_out THEN {want, NoRequest}
              ELSE Fresh \cup {NoRequest}

-----------------------------------------------------------------------------
(* The slow domain. *)

SlowClear ==
    /\ request_slow1' = FALSE /\ request_slow2' = FALSE
    /\ request_seen_slow' = FALSE /\ request_active_slow' = FALSE
    /\ payload_slow' = NoRequest /\ read_data_slow' = NoRequest
    /\ response_slow' = FALSE

SlowSynchronize ==
    /\ request_slow1' = request_fast
    /\ request_slow2' = request_slow1

\* Mutant of TakeRequest: the toggle is captured in place of the bundle.
TakeToggle ==
    /\ ~request_active_slow /\ request_slow2 # request_seen_slow
    /\ request_seen_slow' = request_slow2
    /\ payload_slow' = request_fast
    /\ request_active_slow' = TRUE
    /\ UNCHANGED <<read_data_slow, response_slow>>

\* Mutant of TakeRequest: the toggle is not recorded, so the request is new again.
TakeUnseen ==
    /\ ~request_active_slow /\ request_slow2 # request_seen_slow
    /\ payload_slow' = payload_fast
    /\ request_active_slow' = TRUE
    /\ UNCHANGED <<request_seen_slow, read_data_slow, response_slow>>

TakeRequest ==
    /\ ~request_active_slow /\ request_slow2 # request_seen_slow
    /\ request_seen_slow' = request_slow2
    /\ payload_slow' = payload_fast
    /\ request_active_slow' = TRUE
    /\ UNCHANGED <<read_data_slow, response_slow>>

\* The L2 completes the request it has been shown: slow_out.wait_out is low.
CompleteRequest ==
    /\ request_active_slow
    /\ read_data_slow' = payload_slow
    /\ response_slow' = ~response_slow
    /\ request_active_slow' = FALSE
    /\ UNCHANGED <<request_seen_slow, payload_slow>>

SlowIdle ==
    UNCHANGED <<request_seen_slow, request_active_slow, payload_slow,
                read_data_slow, response_slow>>

\* _work_l2_clock(reset), with slow_out.wait_out() the negation of ready.
SlowWork(ready) ==
    IF l1Reset THEN SlowClear
    ELSE /\ SlowSynchronize
         /\ \/ TakeRequest
            \/ ready /\ CompleteRequest
            \/ /\ ~(~request_active_slow /\ request_slow2 # request_seen_slow)
               /\ ~(request_active_slow /\ ready)
               /\ SlowIdle

-----------------------------------------------------------------------------
(* Clock edges and reset. *)

FastEdge ==
    /\ FastWork /\ Requester
    /\ fastCleared' = l1Reset
    /\ UNCHANGED <<l1Reset, slowCleared, slowRegs>>

SlowEdge(ready) ==
    /\ SlowWork(ready)
    /\ slowCleared' = l1Reset
    /\ UNCHANGED <<l1Reset, fastCleared, want, fastRegs>>

CoincidentL1Edge(ready) ==
    /\ FastWork /\ Requester /\ SlowWork(ready)
    /\ fastCleared' = l1Reset /\ slowCleared' = l1Reset
    /\ UNCHANGED l1Reset

\* Reset may come at any time; it stays until each domain has had an edge.
RaiseL1Reset ==
    /\ ~l1Reset
    /\ l1Reset' = TRUE
    /\ fastCleared' = FALSE /\ slowCleared' = FALSE
    /\ UNCHANGED <<want, fastRegs, slowRegs>>

LowerL1Reset ==
    /\ l1Reset /\ fastCleared /\ slowCleared
    /\ l1Reset' = FALSE
    /\ fastCleared' = FALSE /\ slowCleared' = FALSE
    /\ UNCHANGED <<want, fastRegs, slowRegs>>

L1MemNext ==
    \/ FastEdge
    \/ \E ready \in BOOLEAN : SlowEdge(ready) \/ CoincidentL1Edge(ready)
    \/ RaiseL1Reset \/ LowerL1Reset

(***************************************************************************)
(* Both clocks run, the L2 does not refuse its request for ever, and reset  *)
(* is released.  An edge is asked for only where the registers of its       *)
(* domain would move, so that fairness never makes the L1 withdraw.         *)
(***************************************************************************)
L1MemFairness ==
    /\ WF_<<fastRegs, fastCleared>>(FastEdge \/ \E ready \in BOOLEAN : CoincidentL1Edge(ready))
    /\ WF_<<slowRegs, slowCleared>>(SlowEdge(TRUE) \/ CoincidentL1Edge(TRUE))
    /\ WF_l1MemVars(LowerL1Reset)

L1MemSpec == L1MemInit /\ [][L1MemNext]_l1MemVars /\ L1MemFairness

-----------------------------------------------------------------------------
(* Properties. *)

\* The L1 sees its request completed only with the answer to that request:
\* never with the answer to one it withdrew, and never before the data.
OwnResponse ==
    ~l1Reset /\ request /\ ~wait_out => read_data_fast = want /\ payload_fast = want

\* A bundle of data is sampled by the other domain only while it is stable:
\* the edge that captures it is never an edge on which its source changes.
BundleStable ==
    [][/\ payload_slow' # payload_slow /\ ~l1Reset => payload_fast' = payload_fast
       /\ read_data_fast' # read_data_fast /\ ~l1Reset => read_data_slow' = read_data_slow
      ]_l1MemVars

\* A request that the L1 holds is answered: the mailbox always comes back for it,
\* after an answered, an orphaned or a reset predecessor.
HeldRequestEnds == []<>(~request) \/ []<><<want' # want>>_want

\* The mailbox implements a memory port with one request outstanding.  Under
\* reset, no request is.
Outstanding == ~l1Reset /\ request_active_fast

Want == IF l1Reset THEN NoRequest ELSE want

L1Owed ==
    IF Outstanding /\ response_slow = response_ack_fast THEN payload_fast ELSE NoRequest

L1Answer ==
    IF Outstanding /\ response_slow # response_ack_fast THEN read_data_slow ELSE NoRequest

L1Channel == INSTANCE MemChannel WITH
    None <- NoRequest, want <- Want, owed <- L1Owed, answer <- L1Answer

\* Each request that crosses is performed once by the L2, and its answer reaches
\* the L1 that still holds it or nobody.
ChannelSpec == L1Channel!Spec
=============================================================================
