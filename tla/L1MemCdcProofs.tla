--------------------------- MODULE L1MemCdcProofs ---------------------------
(***************************************************************************)
(* Proofs about the L1 memory mailbox for any set of requests.              *)
(***************************************************************************)
EXTENDS L1MemCdc, TLAPS

FastIsClear ==
    /\ payload_fast = NoRequest /\ read_data_fast = NoRequest
    /\ request_fast = FALSE /\ request_active_fast = FALSE
    /\ request_orphaned_fast = FALSE
    /\ response_fast1 = FALSE /\ response_fast2 = FALSE
    /\ response_ack_fast = FALSE

SlowIsClear ==
    /\ request_slow1 = FALSE /\ request_slow2 = FALSE
    /\ request_seen_slow = FALSE /\ request_active_slow = FALSE
    /\ payload_slow = NoRequest /\ read_data_slow = NoRequest
    /\ response_slow = FALSE

\* Reset has cleared each domain that has had an edge in it.
ResetInv ==
    /\ l1Reset /\ fastCleared => FastIsClear /\ want = NoRequest
    /\ l1Reset /\ slowCleared => SlowIsClear
    /\ ~l1Reset => ~fastCleared /\ ~slowCleared

\* Between requests every toggle is where the last acknowledgement left it.
Quiet ==
    /\ request_fast = response_ack_fast
    /\ request_slow1 = request_fast
    /\ request_slow2 = request_fast
    /\ request_seen_slow = request_fast
    /\ response_slow = request_fast
    /\ response_fast1 = request_fast
    /\ response_fast2 = request_fast
    /\ ~request_active_slow

\* During a request each toggle is at its old or at its new place, and none is
\* ahead of the one it follows: request, its two synchronizers, the slow side's
\* taking it, its response, the two synchronizers of the response.
InFlight ==
    /\ request_fast # response_ack_fast
    /\ request_slow2 = request_fast => request_slow1 = request_fast
    /\ request_seen_slow = request_fast => request_slow2 = request_fast
    /\ response_slow = request_fast => request_seen_slow = request_fast
    /\ response_fast1 = request_fast => response_slow = request_fast
    /\ response_fast2 = request_fast => response_fast1 = request_fast
    /\ request_active_slow <=>
          request_seen_slow = request_fast /\ response_slow # request_fast

\* The payload follows the toggles.
PayloadInv ==
    /\ payload_fast \in Request
    /\ request_active_slow => payload_slow = payload_fast
    /\ response_slow = request_fast => read_data_slow = payload_fast
    /\ response_fast2 = request_fast => read_data_fast = payload_fast
    /\ ~request_orphaned_fast => want \in {payload_fast, NoRequest}
    /\ request_orphaned_fast => want # payload_fast

ToggleInv ==
    ~l1Reset => IF request_active_fast THEN InFlight /\ PayloadInv ELSE Quiet

Inv == TypeOK /\ ResetInv /\ ToggleInv

-----------------------------------------------------------------------------
(* An edge is a move of one domain, of the other, or of both.               *)

FastMove == FastWork /\ Requester
SlowMove == \E ready \in BOOLEAN : SlowWork(ready)

Edge ==
    /\ FastMove \/ UNCHANGED <<want, fastRegs>>
    /\ SlowMove \/ UNCHANGED slowRegs
    /\ UNCHANGED l1Reset

\* How an edge marks the domains that have had one in this reset.
Marked ==
    /\ {fastCleared', slowCleared'} \subseteq BOOLEAN
    /\ \/ fastCleared' = l1Reset /\ FastMove
       \/ fastCleared' = fastCleared /\ UNCHANGED <<want, fastRegs>>
    /\ \/ slowCleared' = l1Reset /\ SlowMove
       \/ slowCleared' = slowCleared /\ UNCHANGED slowRegs

LEMMA TypeKept ==
  ASSUME TypeOK, Edge, Marked
  PROVE  TypeOK'
<1>1. want' \in Request \cup {NoRequest}
  BY DEF Edge, FastMove, Requester, TypeOK, Fresh
<1>2. /\ payload_fast' \in Request \cup {NoRequest} /\ read_data_fast' \in Request \cup {NoRequest}
      /\ {request_fast', request_active_fast', request_orphaned_fast', response_fast1',
          response_fast2', response_ack_fast'} \subseteq BOOLEAN
  BY DEF Edge, FastMove, FastWork, FastClear, FastSynchronize, Acknowledge, Capture,
     Orphan, FastIdle, TypeOK, fastRegs
<1>3. /\ payload_slow' \in Request \cup {NoRequest} /\ read_data_slow' \in Request \cup {NoRequest}
      /\ {request_slow1', request_slow2', request_seen_slow', request_active_slow',
          response_slow'} \subseteq BOOLEAN
  BY DEF Edge, SlowMove, SlowWork, SlowClear, SlowSynchronize, TakeRequest,
     CompleteRequest, SlowIdle, TypeOK, slowRegs
<1> QED  BY <1>1, <1>2, <1>3 DEF Edge, Marked, TypeOK

LEMMA ToggleKept ==
  ASSUME TypeOK, ToggleInv, Edge, ~l1Reset
  PROVE  ToggleInv'
<1> USE DEF ToggleInv, Edge, TypeOK, Quiet, InFlight, PayloadInv, FastSynchronize,
        SlowSynchronize, request, ResponseVisible, fastRegs, slowRegs
<1>1. SUFFICES ASSUME NEW ready \in BOOLEAN, SlowWork(ready) \/ UNCHANGED slowRegs
      PROVE  ToggleInv'
  BY DEF SlowMove
<1>2. CASE UNCHANGED <<want, fastRegs>>
  BY <1>1, <1>2 DEF SlowWork, TakeRequest, CompleteRequest, SlowIdle
<1>3. CASE FastMove /\ Acknowledge
  BY <1>1, <1>3 DEF FastMove, FastWork, Acknowledge, SlowWork, TakeRequest, CompleteRequest,
     SlowIdle
<1>4. CASE FastMove /\ Capture
  BY <1>1, <1>4 DEF FastMove, FastWork, Capture, SlowWork, TakeRequest, CompleteRequest, SlowIdle,
     Requester, wait_out
<1>5. CASE FastMove /\ Orphan
  BY <1>1, <1>5, NoRequestAssumption DEF FastMove, FastWork, Orphan, SlowWork, TakeRequest,
     CompleteRequest,
     SlowIdle, Requester, Fresh
<1>6. CASE FastMove /\ FastIdle
  BY <1>1, <1>6, NoRequestAssumption DEF FastMove, FastWork, FastIdle, SlowWork, TakeRequest,
     CompleteRequest,
     SlowIdle, Requester, wait_out, Fresh
<1> QED  BY <1>2, <1>3, <1>4, <1>5, <1>6 DEF FastMove, FastWork

LEMMA ResetKept ==
  ASSUME TypeOK, ResetInv, Edge, Marked
  PROVE  ResetInv'
<1>1. CASE ~l1Reset
  BY <1>1 DEF ResetInv, Edge, Marked, TypeOK
<1>2. CASE l1Reset
  <2>1. ASSUME fastCleared' PROVE FastIsClear' /\ want' = NoRequest
    <3>1. CASE FastMove
      BY <1>2, <3>1 DEF FastMove, FastWork, FastClear, Requester, FastIsClear
    <3>2. CASE fastCleared' = fastCleared /\ UNCHANGED <<want, fastRegs>>
      BY <1>2, <2>1, <3>2 DEF ResetInv, FastIsClear, fastRegs
    <3> QED  BY <3>1, <3>2 DEF Marked
  <2>2. ASSUME slowCleared' PROVE SlowIsClear'
    <3>1. CASE SlowMove
      BY <1>2, <3>1 DEF SlowMove, SlowWork, SlowClear, SlowIsClear
    <3>2. CASE slowCleared' = slowCleared /\ UNCHANGED slowRegs
      BY <1>2, <2>2, <3>2 DEF ResetInv, SlowIsClear, slowRegs
    <3> QED  BY <3>1, <3>2 DEF Marked
  <2> QED  BY <1>2, <2>1, <2>2 DEF ResetInv, Edge
<1> QED  BY <1>1, <1>2

LEMMA EdgeKeeps ==
  ASSUME Inv, Edge, Marked
  PROVE  Inv'
<1>1. TypeOK'   BY TypeKept DEF Inv
<1>2. ResetInv' BY ResetKept DEF Inv
<1>3. ToggleInv'
  <2>1. CASE l1Reset   BY <2>1 DEF Edge, ToggleInv
  <2>2. CASE ~l1Reset  BY <2>2, ToggleKept DEF Inv
  <2> QED  BY <2>1, <2>2
<1> QED  BY <1>1, <1>2, <1>3 DEF Inv

LEMMA RaiseKeeps ==
  ASSUME Inv, RaiseL1Reset
  PROVE  Inv'
BY DEF Inv, TypeOK, ResetInv, ToggleInv, RaiseL1Reset, fastRegs, slowRegs

\* Reset ends only after both domains are clear, and clear domains are quiet.
LEMMA LowerKeeps ==
  ASSUME Inv, LowerL1Reset
  PROVE  Inv'
<1>1. FastIsClear /\ SlowIsClear  BY DEF Inv, ResetInv, LowerL1Reset
<1>2. TypeOK'                     BY DEF Inv, TypeOK, LowerL1Reset, fastRegs, slowRegs
<1>3. ResetInv'                   BY DEF ResetInv, LowerL1Reset
<1>4. ToggleInv'
  BY <1>1 DEF ToggleInv, Quiet, FastIsClear, SlowIsClear, LowerL1Reset, fastRegs, slowRegs
<1> QED  BY <1>2, <1>3, <1>4 DEF Inv

LEMMA InitInv ==
  ASSUME L1MemInit
  PROVE  Inv
BY DEF L1MemInit, Inv, TypeOK, ResetInv, ToggleInv, Quiet

\* A step of the mailbox that is not a reset step is an edge.
LEMMA StepIsEdge ==
  ASSUME Inv, [L1MemNext]_l1MemVars, ~RaiseL1Reset, ~LowerL1Reset
  PROVE  Edge /\ Marked
<1> USE DEF Edge, Marked, Inv, TypeOK
<1>1. CASE FastEdge
  BY <1>1 DEF FastEdge, FastMove
<1>2. ASSUME NEW ready \in BOOLEAN, SlowEdge(ready)
      PROVE  Edge /\ Marked
  BY <1>2 DEF SlowEdge, SlowMove
<1>3. ASSUME NEW ready \in BOOLEAN, CoincidentL1Edge(ready)
      PROVE  Edge /\ Marked
  BY <1>3 DEF CoincidentL1Edge, SlowMove, FastMove
<1>4. CASE UNCHANGED l1MemVars
  BY <1>4 DEF l1MemVars, l1ResetVars
<1> QED  BY <1>1, <1>2, <1>3, <1>4 DEF L1MemNext

LEMMA StepKeeps ==
  ASSUME Inv, [L1MemNext]_l1MemVars
  PROVE  Inv'
<1>1. CASE RaiseL1Reset  BY <1>1, RaiseKeeps
<1>2. CASE LowerL1Reset  BY <1>2, LowerKeeps
<1>3. CASE ~RaiseL1Reset /\ ~LowerL1Reset
  BY <1>3, StepIsEdge, EdgeKeeps
<1> QED  BY <1>1, <1>2, <1>3

\* The inductive invariant of the mailbox.
THEOREM Invariance == L1MemSpec => []Inv
<1>1. L1MemInit => Inv                BY InitInv
<1>2. Inv /\ [L1MemNext]_l1MemVars => Inv' BY StepKeeps
<1> QED  BY <1>1, <1>2, PTL DEF L1MemSpec

\* Every register stays in its type, whatever the clocks and reset do.
THEOREM TypeCorrect == L1MemSpec => []TypeOK
<1>1. Inv => TypeOK  BY DEF Inv
<1> QED  BY <1>1, Invariance, PTL

\* The L1 is completed only with the answer to the request it holds.
THEOREM OwnResponseHolds == L1MemSpec => []OwnResponse
<1>1. Inv => OwnResponse
  BY DEF Inv, TypeOK, ToggleInv, InFlight, PayloadInv, OwnResponse, wait_out,
     ResponseVisible, request
<1> QED  BY <1>1, Invariance, PTL

-----------------------------------------------------------------------------
(* What a clock edge may sample from the other domain.                      *)

\* The slow side takes a payload only while the fast side cannot replace it.
LEMMA PayloadSampledStable ==
  ASSUME Inv, Edge, ~l1Reset, payload_slow' # payload_slow
  PROVE  payload_fast' = payload_fast
<1> USE DEF TypeOK, fastRegs, slowRegs
<1>1. ~request_active_slow /\ request_slow2 # request_seen_slow
  BY DEF Edge, SlowMove, SlowWork, TakeRequest, CompleteRequest, SlowIdle
<1>2. request_active_fast
  BY <1>1 DEF Inv, ToggleInv, Quiet
<1>3. response_fast2 = response_ack_fast
  BY <1>1, <1>2 DEF Inv, ToggleInv, InFlight
<1> QED
  BY <1>2, <1>3 DEF Edge, FastMove, FastWork, Acknowledge, Capture, Orphan, FastIdle,
     ResponseVisible

\* The fast side takes an answer only while the slow side cannot replace it.
LEMMA AnswerSampledStable ==
  ASSUME Inv, Edge, ~l1Reset, read_data_fast' # read_data_fast
  PROVE  read_data_slow' = read_data_slow
<1> USE DEF TypeOK, fastRegs, slowRegs
<1>1. response_fast1 # response_fast2
  BY DEF Edge, FastMove, FastWork, FastSynchronize
<1>2. request_active_fast
  BY <1>1 DEF Inv, ToggleInv, Quiet
<1>3. ~request_active_slow
  BY <1>1, <1>2 DEF Inv, ToggleInv, InFlight
<1> QED
  BY <1>3 DEF Edge, SlowMove, SlowWork, TakeRequest, CompleteRequest, SlowIdle

\* No edge captures a bundle of data while its source changes.
THEOREM BundleStableHolds == L1MemSpec => BundleStable
<1>1. ASSUME Inv, [L1MemNext]_l1MemVars
      PROVE  [/\ payload_slow' # payload_slow /\ ~l1Reset => payload_fast' = payload_fast
              /\ read_data_fast' # read_data_fast /\ ~l1Reset => read_data_slow' = read_data_slow
             ]_l1MemVars
  <2>1. CASE RaiseL1Reset  BY <2>1 DEF RaiseL1Reset, fastRegs, slowRegs
  <2>2. CASE LowerL1Reset  BY <2>2 DEF LowerL1Reset, fastRegs, slowRegs
  <2>3. CASE ~RaiseL1Reset /\ ~LowerL1Reset
    BY <1>1, <2>3, StepIsEdge, PayloadSampledStable, AnswerSampledStable
  <2> QED  BY <2>1, <2>2, <2>3
<1> QED  BY <1>1, Invariance, PTL DEF L1MemSpec, BundleStable

-----------------------------------------------------------------------------
(* The mailbox is a memory port with one request outstanding.               *)

\* The port's owed request and outstanding answer, in the terms of ToggleInv.
LEMMA PortState ==
  ASSUME Inv, ~l1Reset
  PROVE  /\ ~request_active_fast => L1Owed = NoRequest /\ L1Answer = NoRequest
         /\ request_active_fast /\ response_slow # request_fast =>
               L1Owed = payload_fast /\ L1Answer = NoRequest
         /\ request_active_fast /\ response_slow = request_fast =>
               L1Owed = NoRequest /\ L1Answer = payload_fast
BY DEF Inv, TypeOK, ToggleInv, InFlight, PayloadInv, L1Owed, L1Answer, Outstanding

Port == <<Want, L1Owed, L1Answer>>

LEMMA CaptureLaunches ==
  ASSUME Inv, Inv', Edge, ~l1Reset, FastMove, Capture
  PROVE  L1Channel!Next
<1>1. /\ ~request_active_fast /\ request_active_fast'
      /\ want # NoRequest /\ payload_fast' = want /\ want' \in {want, NoRequest}
  BY DEF FastMove, Requester, Capture, wait_out, ResponseVisible, request
<1>2. response_slow' # request_fast'
  BY <1>1 DEF Inv, TypeOK, ToggleInv, Quiet, Edge, SlowMove, SlowWork, TakeRequest,
     CompleteRequest, SlowIdle, slowRegs, Capture
<1>3. L1Owed = NoRequest /\ L1Answer = NoRequest /\ L1Owed' = want /\ L1Answer' = NoRequest
  BY <1>1, <1>2, PortState DEF Edge, Inv, TypeOK, ToggleInv, InFlight, L1Owed, L1Answer, Outstanding
<1> QED
  BY <1>1, <1>3 DEF L1Channel!Next, L1Channel!Hold, L1Channel!Launch, Want, Edge

\* The answer in the acknowledged response is the requester's, or nobody's.
LEMMA AcknowledgeEnds ==
  ASSUME Inv, Inv', Edge, ~l1Reset, FastMove, Acknowledge
  PROVE  L1Channel!Next
<1>1. /\ request_active_fast /\ response_fast2 # response_ack_fast
      /\ ~request_active_fast' /\ response_slow = request_fast
  BY DEF Acknowledge, ResponseVisible, Inv, TypeOK, ToggleInv, InFlight
<1>2. L1Owed = NoRequest /\ L1Answer = payload_fast /\ L1Owed' = NoRequest /\ L1Answer' = NoRequest
  BY <1>1, PortState DEF L1Owed, L1Answer, Outstanding
<1>3. payload_fast \in Request /\ payload_fast # NoRequest
  BY <1>1, NoRequestAssumption DEF Inv, ToggleInv, PayloadInv
<1>4. CASE want = payload_fast
  <2>1. want' \in (Request \ {want}) \cup {NoRequest}
    BY <1>1, <1>3, <1>4 DEF FastMove, Requester, wait_out, ResponseVisible, request,
       Fresh, Inv, ToggleInv, PayloadInv
  <2> QED  BY <1>2, <1>3, <1>4, <2>1 DEF L1Channel!Next, L1Channel!Deliver, Want, Edge
<1>5. CASE want # payload_fast
  <2>1. want' = want \/ want' = NoRequest \/ (want = NoRequest /\ want' \in Request)
    BY <1>1, <1>3, <1>5 DEF FastMove, Requester, wait_out, ResponseVisible, request,
       Fresh, Inv, ToggleInv, PayloadInv
  <2> QED  BY <1>2, <1>3, <1>5, <2>1 DEF L1Channel!Next, L1Channel!Hold, L1Channel!Discard, Want,
     Edge
<1> QED  BY <1>4, <1>5

\* Otherwise the requester may move, and the memory perform what it owes.
LEMMA OthersPerform ==
  ASSUME Inv, Inv', Edge, ~l1Reset,
         (FastMove /\ (Orphan \/ FastIdle)) \/ UNCHANGED <<want, fastRegs>>
  PROVE  L1Channel!Next
<1>1. UNCHANGED <<payload_fast, request_fast, request_active_fast, response_ack_fast>>
  BY DEF Orphan, FastIdle, fastRegs
<1>2. want' = want \/ want' = NoRequest \/ (want = NoRequest /\ want' \in Request)
  BY DEF FastMove, Requester, Orphan, FastIdle, wait_out, ResponseVisible, request, Fresh
<1>3. L1Channel!Hold
  BY <1>2 DEF L1Channel!Hold, Want, Edge
<1>4. L1Channel!Perform \/ UNCHANGED <<L1Owed, L1Answer>>
  <2>1. CASE ~request_active_fast
    BY <1>1, <2>1 DEF L1Channel!Perform, L1Owed, L1Answer, Outstanding
  <2>2. CASE request_active_fast /\ response_slow # request_fast
    <3>1. L1Owed = payload_fast /\ L1Answer = NoRequest /\ payload_fast # NoRequest
      BY <2>2, PortState, NoRequestAssumption DEF Inv, ToggleInv, PayloadInv
    <3>2. \/ L1Owed' = payload_fast /\ L1Answer' = NoRequest
          \/ L1Owed' = NoRequest /\ L1Answer' = payload_fast
      BY <1>1, <2>2 DEF Edge, Inv, TypeOK, ToggleInv, InFlight, PayloadInv, L1Owed, L1Answer,
         Outstanding
    <3> QED  BY <3>1, <3>2 DEF L1Channel!Perform
  <2>3. CASE request_active_fast /\ response_slow = request_fast
    <3>1. response_slow' = request_fast'
      BY <1>1, <2>3 DEF Inv, TypeOK, ToggleInv, InFlight, Edge, SlowMove, SlowWork,
         TakeRequest, CompleteRequest, SlowIdle, slowRegs
    <3>2. L1Owed = NoRequest /\ L1Answer = payload_fast
      BY <2>3, PortState
    <3>3. L1Owed' = NoRequest /\ L1Answer' = payload_fast
      BY <1>1, <2>3, <3>1 DEF Edge, Inv, TypeOK, ToggleInv, InFlight, PayloadInv, L1Owed,
         L1Answer, Outstanding
    <3> QED  BY <3>2, <3>3
  <2> QED  BY <2>1, <2>2, <2>3
<1> QED  BY <1>3, <1>4 DEF L1Channel!Next

\* Under reset the port is empty.
LEMMA ResetPort ==
  ASSUME l1Reset
  PROVE  Want = NoRequest /\ L1Owed = NoRequest /\ L1Answer = NoRequest
BY DEF Want, L1Owed, L1Answer, Outstanding

LEMMA StepIsNext ==
  ASSUME Inv, Inv', [L1MemNext]_l1MemVars
  PROVE  [L1Channel!Next]_Port
<1>1. CASE RaiseL1Reset
  <2>1. Want' = NoRequest /\ L1Owed' = NoRequest /\ L1Answer' = NoRequest
    BY <1>1 DEF RaiseL1Reset, Want, L1Owed, L1Answer, Outstanding
  <2> QED  BY <2>1 DEF L1Channel!Next, L1Channel!Reset
<1>2. CASE LowerL1Reset
  <2>1. Want' = NoRequest /\ L1Owed' = NoRequest /\ L1Answer' = NoRequest
    BY <1>2 DEF LowerL1Reset, Want, L1Owed, L1Answer, Outstanding, Inv, ResetInv, FastIsClear,
       fastRegs
  <2> QED  BY <2>1 DEF L1Channel!Next, L1Channel!Reset
<1>3. CASE ~RaiseL1Reset /\ ~LowerL1Reset
  <2>1. Edge  BY <1>3, StepIsEdge
  <2>2. CASE l1Reset
    <3>1. l1Reset'  BY <2>1, <2>2 DEF Edge
    <3>2. Want' = NoRequest /\ L1Owed' = NoRequest /\ L1Answer' = NoRequest
      BY <3>1 DEF Want, L1Owed, L1Answer, Outstanding
    <3> QED  BY <3>2 DEF L1Channel!Next, L1Channel!Reset
  <2>3. CASE ~l1Reset
    <3>1. \/ FastMove /\ Acknowledge
          \/ FastMove /\ Capture
          \/ FastMove /\ (Orphan \/ FastIdle)
          \/ UNCHANGED <<want, fastRegs>>
      BY <2>1, <2>3 DEF Edge, FastMove, FastWork
    <3> QED
      BY <2>1, <2>3, <3>1, AcknowledgeEnds, CaptureLaunches, OthersPerform
  <2> QED  BY <2>2, <2>3
<1> QED  BY <1>1, <1>2, <1>3

\* The mailbox implements the memory port: every launched request is performed
\* once, and its answer goes to the requester that still holds it or to nobody.
THEOREM ImplementsMemChannel == L1MemSpec => ChannelSpec
<1>1. L1MemInit => L1Channel!Init
  BY DEF L1MemInit, L1Channel!Init, Want, L1Owed, L1Answer, Outstanding
<1>2. Inv /\ Inv' /\ [L1MemNext]_l1MemVars => [L1Channel!Next]_L1Channel!vars
  BY StepIsNext DEF Port, L1Channel!vars
<1> QED  BY <1>1, <1>2, Invariance, PTL DEF L1MemSpec, ChannelSpec, L1Channel!Spec
=============================================================================
