--------------------------- MODULE ToggleMailbox ----------------------------
(***************************************************************************)
(* The registers of one channel of an AXI bridge (tribe_cpu/common/         *)
(* Axi4Cdc.h): a one-entry toggle mailbox.  The source holds a payload and  *)
(* a request toggle, the destination answers with an acknowledgement        *)
(* toggle, and each toggle reaches the other side through two registers.    *)
(* An operator is the effect of one edge of one side on its own registers.  *)
(***************************************************************************)
CONSTANTS
    Beat,           \* payloads
    None            \* no beat offered; the cleared payload

ASSUME BeatAssumption == None \notin Beat

Source == [payload : Beat \cup {None}, request : BOOLEAN, ack1 : BOOLEAN, ack2 : BOOLEAN]
Destination == [request1 : BOOLEAN, request2 : BOOLEAN, ack : BOOLEAN]

ClearedSource == [payload |-> None, request |-> FALSE, ack1 |-> FALSE, ack2 |-> FALSE]
ClearedDestination == [request1 |-> FALSE, request2 |-> FALSE, ack |-> FALSE]

\* <channel>ready: the last beat has been acknowledged.
Ready(src) == src.request = src.ack2

\* <channel>valid: a request has come that is not acknowledged.
Valid(dst) == dst.request2 # dst.ack

\* An edge of the source, where `beat' is accepted, or None if no handshake.
SourceEdge(src, dst, beat) ==
    [payload |-> IF beat = None THEN src.payload ELSE beat,
     request |-> IF beat = None THEN src.request ELSE ~src.request,
     ack1 |-> dst.ack,
     ack2 |-> src.ack1]

\* An edge of the destination, where the beat is taken if `take'.
DestinationEdge(src, dst, take) ==
    [request1 |-> src.request,
     request2 |-> dst.request1,
     ack |-> IF take THEN dst.request2 ELSE dst.ack]
=============================================================================
