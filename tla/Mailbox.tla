------------------------------ MODULE Mailbox -------------------------------
(***************************************************************************)
(* One channel of Axi4SlowToFastCdc or Axi4FastToSlowCdc between a sender   *)
(* and a receiver that do as they like (tribe_cpu/common/Axi4Cdc.h).  AW, W *)
(* and AR have the bridge's master side as their source, B and R the        *)
(* responder side.                                                          *)
(*                                                                          *)
(* The payload is never copied: the receiver reads the register of the      *)
(* other domain directly while the channel is valid.  The definitions have  *)
(* names other than those of Axi4Cdc, so that one module can use both.      *)
(***************************************************************************)
EXTENDS ToggleMailbox, Naturals, Sequences

VARIABLES
    source, destination,    \* the registers of the two sides
    got,                    \* the last beat handed to the receiver
    channelReset,           \* reset, and the edges seen in it
    sourceCleared, destinationCleared

channelResetVars == <<channelReset, sourceCleared, destinationCleared>>
channelVars == <<source, destination, got, channelResetVars>>

ChannelTypeOK ==
    /\ source \in Source
    /\ destination \in Destination
    /\ got \in Beat \cup {None}
    /\ {channelReset, sourceCleared, destinationCleared} \subseteq BOOLEAN

ChannelInit ==
    /\ source = ClearedSource
    /\ destination = ClearedDestination
    /\ got = None
    /\ channelReset = FALSE /\ sourceCleared = FALSE /\ destinationCleared = FALSE

\* One edge of the source's clock with `beat' on its inputs, None for no valid.
Send(beat) ==
    source' = IF channelReset THEN ClearedSource
              ELSE SourceEdge(source, destination, IF Ready(source) THEN beat ELSE None)

\* One edge of the destination's clock with `ready' on its input.
Receive(ready) ==
    LET take == ready /\ Valid(destination)
    IN  /\ destination' = IF channelReset THEN ClearedDestination
                          ELSE DestinationEdge(source, destination, take)
        /\ got' = IF channelReset THEN None ELSE IF take THEN source.payload ELSE got

SourceClock ==
    /\ \E beat \in Beat \cup {None} : Send(beat)
    /\ sourceCleared' = channelReset
    /\ UNCHANGED <<destination, got, channelReset, destinationCleared>>

DestinationClock(ready) ==
    /\ Receive(ready)
    /\ destinationCleared' = channelReset
    /\ UNCHANGED <<source, channelReset, sourceCleared>>

BothEdges(ready) ==
    /\ \E beat \in Beat \cup {None} : Send(beat)
    /\ Receive(ready)
    /\ sourceCleared' = channelReset /\ destinationCleared' = channelReset
    /\ UNCHANGED channelReset

RaiseChannelReset ==
    /\ ~channelReset
    /\ channelReset' = TRUE
    /\ sourceCleared' = FALSE /\ destinationCleared' = FALSE
    /\ UNCHANGED <<source, destination, got>>

LowerChannelReset ==
    /\ channelReset /\ sourceCleared /\ destinationCleared
    /\ channelReset' = FALSE
    /\ sourceCleared' = FALSE /\ destinationCleared' = FALSE
    /\ UNCHANGED <<source, destination, got>>

ChannelNext ==
    \/ SourceClock
    \/ \E ready \in BOOLEAN : DestinationClock(ready) \/ BothEdges(ready)
    \/ RaiseChannelReset \/ LowerChannelReset

ChannelSpec == ChannelInit /\ [][ChannelNext]_channelVars

-----------------------------------------------------------------------------
(* Properties. *)

Occupied == source.request # destination.ack

\* The channel is a queue of one beat: each accepted beat is handed over once,
\* in order and with its own payload, and none is accepted over another.
Queue == INSTANCE BoundedFifo WITH
    Item <- Beat, Capacity <- 1,
    queue <- IF ~channelReset /\ Occupied THEN <<source.payload>> ELSE <<>>,
    got <- IF channelReset THEN None ELSE got

QueueSpec == Queue!Spec

\* A beat is shown until it is taken and does not change while it is shown,
\* although it is read across the clock boundary.
Shown == ~channelReset /\ Valid(destination)

ShownStable ==
    [][Shown /\ ~channelReset' =>
         source'.payload = source.payload /\ (Shown' \/ got' = source.payload)]_channelVars
=============================================================================
