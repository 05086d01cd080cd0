-------------------------------- MODULE CdcProofs ---------------------------
(***************************************************************************)
(* Proofs about what crosses clock domains.  Of one channel of an AXI       *)
(* bridge, between a sender and a receiver that do as they like, for any    *)
(* payloads; of a whole path of a bridge between a master and its targets,  *)
(* for any addresses and windows, gated or not, with data or not, muxed or  *)
(* not; and, at the end, of the two-clock FIFO with the sixteen rows of the *)
(* code, for any items.                                                     *)
(***************************************************************************)
EXTENDS Axi4Cdc, Mailbox, Fifo2clk, TLAPS

(***************************************************************************)
(* The toggles form a ring: request, its two synchronizers, the             *)
(* acknowledgement, its two synchronizers, and the request again.  At most  *)
(* one boundary between an old and a new value runs round it.               *)
(***************************************************************************)

\* A beat is between its acceptance and its being taken.
Holds(s, d) == s.request # d.ack

\* Before it is taken the acknowledgement of the beat before has arrived.
OutgoingRing(s, d) ==
    /\ s.payload \in Beat
    /\ s.ack1 = d.ack /\ s.ack2 = d.ack
    /\ d.request2 = s.request => d.request1 = s.request

\* Afterwards the request has arrived, and the acknowledgement is under way.
ReturningRing(s, d) ==
    /\ d.request1 = s.request /\ d.request2 = s.request
    /\ s.ack2 = s.request => s.ack1 = s.request

Ring(s, d) == IF Holds(s, d) THEN OutgoingRing(s, d) ELSE ReturningRing(s, d)

-----------------------------------------------------------------------------
(* The registers of a channel. *)

\* A source that is ready holds nothing, a destination that is valid is shown what it holds.
LEMMA RingShows ==
    ASSUME NEW s \in Source, NEW d \in Destination, Ring(s, d)
    PROVE  /\ Ready(s) => ~Holds(s, d)
           /\ Valid(d) => Holds(s, d) /\ d.request1 = s.request /\ d.request2 = s.request
           /\ Holds(s, d) => s.payload \in Beat
    BY DEF Source, Destination, Ring, OutgoingRing, ReturningRing, Holds, Ready, Valid

\* The edges of a channel keep its ring, put a beat where none is held, and take the one held.
LEMMA RingStep ==
    ASSUME NEW s \in Source, NEW d \in Destination, Ring(s, d),
           NEW b \in Beat \cup {None}, b # None => Ready(s),
           NEW take \in BOOLEAN, take => Valid(d),
           NEW s2 \in {s, SourceEdge(s, d, b)}, b # None => s2 = SourceEdge(s, d, b),
           NEW d2 \in {d, DestinationEdge(s, d, take)}, take => d2 = DestinationEdge(s, d, take)
    PROVE  /\ s2 \in Source /\ d2 \in Destination /\ Ring(s2, d2)
           /\ Holds(s2, d2) <=> (Holds(s, d) /\ ~take) \/ b # None
           /\ s2.payload = IF b = None THEN s.payload ELSE b
           /\ b # None => ~Holds(s, d)
           /\ take => Holds(s, d)
<1>1. /\ {s.request, s.ack1, s.ack2, d.request1, d.request2, d.ack} \subseteq BOOLEAN
      /\ s.payload \in Beat \cup {None}
    BY DEF Source, Destination
<1>2. \/ s2 = s /\ b = None
      \/ /\ s2 \in Source /\ s2.ack1 = d.ack /\ s2.ack2 = s.ack1
         /\ s2.payload = IF b = None THEN s.payload ELSE b
         /\ s2.request = IF b = None THEN s.request ELSE ~s.request
  <2>1. CASE s2 = s /\ b = None
      BY <2>1
  <2>2. CASE s2 = SourceEdge(s, d, b)
    <3> DEFINE p == IF b = None THEN s.payload ELSE b
               q == IF b = None THEN s.request ELSE ~s.request
    <3>1. p \in Beat \cup {None} /\ q \in BOOLEAN
        BY <1>1
    <3>2. s2 = [payload |-> p, request |-> q, ack1 |-> d.ack, ack2 |-> s.ack1]
        BY <2>2 DEF SourceEdge
    <3> HIDE DEF p, q
    <3>3. s2 \in Source /\ s2.payload = p /\ s2.request = q /\ s2.ack1 = d.ack /\ s2.ack2 = s.ack1
        BY <1>1, <3>1, <3>2 DEF Source
    <3> QED
        BY <3>3 DEF p, q
  <2> QED
      BY <2>1, <2>2
<1>3. \/ d2 = d /\ ~take
      \/ /\ d2 \in Destination /\ d2.request1 = s.request /\ d2.request2 = d.request1
         /\ d2.ack = IF take THEN d.request2 ELSE d.ack
    BY <1>1 DEF DestinationEdge, Destination
<1>4. s2 \in Source /\ d2 \in Destination
    BY <1>2, <1>3
<1>5. /\ s2.payload = IF b = None THEN s.payload ELSE b
      /\ b # None => ~Holds(s, d)
      /\ take => Holds(s, d)
    BY <1>2, RingShows
<1>6. {s2.request, s2.ack1, s2.ack2, d2.request1, d2.request2, d2.ack} \subseteq BOOLEAN
    BY <1>4 DEF Source, Destination
<1>7. Holds(s2, d2) <=> (Holds(s, d) /\ ~take) \/ b # None
    BY <1>1, <1>2, <1>3, RingShows, BeatAssumption DEF Holds, Ready, Valid, Ring, OutgoingRing, ReturningRing
<1>8. Ring(s2, d2)
  <2>1. CASE Holds(s, d)
      BY <1>1, <1>2, <1>3, <1>5, <1>6, <2>1 DEF Ring, OutgoingRing, ReturningRing, Holds, Valid
  <2>2. CASE ~Holds(s, d)
      BY <1>1, <1>2, <1>3, <1>5, <1>6, <2>2, BeatAssumption DEF Ring, OutgoingRing, ReturningRing, Holds, Ready
  <2> QED
      BY <2>1, <2>2
<1> QED
    BY <1>4, <1>5, <1>7, <1>8

\* Cleared registers are a ring that holds nothing.
LEMMA ClearedRing ==
    /\ ClearedSource \in Source /\ ClearedDestination \in Destination
    /\ Ring(ClearedSource, ClearedDestination) /\ ~Holds(ClearedSource, ClearedDestination)
    BY DEF Source, Destination, ClearedSource, ClearedDestination, Ring, Holds, ReturningRing

-----------------------------------------------------------------------------
(* A channel between a sender and a receiver. *)

ChannelRing == ~channelReset => Ring(source, destination)

\* Reset has cleared each side that has had an edge in it.
ChannelCleared ==
    /\ channelReset /\ sourceCleared => source = ClearedSource
    /\ channelReset /\ destinationCleared => destination = ClearedDestination /\ got = None

ChannelInv == ChannelTypeOK /\ ChannelRing /\ ChannelCleared

\* Out of reset an edge may put a beat and may take one.
PutAndTake(b, take) ==
    /\ b # None => Ready(source)
    /\ take => Valid(destination)
    /\ source' \in {source, SourceEdge(source, destination, b)}
    /\ b # None => source' = SourceEdge(source, destination, b)
    /\ destination' \in {destination, DestinationEdge(source, destination, take)}
    /\ take => destination' = DestinationEdge(source, destination, take)
    /\ got' = IF take THEN source.payload ELSE got

\* What an edge of the source does out of reset.
LEMMA Sends ==
    ASSUME ~channelReset, NEW beat \in Beat \cup {None}, Send(beat)
    PROVE  \E b \in Beat \cup {None} :
             (b # None => Ready(source)) /\ source' = SourceEdge(source, destination, b)
<1>1. source' = SourceEdge(source, destination, IF Ready(source) THEN beat ELSE None)
    BY DEF Send
<1> QED
    BY <1>1

\* What an edge of the destination does out of reset.
LEMMA Receives ==
    ASSUME ~channelReset, NEW ready \in BOOLEAN, Receive(ready)
    PROVE  \E take \in BOOLEAN :
             /\ take => Valid(destination)
             /\ destination' = DestinationEdge(source, destination, take)
             /\ got' = IF take THEN source.payload ELSE got
<1> DEFINE take == ready /\ Valid(destination)
<1>1. take \in BOOLEAN /\ (take => Valid(destination))
    OBVIOUS
<1>2. /\ destination' = DestinationEdge(source, destination, take)
      /\ got' = IF take THEN source.payload ELSE got
    BY DEF Receive
<1> HIDE DEF take
<1> QED
    BY <1>1, <1>2

\* Every step out of reset puts and takes.
LEMMA StepPutsAndTakes ==
    ASSUME ChannelTypeOK, [ChannelNext]_channelVars, ~channelReset, ~RaiseChannelReset
    PROVE  /\ \E b \in Beat \cup {None}, take \in BOOLEAN : PutAndTake(b, take)
           /\ channelReset' = FALSE
           /\ {sourceCleared', destinationCleared'} \subseteq {FALSE, sourceCleared, destinationCleared}
<1> channelReset = FALSE
    BY DEF ChannelTypeOK
<1>1. CASE SourceClock
  <2>1. PICK beat \in Beat \cup {None} : Send(beat)
      BY <1>1 DEF SourceClock
  <2>2. PICK b \in Beat \cup {None} :
             (b # None => Ready(source)) /\ source' = SourceEdge(source, destination, b)
      BY <2>1, Sends
  <2>3. PutAndTake(b, FALSE)
      BY <1>1, <2>2 DEF SourceClock, PutAndTake
  <2> QED
      BY <1>1, <2>3 DEF SourceClock
<1>2. ASSUME NEW ready \in BOOLEAN, DestinationClock(ready) \/ BothEdges(ready)
      PROVE  /\ \E b \in Beat \cup {None}, take \in BOOLEAN : PutAndTake(b, take)
             /\ channelReset' = FALSE
             /\ {sourceCleared', destinationCleared'} \subseteq {FALSE, sourceCleared, destinationCleared}
  <2>1. PICK take \in BOOLEAN :
             /\ take => Valid(destination)
             /\ destination' = DestinationEdge(source, destination, take)
             /\ got' = IF take THEN source.payload ELSE got
      BY <1>2, Receives DEF DestinationClock, BothEdges
  <2>2. CASE DestinationClock(ready)
    <3>1. PutAndTake(None, take)
        BY <2>1, <2>2 DEF DestinationClock, PutAndTake
    <3> QED
        BY <2>2, <3>1 DEF DestinationClock
  <2>3. CASE BothEdges(ready)
    <3>1. PICK beat \in Beat \cup {None} : Send(beat)
        BY <2>3 DEF BothEdges
    <3>2. PICK b \in Beat \cup {None} :
             (b # None => Ready(source)) /\ source' = SourceEdge(source, destination, b)
        BY <3>1, Sends
    <3>3. PutAndTake(b, take)
        BY <2>1, <3>2 DEF PutAndTake
    <3> QED
        BY <2>3, <3>3 DEF BothEdges
  <2> QED
      BY <1>2, <2>2, <2>3
<1>3. CASE UNCHANGED channelVars
  <2>1. PutAndTake(None, FALSE)
      BY <1>3 DEF channelVars, PutAndTake
  <2> QED
      BY <1>3, <2>1 DEF channelVars, channelResetVars
<1> QED
    BY <1>1, <1>2, <1>3 DEF ChannelNext, LowerChannelReset

\* What putting and taking do to the ring.
LEMMA PutAndTakeKeeps ==
    ASSUME ChannelInv, ~channelReset, NEW b \in Beat \cup {None}, NEW take \in BOOLEAN, PutAndTake(b, take)
    PROVE  /\ source' \in Source /\ destination' \in Destination /\ Ring(source', destination')
           /\ Occupied' <=> (Occupied /\ ~take) \/ b # None
           /\ source'.payload = IF b = None THEN source.payload ELSE b
           /\ b # None => ~Occupied
           /\ take => Occupied
           /\ got' = IF take THEN source.payload ELSE got
           /\ Occupied => source.payload \in Beat
<1>1. source \in Source /\ destination \in Destination /\ Ring(source, destination)
    BY DEF ChannelInv, ChannelTypeOK, ChannelRing
<1>2. /\ Occupied <=> Holds(source, destination)
      /\ Occupied' <=> Holds(source', destination')
    BY DEF Occupied, Holds
<1>3. /\ source' \in Source /\ destination' \in Destination /\ Ring(source', destination')
      /\ Holds(source', destination') <=> (Holds(source, destination) /\ ~take) \/ b # None
      /\ source'.payload = IF b = None THEN source.payload ELSE b
      /\ b # None => ~Holds(source, destination)
      /\ take => Holds(source, destination)
    BY <1>1, RingStep DEF PutAndTake
<1>4. Holds(source, destination) => source.payload \in Beat
    BY <1>1, RingShows
<1> QED
    BY <1>2, <1>3, <1>4 DEF PutAndTake

\* A step out of reset preserves the invariant.
LEMMA ChannelRuns ==
    ASSUME ChannelInv, [ChannelNext]_channelVars, ~channelReset, ~RaiseChannelReset
    PROVE  ChannelInv'
<1>1. PICK b \in Beat \cup {None}, take \in BOOLEAN : PutAndTake(b, take)
    BY StepPutsAndTakes DEF ChannelInv
<1>2. /\ source' \in Source /\ destination' \in Destination /\ Ring(source', destination')
      /\ got' = IF take THEN source.payload ELSE got
      /\ take => Occupied
      /\ Occupied => source.payload \in Beat
    BY <1>1, PutAndTakeKeeps
<1>3. channelReset' = FALSE /\ {sourceCleared', destinationCleared'} \subseteq BOOLEAN
    BY StepPutsAndTakes DEF ChannelInv, ChannelTypeOK
<1>4. got' \in Beat \cup {None}
    BY <1>2 DEF ChannelInv, ChannelTypeOK
<1> QED
    BY <1>2, <1>3, <1>4 DEF ChannelInv, ChannelTypeOK, ChannelRing, ChannelCleared

\* So does a step in reset.
LEMMA ChannelResets ==
    ASSUME ChannelInv, [ChannelNext]_channelVars, channelReset \/ RaiseChannelReset
    PROVE  ChannelInv'
<1> USE DEF ChannelInv, ChannelTypeOK, ChannelRing, ChannelCleared
<1>1. CASE RaiseChannelReset
    BY <1>1 DEF RaiseChannelReset
<1>2. CASE LowerChannelReset
    BY <1>2, ClearedRing DEF LowerChannelReset
<1>3. CASE channelReset /\ SourceClock
    BY <1>3, ClearedRing DEF SourceClock, Send
<1>4. ASSUME channelReset, NEW ready \in BOOLEAN, DestinationClock(ready) PROVE ChannelInv'
    BY <1>4, ClearedRing DEF DestinationClock, Receive
<1>5. ASSUME channelReset, NEW ready \in BOOLEAN, BothEdges(ready) PROVE ChannelInv'
    BY <1>5, ClearedRing DEF BothEdges, Send, Receive
<1>6. CASE UNCHANGED channelVars
    BY <1>6 DEF channelVars, channelResetVars
<1> QED
    BY <1>1, <1>2, <1>3, <1>4, <1>5, <1>6 DEF ChannelNext

\* The inductive invariant of a channel.
THEOREM ChannelInvariant == ChannelSpec => []ChannelInv
<1>1. ChannelInit => ChannelInv
    BY ClearedRing DEF ChannelInit, ChannelInv, ChannelTypeOK, ChannelRing, ChannelCleared
<1>2. ChannelInv /\ [ChannelNext]_channelVars => ChannelInv'
    BY ChannelRuns, ChannelResets
<1> QED
    BY <1>1, <1>2, PTL DEF ChannelSpec

\* Every register of a channel stays in its type, whatever the clocks and reset do.
THEOREM ChannelTypeCorrect == ChannelSpec => []ChannelTypeOK
<1>1. ChannelInv => ChannelTypeOK
    BY DEF ChannelInv
<1> QED
    BY <1>1, ChannelInvariant, PTL

\* A shown beat keeps its payload and stays shown until it is taken.
THEOREM ShownStableHolds == ChannelSpec => ShownStable
<1>1. ChannelInv /\ [ChannelNext]_channelVars =>
        [Shown /\ ~channelReset' =>
           source'.payload = source.payload /\ (Shown' \/ got' = source.payload)]_channelVars
  <2> SUFFICES ASSUME ChannelInv, [ChannelNext]_channelVars, Shown, ~channelReset'
               PROVE  source'.payload = source.payload /\ (Shown' \/ got' = source.payload)
      OBVIOUS
  <2>1. ~channelReset /\ ~RaiseChannelReset
      BY DEF Shown, RaiseChannelReset
  <2>2. PICK b \in Beat \cup {None}, take \in BOOLEAN : PutAndTake(b, take)
      BY <2>1, StepPutsAndTakes DEF ChannelInv
  <2>3. source \in Source /\ destination \in Destination /\ Ring(source, destination)
      BY <2>1 DEF ChannelInv, ChannelTypeOK, ChannelRing
  <2>4. Occupied /\ destination.request1 = source.request /\ destination.request2 = source.request
      BY <2>3, RingShows DEF Shown, Occupied, Holds
  <2>5. source'.payload = source.payload /\ (take => got' = source.payload)
      BY <2>1, <2>2, <2>4, PutAndTakeKeeps
  <2>6. ~take => Valid(destination')
      BY <2>2, <2>4 DEF PutAndTake, DestinationEdge, Valid, Shown
  <2> QED
      BY <2>5, <2>6 DEF Shown, Valid
<1> QED
    BY <1>1, ChannelInvariant, PTL DEF ChannelSpec, ShownStable

\* The queue that a channel shows: the beat that is held, and the last one taken.
Content == IF ~channelReset /\ Occupied THEN <<source.payload>> ELSE <<>>
Handed == IF channelReset THEN None ELSE got

\* A beat is put where the queue is empty and taken where it is not.
LEMMA StepOfQueue ==
    ASSUME ChannelInv, [ChannelNext]_channelVars, ~channelReset, ~RaiseChannelReset
    PROVE  Queue!Next \/ UNCHANGED <<Content, Handed>>
<1>1. PICK b \in Beat \cup {None}, take \in BOOLEAN : PutAndTake(b, take)
    BY StepPutsAndTakes DEF ChannelInv
<1>2. ~channelReset'
    BY StepPutsAndTakes DEF ChannelInv
<1>3. /\ Occupied' <=> (Occupied /\ ~take) \/ b # None
      /\ source'.payload = IF b = None THEN source.payload ELSE b
      /\ b # None => ~Occupied
      /\ take => Occupied
      /\ got' = IF take THEN source.payload ELSE got
    BY <1>1, PutAndTakeKeeps
<1>4. CASE take
  <2>1. Content = <<source.payload>> /\ Content' = <<>> /\ Handed' = source.payload
      BY <1>2, <1>3, <1>4 DEF Content, Handed
  <2>2. Content # <<>> /\ Head(Content) = source.payload /\ Tail(Content) = <<>>
      BY <2>1
  <2> QED
      BY <2>1, <2>2 DEF Queue!Next, Queue!Get, Content, Handed
<1>5. CASE b # None
  <2>1. Content = <<>> /\ Content' = <<b>> /\ Handed' = Handed
      BY <1>2, <1>3, <1>5 DEF Content, Handed
  <2>2. Len(Content) < 1 /\ Content' = Append(Content, b) /\ b \in Beat
      BY <1>5, <2>1
  <2> QED
      BY <2>1, <2>2 DEF Queue!Next, Queue!Put, Content, Handed
<1>6. CASE ~take /\ b = None
    BY <1>2, <1>3, <1>6 DEF Content, Handed
<1> QED
    BY <1>4, <1>5, <1>6

\* A channel implements a queue of one beat that reset may empty: no beat is
\* lost, repeated, or accepted over another.
THEOREM ImplementsQueue == ChannelSpec => QueueSpec
<1>1. ChannelInit => Queue!Init
    BY ClearedRing DEF ChannelInit, Queue!Init, Occupied, Holds
<1>2. ChannelInv /\ [ChannelNext]_channelVars => [Queue!Next]_(Queue!vars)
  <2> SUFFICES ASSUME ChannelInv, [ChannelNext]_channelVars
               PROVE  [Queue!Next]_(Queue!vars)
      OBVIOUS
  <2> USE DEF Queue!vars, Content, Handed
  <2>1. CASE RaiseChannelReset
      BY <2>1 DEF RaiseChannelReset, Queue!Next, Queue!Reset
  <2>2. CASE LowerChannelReset
    <3>1. source = ClearedSource /\ destination = ClearedDestination /\ got = None
        BY <2>2 DEF LowerChannelReset, ChannelInv, ChannelCleared
    <3>2. ~Occupied /\ Occupied' = Occupied
        BY <2>2, <3>1, ClearedRing DEF Occupied, Holds, LowerChannelReset
    <3> QED
        BY <2>2, <3>1, <3>2 DEF LowerChannelReset
  <2>3. CASE ~channelReset /\ ~RaiseChannelReset
      BY <2>3, StepOfQueue
  <2>4. CASE channelReset /\ ~LowerChannelReset
    <3>1. channelReset'
        BY <2>4 DEF ChannelNext, SourceClock, DestinationClock, BothEdges, RaiseChannelReset,
                    channelVars, channelResetVars
    <3> QED
        BY <2>4, <3>1
  <2> QED
      BY <2>1, <2>2, <2>3, <2>4
<1> QED
    BY <1>1, <1>2, ChannelInvariant, PTL DEF ChannelSpec, QueueSpec, Queue!Spec

-----------------------------------------------------------------------------
(* A path: the inductive invariant. *)

\* The types of the registers of a path.
PathType ==
    /\ mode \in Modes
    /\ phase \in {"idle", "address", "data", "response"}
    /\ {job, shown} \subseteq Beat \cup {None}
    /\ {outstanding, seen, reset, masterCleared, responderCleared} \subseteq BOOLEAN
    /\ src \in [Channel -> Source] /\ dst \in [Channel -> Destination]
    /\ mux \in [active : BOOLEAN, sel : Target \cup {1}]
    /\ {addr, data, answer} \subseteq [Target -> Int \cup {None}]

\* Out of reset every channel is a ring.
RingsInv == ~reset => \A c \in Channel : Ring(src[c], dst[c])

\* Where the present transaction is, with its address and with its data.
At(c) == Full(c) /\ src[c].payload = job
Only(t, b) == [Nothing EXCEPT ![t] = b]

\* Nothing is under way: the master has no transaction, or shows its address.
Waiting ==
    /\ phase \in {"idle", "address"} /\ ~mux.active
    /\ \A c \in Channel : ~Full(c)
    /\ addr = Nothing /\ data = Nothing /\ answer = Nothing

\* The address was accepted and no target has taken it; the data may be ahead of it.
Crossing ==
    /\ phase \in {"data", "response"} /\ ~mux.active
    /\ At("address") /\ ~Full("response")
    /\ HasData => IF phase = "data" THEN ~Full("data") ELSE At("data")
    /\ addr = Nothing /\ data = Nothing /\ answer = Nothing

\* Target t has the address, and the data is to be sent, crosses, or has come.
Accepted(t) ==
    /\ phase \in {"data", "response"} /\ Routed(t)
    /\ ~Full("address") /\ ~Full("response")
    /\ addr = Only(t, Local(t, job)) /\ answer = Nothing
    /\ IF HasData
       THEN \/ phase = "data" /\ ~Full("data") /\ data = Nothing
            \/ phase = "response" /\ At("data") /\ data = Nothing
            \/ phase = "response" /\ ~Full("data") /\ data = Only(t, job)
       ELSE data = Nothing

\* Target t has performed the operation and holds its response.
Performed(t) ==
    /\ phase = "response" /\ Routed(t)
    /\ \A c \in Channel : ~Full(c)
    /\ addr = Nothing /\ data = Nothing /\ answer = Only(t, Local(t, job))

\* The response crosses.
Answering ==
    /\ phase = "response" /\ ~mux.active
    /\ At("response") /\ \A c \in Outward : ~Full(c)
    /\ addr = Nothing /\ data = Nothing /\ answer = Nothing

\* Out of reset the path is in one of these situations: one transaction, in one place.
PathInv ==
    ~reset => \/ Waiting \/ Crossing \/ Answering
              \/ \E t \in Target : Accepted(t) \/ Performed(t)

\* What the master drives is its transaction, or behind the gate the one that was accepted last.
MasterInv ==
    ~reset =>
      /\ phase = "idle" <=> job = None
      /\ phase = "data" => HasData
      /\ phase = "address" => shown = job
      /\ phase # "address" /\ shown # None => Gated /\ seen /\ shown = src["address"].payload

\* Reset has cleared each side that has had an edge in it.
ResetInv ==
    /\ reset /\ masterCleared =>
         /\ phase = "idle" /\ job = None /\ shown = None
         /\ \A c \in Outward : src[c] = ClearedSource
         /\ dst["response"] = ClearedDestination
    /\ reset /\ responderCleared =>
         /\ \A c \in Outward : dst[c] = ClearedDestination
         /\ src["response"] = ClearedSource
         /\ mux = MuxCleared /\ addr = Nothing /\ data = Nothing /\ answer = Nothing

\* The inductive invariant of a path.
Inv == PathType /\ RingsInv /\ PathInv /\ MasterInv /\ ResetInv

-----------------------------------------------------------------------------
(* The edges of a path. *)

\* An edge of the master's clock (m), the responder's (r), or both.
Tick(m, r, w) ==
    /\ Mailboxes(m, r, w) /\ UNCHANGED <<mode, reset>>
    /\ IF m THEN Gate /\ Master /\ masterCleared' = reset
            ELSE UNCHANGED <<masterVars, outstanding, seen, masterCleared>>
    /\ IF r THEN Responder(w) /\ responderCleared' = reset
            ELSE UNCHANGED <<responderVars, responderCleared>>

\* Every step that is not one of reset is an edge.
LEMMA Steps ==
    ASSUME Next, ~RaiseReset, ~LowerReset
    PROVE  \E m, r, w \in BOOLEAN : Tick(m, r, w)
<1>1. CASE MasterClock
  <2>1. Tick(TRUE, FALSE, FALSE)
      BY <1>1 DEF MasterClock, Tick, Next
  <2> QED
      BY <2>1
<1>2. ASSUME NEW w \in BOOLEAN, ResponderClock(w) PROVE Tick(FALSE, TRUE, w)
    BY <1>2 DEF ResponderClock, Tick, Next
<1>3. ASSUME NEW w \in BOOLEAN, BothClocks(w) PROVE Tick(TRUE, TRUE, w)
    BY <1>3 DEF BothClocks, Tick, Next
<1> QED
    BY <1>1, <1>2, <1>3 DEF Next

\* What enters and what leaves a channel on an edge.
In(c, m, r) == IF (c \in Outward /\ m) \/ (c \notin Outward /\ r) THEN Entering(c) ELSE None
Out(c, m, r, w) == ((c \in Outward /\ r) \/ (c \notin Outward /\ m)) /\ Leaving(c, w)

\* The channels are these.
LEMMA Channels ==
    ASSUME PathType
    PROVE  /\ Channel = {"address", "response"} \cup IF HasData THEN {"data"} ELSE {}
           /\ "address" \in Outward /\ "response" \notin Outward
           /\ HasData <=> "data" \in Outward
           /\ HasData \in BOOLEAN /\ Gated \in BOOLEAN
           /\ \A c \in Channel : src[c] \in Source /\ dst[c] \in Destination
<1>1. HasData \in BOOLEAN /\ Gated \in BOOLEAN
    BY ModeAssumption DEF PathType, HasData, Gated
<1>2. \A c \in Channel : src[c] \in Source /\ dst[c] \in Destination
    BY DEF PathType
<1> QED
    BY <1>1, <1>2 DEF Channel, Outward

\* The address that a target keeps stands for the one it was given.
LEMMA Addresses ==
    ASSUME NEW t \in Target, NEW b \in Beat
    PROVE  Local(t, b) \in Int /\ Local(t, b) # None /\ Global(t, Local(t, b)) = b /\ b # None
<1>1. b \in Int /\ Regions[t].base \in Int
    BY ModeAssumption, RegionAssumption DEF Target
<1> QED
    BY <1>1, ModeAssumption DEF Local, Global

\* Out of reset every place is in one of these situations.
LEMMA Situations ==
    ASSUME Inv, ~reset
    PROVE  /\ \/ Waiting \/ Crossing \/ Answering
              \/ \E t \in Target : Accepted(t) \/ Performed(t)
           /\ phase # "idle" => job \in Beat
           /\ phase = "idle" => job = None
           /\ \A c \in Channel : src[c] \in Source /\ dst[c] \in Destination /\ Ring(src[c], dst[c])
           /\ \A c \in Channel : Full(c) <=> Holds(src[c], dst[c])
    BY Channels DEF Inv, PathInv, MasterInv, PathType, RingsInv, Full, Holds

\* An address is accepted only from a master that has not had it accepted.
LEMMA AcceptedOnce ==
    ASSUME Inv, ~reset, AddressAccepted
    PROVE  phase = "address" /\ shown = job /\ Ready(src["address"])
    BY Channels DEF Inv, MasterInv, AddressAccepted, AddressReady

\* The target that answers has performed the transaction.
LEMMA AnswersOwn ==
    ASSUME Inv, ~reset, NEW t \in Target, Answered(t)
    PROVE  /\ Performed(t) /\ Entering("response") = job /\ job \in Beat
           /\ Ready(src["response"])
<1>1. answer[t] # None /\ Routed(t) /\ Ready(src["response"])
    BY DEF Answered
<1>2. PICK u \in Target : Performed(u)
    BY <1>1, Situations DEF Waiting, Crossing, Answering, Accepted, Nothing
<1>3. job \in Beat /\ answer = Only(u, Local(u, job))
    BY <1>2, Situations DEF Performed
<1>4. \A v \in Target : answer[v] # None => v = u
    BY <1>3 DEF Only, Nothing
<1>5. t = u /\ answer[t] = Local(t, job)
    BY <1>1, <1>3, <1>4 DEF Only, Nothing
<1>6. \A v \in Target : Answered(v) => v = t
    BY <1>4, <1>5 DEF Answered
<1>7. (CHOOSE v \in Target : Answered(v)) = t
    BY <1>6
<1>8. Entering("response") = Global(t, answer[t])
    BY <1>7 DEF Entering
<1> QED
    BY <1>1, <1>2, <1>3, <1>5, <1>8, Addresses

\* A handshake happens only where its channel is ready or valid.
LEMMA Handshakes ==
    ASSUME Inv, ~reset, NEW c \in Channel, NEW m \in BOOLEAN, NEW r \in BOOLEAN, NEW w \in BOOLEAN
    PROVE  /\ In(c, m, r) \in Beat \cup {None}
           /\ In(c, m, r) # None => Ready(src[c])
           /\ Out(c, m, r, w) \in BOOLEAN
           /\ Out(c, m, r, w) => Valid(dst[c])
<1>1. PathType /\ c \in {"address", "data", "response"}
    BY Channels DEF Inv
<1>2. /\ Entering(c) \in Beat \cup {None}
      /\ Entering(c) # None => Ready(src[c])
  <2>1. CASE c = "address"
    <3>1. Entering(c) = IF AddressAccepted THEN shown ELSE None
        BY <2>1 DEF Entering
    <3> QED
        BY <1>1, <2>1, <3>1, AcceptedOnce DEF PathType
  <2>2. CASE c = "data"
    <3>1. Entering(c) = IF DataAccepted THEN job ELSE None
        BY <2>2 DEF Entering
    <3> QED
        BY <1>1, <2>2, <3>1 DEF PathType, DataAccepted
  <2>3. CASE c = "response"
    <3>1. CASE \E t \in Target : Answered(t)
        BY <2>3, <3>1, AnswersOwn
    <3>2. CASE ~\E t \in Target : Answered(t)
        BY <2>3, <3>2 DEF Entering
    <3> QED
        BY <3>1, <3>2
  <2> QED
      BY <1>1, <2>1, <2>2, <2>3
<1>3. Leaving(c, w) => Valid(dst[c])
    BY <1>1 DEF Leaving, AddressTaken, Offered, DataTaken, ResponseTaken
<1>4. Out(c, m, r, w) \in BOOLEAN
    BY DEF Out
<1> QED
    BY <1>2, <1>3, <1>4 DEF In, Out

\* What an edge does to a channel.
LEMMA ChannelStep ==
    ASSUME Inv, ~reset, NEW c \in Channel, NEW m \in BOOLEAN, NEW r \in BOOLEAN, NEW w \in BOOLEAN,
           Tick(m, r, w)
    PROVE  /\ src'[c] \in Source /\ dst'[c] \in Destination /\ Ring(src'[c], dst'[c])
           /\ Full(c)' <=> (Full(c) /\ ~Out(c, m, r, w)) \/ In(c, m, r) # None
           /\ src'[c].payload = IF In(c, m, r) = None THEN src[c].payload ELSE In(c, m, r)
           /\ In(c, m, r) # None => ~Full(c)
           /\ Out(c, m, r, w) => Full(c)
           /\ Full(c) => src[c].payload \in Beat
<1> DEFINE b == In(c, m, r)
           take == Out(c, m, r, w)
<1>1. src[c] \in Source /\ dst[c] \in Destination /\ Ring(src[c], dst[c]) /\ (Full(c) <=> Holds(src[c], dst[c]))
    BY Situations
<1>2. b \in Beat \cup {None} /\ (b # None => Ready(src[c])) /\ take \in BOOLEAN /\ (take => Valid(dst[c]))
    BY Handshakes
<1>3. /\ src'[c] \in {src[c], SourceEdge(src[c], dst[c], b)}
      /\ b # None => src'[c] = SourceEdge(src[c], dst[c], b)
    BY DEF Tick, Mailboxes, In
<1>4. /\ dst'[c] \in {dst[c], DestinationEdge(src[c], dst[c], take)}
      /\ take => dst'[c] = DestinationEdge(src[c], dst[c], take)
  <2> DEFINE mine == IF c \in Outward THEN r ELSE m
  <2>1. dst'[c] = IF ~mine THEN dst[c] ELSE DestinationEdge(src[c], dst[c], Leaving(c, w))
      BY DEF Tick, Mailboxes
  <2>2. take <=> mine /\ Leaving(c, w)
      BY DEF Out
  <2>3. mine => DestinationEdge(src[c], dst[c], Leaving(c, w)) = DestinationEdge(src[c], dst[c], take)
      BY <2>2 DEF DestinationEdge
  <2> QED
      BY <2>1, <2>2, <2>3
<1> HIDE DEF b, take
<1>5. /\ src'[c] \in Source /\ dst'[c] \in Destination /\ Ring(src'[c], dst'[c])
      /\ Holds(src'[c], dst'[c]) <=> (Holds(src[c], dst[c]) /\ ~take) \/ b # None
      /\ src'[c].payload = IF b = None THEN src[c].payload ELSE b
      /\ b # None => ~Holds(src[c], dst[c])
      /\ take => Holds(src[c], dst[c])
    BY <1>1, <1>2, <1>3, <1>4, RingStep
<1>6. Full(c)' <=> Holds(src'[c], dst'[c])
    BY DEF Full, Holds
<1>7. Full(c) => src[c].payload \in Beat
    BY <1>1, RingShows
<1> QED
    BY <1>1, <1>5, <1>6, <1>7 DEF b, take

\* The handshakes of a path, and what they leave in its channels.
LEMMA Flow ==
    ASSUME Inv, ~reset, NEW m \in BOOLEAN, NEW r \in BOOLEAN, NEW w \in BOOLEAN, Tick(m, r, w)
    PROVE  /\ Full("address")' <=> \/ Full("address") /\ ~(r /\ \E t \in Target : AddressTaken(t, w))
                                   \/ m /\ AddressAccepted
           /\ src'["address"].payload = IF m /\ AddressAccepted THEN job ELSE src["address"].payload
           /\ AddressAccepted => ~Full("address")
           /\ \A t \in Target : AddressTaken(t, w) => Full("address")
           /\ HasData =>
                /\ Full("data")' <=> \/ Full("data") /\ ~(r /\ \E t \in Target : DataTaken(t, w))
                                     \/ m /\ DataAccepted
                /\ src'["data"].payload = IF m /\ DataAccepted THEN job ELSE src["data"].payload
           /\ DataAccepted => ~Full("data") /\ HasData
           /\ \A t \in Target : DataTaken(t, w) => Full("data") /\ HasData
           /\ Full("response")' <=> \/ Full("response") /\ ~(m /\ ResponseTaken)
                                    \/ r /\ \E t \in Target : Answered(t)
           /\ src'["response"].payload = IF r /\ \E t \in Target : Answered(t) THEN job
                                                                     ELSE src["response"].payload
           /\ ResponseTaken => Full("response")
<1>1. /\ Channel = {"address", "response"} \cup IF HasData THEN {"data"} ELSE {}
      /\ "address" \in Outward /\ "response" \notin Outward /\ (HasData <=> "data" \in Outward)
    BY Channels DEF Inv
<1>2. \A c \in Channel : /\ Ready(src[c]) => ~Full(c)
                         /\ Valid(dst[c]) => Full(c)
    BY Situations, RingShows
<1>3. ASSUME AddressAccepted PROVE shown = job /\ job # None /\ Ready(src["address"])
    BY <1>3, AcceptedOnce, Situations, BeatAssumption
<1>4. /\ Entering("address") = IF AddressAccepted THEN shown ELSE None
      /\ HasData => Entering("data") = IF DataAccepted THEN job ELSE None
      /\ ~(\E t \in Target : Answered(t)) => Entering("response") = None
    BY DEF Entering
<1>5. /\ Leaving("address", w) <=> \E t \in Target : AddressTaken(t, w)
      /\ Leaving("data", w) <=> \E t \in Target : DataTaken(t, w)
      /\ Leaving("response", w) <=> ResponseTaken
    BY DEF Leaving
<1>6. DataAccepted => HasData /\ job # None /\ Ready(src["data"])
    BY Situations, BeatAssumption DEF DataAccepted
<1>7. (\E t \in Target : Answered(t)) => Entering("response") = job /\ job # None
    BY AnswersOwn, BeatAssumption
<1>8. /\ In("address", m, r) = IF m /\ AddressAccepted THEN job ELSE None
      /\ In("address", m, r) # None <=> m /\ AddressAccepted
      /\ Out("address", m, r, w) <=> r /\ \E t \in Target : AddressTaken(t, w)
    BY <1>1, <1>3, <1>4, <1>5 DEF In, Out
<1>9. /\ In("response", m, r) = IF r /\ \E t \in Target : Answered(t) THEN job ELSE None
      /\ In("response", m, r) # None <=> r /\ \E t \in Target : Answered(t)
      /\ Out("response", m, r, w) <=> m /\ ResponseTaken
    BY <1>1, <1>4, <1>5, <1>7 DEF In, Out
<1>10. HasData =>
      /\ In("data", m, r) = IF m /\ DataAccepted THEN job ELSE None
      /\ In("data", m, r) # None <=> m /\ DataAccepted
      /\ Out("data", m, r, w) <=> r /\ \E t \in Target : DataTaken(t, w)
    BY <1>1, <1>4, <1>5, <1>6 DEF In, Out
<1>11. /\ Full("address")' <=> \/ Full("address") /\ ~(r /\ \E t \in Target : AddressTaken(t, w))
                               \/ m /\ AddressAccepted
       /\ src'["address"].payload = IF m /\ AddressAccepted THEN job ELSE src["address"].payload
    BY <1>1, <1>8, ChannelStep
<1>12. HasData =>
       /\ Full("data")' <=> \/ Full("data") /\ ~(r /\ \E t \in Target : DataTaken(t, w))
                            \/ m /\ DataAccepted
       /\ src'["data"].payload = IF m /\ DataAccepted THEN job ELSE src["data"].payload
    BY <1>1, <1>10, ChannelStep
<1>13. /\ Full("response")' <=> \/ Full("response") /\ ~(m /\ ResponseTaken)
                                \/ r /\ \E t \in Target : Answered(t)
       /\ src'["response"].payload = IF r /\ \E t \in Target : Answered(t) THEN job
                                                                ELSE src["response"].payload
    BY <1>1, <1>9, ChannelStep
<1>14. /\ AddressAccepted => ~Full("address")
       /\ \A t \in Target : AddressTaken(t, w) => Full("address")
       /\ DataAccepted => ~Full("data") /\ HasData
       /\ \A t \in Target : DataTaken(t, w) => Full("data") /\ HasData
       /\ ResponseTaken => Full("response")
    BY <1>1, <1>2, <1>3, <1>6 DEF AddressTaken, Offered, DataTaken, ResponseTaken
<1> QED
    BY <1>11, <1>12, <1>13, <1>14

\* What the master does on an edge.
LEMMA MasterStep ==
    ASSUME Inv, ~reset, NEW m \in BOOLEAN, NEW r \in BOOLEAN, NEW w \in BOOLEAN, Tick(m, r, w)
    PROVE  \/ /\ m /\ (phase = "idle" \/ ResponseTaken)
              /\ \/ phase' = "idle" /\ job' = None /\ KeepOrDrop
                 \/ phase' = "address" /\ job' \in Beat \ {job} /\ shown' = job'
           \/ /\ m /\ AddressAccepted /\ phase = "address" /\ KeepOrDrop /\ job' = job
              /\ phase' = IF HasData THEN "data" ELSE "response"
           \/ m /\ DataAccepted /\ phase = "data" /\ phase' = "response" /\ KeepOrDrop /\ job' = job
           \/ /\ m /\ phase \in {"data", "response"} /\ ~DataAccepted /\ ~ResponseTaken
              /\ KeepOrDrop /\ phase' = phase /\ job' = job
           \/ m /\ phase = "address" /\ ~AddressAccepted /\ UNCHANGED masterVars
           \/ ~m /\ UNCHANGED masterVars
<1>1. /\ phase \in {"idle", "address", "data", "response"}
      /\ ResponseTaken => phase = "response"
      /\ DataAccepted => phase = "data"
      /\ AddressAccepted => phase = "address"
    BY AcceptedOnce DEF Inv, PathType, ResponseTaken, DataAccepted
<1>2. ~m => UNCHANGED masterVars
    BY DEF Tick
<1>3. ASSUME m PROVE Master
    BY <1>3 DEF Tick
<1>4. CASE m /\ (phase = "idle" \/ ResponseTaken)
  <2>1. Rest \/ StartJob
      BY <1>1, <1>3, <1>4 DEF Master
  <2> QED
      BY <1>4, <2>1 DEF Rest, StartJob
<1>5. CASE m /\ phase = "address" /\ AddressAccepted
    BY <1>1, <1>3, <1>5 DEF Master
<1>6. CASE m /\ DataAccepted
    BY <1>1, <1>3, <1>6 DEF Master
<1>7. CASE m /\ phase \in {"data", "response"} /\ ~DataAccepted /\ ~ResponseTaken
    BY <1>1, <1>3, <1>7 DEF Master
<1>8. CASE m /\ phase = "address" /\ ~AddressAccepted
    BY <1>1, <1>3, <1>8 DEF Master
<1> QED
    BY <1>1, <1>2, <1>4, <1>5, <1>6, <1>7, <1>8

\* A table of the targets without an entry.
LEMMA EmptyTable ==
    ASSUME NEW f, f = [u \in Target |-> f[u]], \A u \in Target : f[u] = None
    PROVE  f = Nothing
    BY DEF Nothing

\* A table of the targets with one entry.
LEMMA OneEntry ==
    ASSUME NEW f, f = [u \in Target |-> f[u]], NEW t \in Target, NEW b, f[t] = b,
           \A u \in Target : u # t => f[u] = None
    PROVE  f = Only(t, b)
<1>1. Only(t, b) = [u \in Target |-> IF u = t THEN b ELSE None]
    BY DEF Only, Nothing
<1>2. f = [u \in Target |-> IF u = t THEN b ELSE None]
    OBVIOUS
<1> QED
    BY <1>1, <1>2

\* What the targets do on an edge.
LEMMA TargetStep ==
    ASSUME Inv, ~reset, NEW m \in BOOLEAN, NEW r \in BOOLEAN, NEW w \in BOOLEAN, Tick(m, r, w)
    PROVE  /\ ~r => UNCHANGED responderVars
           /\ r => /\ mux' = IF ~mode.muxed THEN MuxCleared
                            ELSE MuxEdge(mux, src["address"].payload,
                                   \E t \in Target : AddressTaken(t, w), \E t \in Target : Answered(t))
                   /\ \A t \in Target :
                        /\ addr'[t] = IF AddressTaken(t, w) THEN Local(t, src["address"].payload)
                                      ELSE IF Perform(t, w) THEN None ELSE addr[t]
                        /\ data'[t] = IF DataTaken(t, w) THEN src["data"].payload
                                      ELSE IF Perform(t, w) THEN None ELSE data[t]
                        /\ answer'[t] = IF Perform(t, w) THEN addr[t]
                                        ELSE IF Answered(t) THEN None ELSE answer[t]
           /\ addr' = [t \in Target |-> addr'[t]] /\ data' = [t \in Target |-> data'[t]]
           /\ answer' = [t \in Target |-> answer'[t]]
           /\ mode' = mode
<1>1. addr = [t \in Target |-> addr[t]] /\ data = [t \in Target |-> data[t]] /\ answer = [t \in Target |-> answer[t]]
    BY DEF Inv, PathType
<1>2. CASE ~r
    BY <1>1, <1>2 DEF Tick, responderVars
<1>3. CASE r
    BY <1>3 DEF Tick, Responder, Multiplexer
<1> QED
    BY <1>2, <1>3 DEF Tick

\* The gate knows the address of the transaction that is under way.
LEMMA MasterInvStep ==
    ASSUME Inv, ~reset, NEW m \in BOOLEAN, NEW r \in BOOLEAN, NEW w \in BOOLEAN, Tick(m, r, w)
    PROVE  MasterInv'
<1>1. /\ phase = "idle" <=> job = None
      /\ phase = "data" => HasData
      /\ phase = "address" => shown = job
      /\ phase # "address" /\ shown # None => Gated /\ seen /\ shown = src["address"].payload
    BY DEF Inv, MasterInv
<1>2. HasData' = HasData /\ Gated' = Gated
    BY TargetStep DEF HasData, Gated
<1>3. ~AddressAccepted \/ ~m => src'["address"].payload = src["address"].payload
    BY Flow
<1>4. AddressAccepted /\ m => src'["address"].payload = job /\ phase = "address"
    BY Flow, AcceptedOnce
<1>5. m => seen' = (Gated /\ shown # None /\ (seen \/ AddressAccepted))
    BY DEF Tick, Gate
<1>6. ~m => seen' = seen
    BY DEF Tick
<1>7. (phase' = "idle" <=> job' = None) /\ (phase' = "data" => HasData) /\ (phase' = "address" => shown' = job')
    BY <1>1, MasterStep, BeatAssumption DEF masterVars
<1>8. ASSUME phase' # "address", shown' # None
      PROVE  Gated /\ seen' /\ shown' = src'["address"].payload
  <2>1. CASE ~m
      BY <1>1, <1>3, <1>6, <1>8, <2>1, MasterStep DEF masterVars
  <2>2. CASE m
    <3>1. KeepOrDrop /\ (phase = "address" => AddressAccepted)
        BY <1>8, <2>2, MasterStep DEF masterVars, ResponseTaken
    <3>2. Gated /\ shown' = shown
        BY <1>8, <3>1 DEF KeepOrDrop
    <3>3. CASE phase = "address"
        BY <1>1, <1>4, <1>5, <1>8, <2>2, <3>1, <3>2, <3>3
    <3>4. CASE phase # "address"
        BY <1>1, <1>3, <1>4, <1>5, <1>8, <2>2, <3>2, <3>4
    <3> QED
        BY <3>3, <3>4
  <2> QED
      BY <2>1, <2>2
<1> QED
    BY <1>2, <1>7, <1>8 DEF MasterInv

-----------------------------------------------------------------------------
(* Where the transaction goes. *)

\* Nothing is full exactly if none of the three channels is.
LEMMA NoneFull ==
    ASSUME Inv
    PROVE  /\ (\A c \in Channel : ~Full(c)) <=>
                ~Full("address") /\ ~Full("response") /\ (HasData => ~Full("data"))
           /\ (\A c \in Outward : ~Full(c)) <=> ~Full("address") /\ (HasData => ~Full("data"))
    BY DEF Channel, Outward

\* Without an address to take, to perform or to answer the targets rest.
LEMMA TargetsRest ==
    ASSUME Inv, ~reset, NEW m \in BOOLEAN, NEW r \in BOOLEAN, NEW w \in BOOLEAN, Tick(m, r, w),
           addr = Nothing, answer = Nothing, data = Nothing, ~mux.active,
           \A t \in Target : ~AddressTaken(t, w)
    PROVE  /\ addr' = Nothing /\ answer' = Nothing /\ data' = Nothing /\ ~mux'.active
           /\ \A t \in Target : ~Answered(t) /\ ~DataTaken(t, w)
<1>1. \A t \in Target : addr[t] = None /\ answer[t] = None /\ data[t] = None
    BY DEF Nothing
<1>2. \A t \in Target : ~Answered(t) /\ ~DataTaken(t, w) /\ ~Perform(t, w)
  <2> SUFFICES ASSUME NEW t \in Target PROVE ~Answered(t) /\ ~DataTaken(t, w) /\ ~Perform(t, w)
      OBVIOUS
  <2>1. ~Answered(t) /\ ~Perform(t, w)
      BY <1>1 DEF Answered, Perform
  <2>2. ~DataTaken(t, w)
    <3>1. mode.muxed => ~Routed(t)
        BY DEF Routed, RoutedTo
    <3> QED
        BY <1>1, <3>1 DEF DataTaken
  <2> QED
      BY <2>1, <2>2
<1>3. CASE ~r
    BY <1>2, <1>3, TargetStep DEF responderVars
<1>4. CASE r
  <2>1. \A t \in Target : addr'[t] = None /\ answer'[t] = None /\ data'[t] = None
      BY <1>1, <1>2, <1>4, TargetStep
  <2>2. addr' = Nothing /\ answer' = Nothing /\ data' = Nothing
      BY <2>1, TargetStep, EmptyTable
  <2>3. mux' \in {MuxCleared, mux}
      BY <1>2, <1>4, TargetStep DEF MuxEdge
  <2>4. ~mux'.active
      BY <2>3 DEF MuxCleared
  <2> QED
      BY <1>2, <2>2, <2>4
<1> QED
    BY <1>3, <1>4

\* An edge while no transaction is under way may accept an address.
LEMMA FromWaiting ==
    ASSUME Inv, ~reset, NEW m \in BOOLEAN, NEW r \in BOOLEAN, NEW w \in BOOLEAN, Tick(m, r, w), Waiting
    PROVE  Waiting' \/ Crossing'
<1>1. /\ phase \in {"idle", "address"} /\ ~mux.active
      /\ ~Full("address") /\ ~Full("response") /\ (HasData => ~Full("data"))
      /\ addr = Nothing /\ data = Nothing /\ answer = Nothing
    BY NoneFull DEF Waiting
<1>2. /\ \A t \in Target : ~AddressTaken(t, w)
      /\ ~ResponseTaken /\ ~DataAccepted
    BY <1>1, Flow DEF DataAccepted
<1>3. /\ addr' = Nothing /\ answer' = Nothing /\ data' = Nothing /\ ~mux'.active
      /\ \A t \in Target : ~Answered(t) /\ ~DataTaken(t, w)
    BY <1>1, <1>2, TargetsRest
<1>4. HasData' = HasData /\ Channel' = Channel
    BY TargetStep DEF HasData, Channel, Outward
<1>5. ~Full("response")' /\ (HasData => ~Full("data")')
    BY <1>1, <1>2, <1>3, Flow
<1>6. CASE m /\ AddressAccepted
  <2>1. phase = "address" /\ job' = job /\ phase' = IF HasData THEN "data" ELSE "response"
      BY <1>1, <1>2, <1>6, AcceptedOnce, MasterStep
  <2>2. Full("address")' /\ src'["address"].payload = job
      BY <1>6, Flow
  <2> QED
      BY <1>3, <1>4, <1>5, <2>1, <2>2 DEF Crossing, At
<1>7. CASE ~(m /\ AddressAccepted)
  <2>1. phase' \in {"idle", "address"}
      BY <1>1, <1>2, <1>7, MasterStep DEF masterVars
  <2>2. ~Full("address")'
      BY <1>1, <1>7, Flow
  <2>3. \A c \in Channel : ~Full(c)'
      BY <1>5, <2>2 DEF Channel, Outward
  <2> QED
      BY <1>3, <1>4, <2>1, <2>3 DEF Waiting
<1> QED
    BY <1>6, <1>7

\* The master keeps its transaction until the response is taken.
LEMMA JobKept ==
    ASSUME Inv, ~reset, NEW m \in BOOLEAN, NEW r \in BOOLEAN, NEW w \in BOOLEAN, Tick(m, r, w),
           phase \in {"data", "response"}, ~ResponseTaken
    PROVE  /\ job' = job /\ job \in Beat /\ ~AddressAccepted
           /\ phase' = IF m /\ DataAccepted THEN "response" ELSE phase
           /\ DataAccepted => phase = "data"
<1>1. ~AddressAccepted
    BY AcceptedOnce
<1>2. DataAccepted => phase = "data"
    BY DEF DataAccepted
<1> QED
    BY <1>1, <1>2, MasterStep, Situations DEF masterVars

\* An address that crosses stays on its way, or a target takes it.
LEMMA FromCrossing ==
    ASSUME Inv, ~reset, NEW m \in BOOLEAN, NEW r \in BOOLEAN, NEW w \in BOOLEAN, Tick(m, r, w), Crossing
    PROVE  Crossing' \/ \E t \in Target : Accepted(t)'
<1>1. /\ phase \in {"data", "response"} /\ ~mux.active
      /\ Full("address") /\ src["address"].payload = job /\ ~Full("response")
      /\ HasData => IF phase = "data" THEN ~Full("data") ELSE Full("data") /\ src["data"].payload = job
      /\ addr = Nothing /\ data = Nothing /\ answer = Nothing
    BY DEF Crossing, At
<1>2. ~ResponseTaken
    BY <1>1, Flow
<1>3. /\ job' = job /\ job \in Beat /\ ~AddressAccepted
      /\ phase' = IF m /\ DataAccepted THEN "response" ELSE phase
      /\ DataAccepted => phase = "data"
      /\ phase = "data" => HasData
    BY <1>1, <1>2, JobKept DEF Inv, MasterInv
<1>4. HasData' = HasData /\ mode' = mode
    BY TargetStep DEF HasData
<1>5. \A t \in Target : addr[t] = None /\ answer[t] = None /\ data[t] = None
    BY <1>1 DEF Nothing
<1>6. \A t \in Target : ~Answered(t) /\ ~Perform(t, w)
    BY <1>5 DEF Answered, Perform
<1>7. src'["address"].payload = job /\ ~Full("response")'
    BY <1>1, <1>2, <1>3, <1>6, Flow
<1>8. CASE \A t \in Target : ~(r /\ AddressTaken(t, w))
  <2>1. Full("address")'
      BY <1>1, <1>8, Flow
  <2>2. \A t \in Target : ~(r /\ DataTaken(t, w))
    <3>1. \A t \in Target : mode.muxed => ~Routed(t)
        BY <1>1 DEF Routed, RoutedTo
    <3> QED
        BY <1>5, <1>8, <3>1 DEF DataTaken
  <2>3. HasData => IF phase' = "data" THEN ~Full("data")' ELSE Full("data")' /\ src'["data"].payload = job
      BY <1>1, <1>3, <2>2, Flow
  <2>4. addr' = Nothing /\ answer' = Nothing /\ data' = Nothing /\ ~mux'.active
    <3>1. CASE ~r
        BY <1>1, <3>1, TargetStep DEF responderVars
    <3>2. CASE r
      <4>1. \A t \in Target : ~AddressTaken(t, w)
          BY <1>8, <3>2
      <4> QED
          BY <1>1, <4>1, TargetsRest
    <3> QED
        BY <3>1, <3>2
  <2> QED
      BY <1>1, <1>3, <1>4, <1>7, <2>1, <2>3, <2>4 DEF Crossing, At
<1>9. CASE \E t \in Target : r /\ AddressTaken(t, w)
  <2>1. PICK t \in Target : r /\ AddressTaken(t, w)
      BY <1>9
  <2>2. /\ IF mode.muxed THEN Decode(job) = t ELSE t = 1
        /\ \A u \in Target : AddressTaken(u, w) => u = t
      BY <1>1, <2>1 DEF AddressTaken, Offered, OffersTo
  <2>3. ~Full("address")'
      BY <1>3, <2>1, Flow
  <2>4. addr' = Only(t, Local(t, job)) /\ answer' = Nothing
    <3>1. addr'[t] = Local(t, job) /\ \A u \in Target : (u # t => addr'[u] = None) /\ answer'[u] = None
        BY <1>1, <1>5, <1>6, <2>1, <2>2, TargetStep
    <3>2. addr' = [u \in Target |-> addr'[u]] /\ answer' = [u \in Target |-> answer'[u]]
        BY TargetStep
    <3>3. addr' = Only(t, Local(t, job))
        BY <3>1, <3>2, OneEntry
    <3>4. answer' = Nothing
        BY <3>1, <3>2, EmptyTable
    <3> QED
        BY <3>3, <3>4
  <2>5. Routed(t)'
    <3>1. CASE mode.muxed
      <4>1. mux' = [active |-> TRUE, sel |-> Decode(job)]
          BY <1>1, <2>1, <3>1, TargetStep DEF MuxEdge
      <4> QED
          BY <1>4, <2>2, <3>1, <4>1 DEF Routed, RoutedTo
    <3>2. CASE ~mode.muxed
        BY <1>4, <2>2, <3>2 DEF Routed
    <3> QED
        BY <3>1, <3>2
  <2>6. \A u \in Target : DataTaken(u, w) => u = t /\ phase = "response"
    <3> SUFFICES ASSUME NEW u \in Target, DataTaken(u, w) PROVE u = t /\ phase = "response"
        OBVIOUS
    <3>1. Full("data") /\ HasData
        BY Flow
    <3>2. Routed(u) /\ (mode.muxed \/ addr[u] # None \/ AddressTaken(u, w))
        BY DEF DataTaken
    <3> QED
        BY <1>1, <1>5, <2>2, <3>1, <3>2 DEF Routed, RoutedTo
  <2>7. CASE \A u \in Target : ~DataTaken(u, w)
    <3>1. data' = Nothing
      <4>1. \A u \in Target : data'[u] = None
          BY <1>5, <1>6, <2>1, <2>7, TargetStep
      <4> QED
          BY <4>1, TargetStep, EmptyTable
    <3>2. HasData => IF phase' = "data" THEN ~Full("data")' ELSE Full("data")' /\ src'["data"].payload = job
        BY <1>1, <1>3, <2>7, Flow
    <3>3. phase' \in {"data", "response"}
        BY <1>1, <1>3
    <3>4. Accepted(t)'
        BY <1>3, <1>4, <1>7, <2>3, <2>4, <2>5, <3>1, <3>2, <3>3 DEF Accepted, At, Only, Nothing
    <3> QED
        BY <3>4
  <2>8. CASE DataTaken(t, w)
    <3>1. phase = "response" /\ HasData /\ Full("data") /\ src["data"].payload = job
        BY <1>1, <2>6, <2>8, Flow
    <3>2. data' = Only(t, job)
      <4>1. data'[t] = job /\ \A u \in Target : u # t => data'[u] = None
          BY <1>5, <1>6, <2>1, <2>6, <2>8, <3>1, TargetStep
      <4>2. data' = [u \in Target |-> data'[u]]
          BY TargetStep
      <4> QED
          BY <4>1, <4>2, OneEntry
    <3>3. ~Full("data")' /\ phase' = "response"
        BY <1>3, <2>1, <2>8, <3>1, Flow
    <3>4. Accepted(t)'
        BY <1>3, <1>4, <1>7, <2>3, <2>4, <2>5, <3>1, <3>2, <3>3 DEF Accepted, Only, Nothing
    <3> QED
        BY <3>4
  <2> QED
      BY <2>6, <2>7, <2>8
<1> QED
    BY <1>8, <1>9

\* A target has the address until it performs the transaction, with the data that belongs to it.
LEMMA FromAccepted ==
    ASSUME Inv, ~reset, NEW m \in BOOLEAN, NEW r \in BOOLEAN, NEW w \in BOOLEAN, Tick(m, r, w),
           NEW t \in Target, Accepted(t)
    PROVE  Accepted(t)' \/ Performed(t)'
<1> DEFINE a == Local(t, job)
<1>1. /\ phase \in {"data", "response"} /\ Routed(t)
      /\ ~Full("address") /\ ~Full("response")
      /\ addr = Only(t, a) /\ answer = Nothing
      /\ phase = "data" => HasData
    BY DEF Accepted, Inv, MasterInv
<1>2. ~ResponseTaken /\ \A u \in Target : ~AddressTaken(u, w)
    BY <1>1, Flow
<1>3. /\ job' = job /\ job \in Beat /\ ~AddressAccepted
      /\ phase' = IF m /\ DataAccepted THEN "response" ELSE phase
      /\ DataAccepted => phase = "data"
    BY <1>1, <1>2, JobKept
<1>4. HasData' = HasData /\ mode' = mode
    BY TargetStep DEF HasData
<1>5. a # None
    BY <1>3, Addresses
<1> HIDE DEF a
<1>6. addr[t] = a /\ \A u \in Target : answer[u] = None /\ (u # t => addr[u] = None)
    BY <1>1 DEF Only, Nothing
<1>7. \A u \in Target : ~Answered(u) /\ (u # t => ~Perform(u, w) /\ ~DataTaken(u, w))
    BY <1>1, <1>6 DEF Answered, Perform, DataTaken, Routed, RoutedTo
<1>8. ~Full("address")' /\ ~Full("response")'
    BY <1>1, <1>2, <1>3, <1>7, Flow
<1>9. Routed(t)'
  <2>1. CASE ~r
      BY <1>1, <1>4, <2>1, TargetStep DEF Routed, responderVars
  <2>2. CASE ~mode.muxed
      BY <1>1, <1>4, <2>2 DEF Routed
  <2>3. CASE r /\ mode.muxed
    <3>1. mux' = mux
        BY <1>2, <1>7, <2>3, TargetStep DEF MuxEdge
    <3> QED
        BY <1>1, <1>4, <3>1 DEF Routed
  <2> QED
      BY <2>1, <2>2, <2>3
<1>10. /\ addr' = [u \in Target |-> addr'[u]] /\ data' = [u \in Target |-> data'[u]]
       /\ answer' = [u \in Target |-> answer'[u]]
    BY TargetStep
<1>11. data[t] = None \/ (HasData /\ data = Only(t, job) /\ ~Full("data") /\ phase = "response")
    BY DEF Accepted, Nothing
<1>12. \A u \in Target : u # t => data[u] = None
    BY DEF Accepted, Nothing, Only
<1>13. CASE r /\ Perform(t, w)
  <2>1. HasData => data = Only(t, job) /\ ~Full("data") /\ phase = "response"
      BY <1>11, <1>13 DEF Perform
  <2>2. \A u \in Target : ~DataTaken(u, w)
      BY <2>1, Flow
  <2>3. \A u \in Target : addr'[u] = None /\ data'[u] = None /\ (u # t => answer'[u] = None)
    <3> TAKE u \in Target
    <3>1. /\ addr'[u] = IF AddressTaken(u, w) THEN Local(u, src["address"].payload)
                        ELSE IF Perform(u, w) THEN None ELSE addr[u]
          /\ data'[u] = IF DataTaken(u, w) THEN src["data"].payload
                        ELSE IF Perform(u, w) THEN None ELSE data[u]
          /\ answer'[u] = IF Perform(u, w) THEN addr[u]
                          ELSE IF Answered(u) THEN None ELSE answer[u]
        BY <1>13, TargetStep
    <3>2. ~AddressTaken(u, w) /\ ~DataTaken(u, w) /\ ~Answered(u) /\ (u # t => ~Perform(u, w))
        BY <1>2, <1>7, <2>2
    <3>3. CASE u = t
        BY <1>13, <3>1, <3>2, <3>3
    <3>4. CASE u # t
      <4>1. addr[u] = None /\ data[u] = None /\ answer[u] = None
          BY <1>6, <1>12, <3>4
      <4> QED
          BY <3>1, <3>2, <3>4, <4>1
    <3> QED
        BY <3>3, <3>4
  <2>4. answer'[t] = a
      BY <1>6, <1>13, TargetStep
  <2>5. addr' = Nothing /\ data' = Nothing
      BY <1>10, <2>3, EmptyTable
  <2>6. answer' = Only(t, a)
      BY <1>10, <2>3, <2>4, OneEntry
  <2>7. phase' = "response" /\ (HasData => ~Full("data")')
      BY <1>1, <1>3, <2>1, Flow
  <2>8. \A c \in Channel' : ~Full(c)'
      BY <1>4, <1>8, <2>7 DEF Channel, Outward
  <2>9. Performed(t)'
      BY <1>3, <1>9, <2>5, <2>6, <2>7, <2>8 DEF Performed, a, Only, Nothing
  <2> QED
      BY <2>9
<1>14. CASE ~(r /\ Perform(t, w))
  <2>1. /\ \A u \in Target : answer'[u] = None /\ (u # t => addr'[u] = None)
        /\ addr'[t] = a
    <3>1. CASE ~r
        BY <1>6, <3>1, TargetStep DEF responderVars
    <3>2. CASE r
        BY <1>2, <1>6, <1>7, <1>14, <3>2, TargetStep
    <3> QED
        BY <3>1, <3>2
  <2>2. addr' = Only(t, a) /\ answer' = Nothing
      BY <1>10, <2>1, OneEntry, EmptyTable
  <2>3. /\ \A u \in Target : u # t => data'[u] = None
        /\ data'[t] = IF r /\ DataTaken(t, w) THEN src["data"].payload ELSE data[t]
    <3>1. CASE ~r
        BY <1>12, <3>1, TargetStep DEF responderVars
    <3>2. CASE r
        BY <1>7, <1>12, <1>14, <3>2, TargetStep
    <3> QED
        BY <3>1, <3>2
  <2>4. (r /\ \E u \in Target : DataTaken(u, w)) <=> r /\ DataTaken(t, w)
      BY <1>7
  <2>5. IF HasData
        THEN \/ phase' = "data" /\ ~Full("data")' /\ data' = Nothing
             \/ phase' = "response" /\ Full("data")' /\ src'["data"].payload = job /\ data' = Nothing
             \/ phase' = "response" /\ ~Full("data")' /\ data' = Only(t, job)
        ELSE data' = Nothing
    <3>1. CASE ~HasData
      <4>1. data'[t] = None
          BY <2>3, <3>1 DEF DataTaken, Accepted, Nothing
      <4> QED
          BY <1>10, <2>3, <3>1, <4>1, EmptyTable
    <3>2. CASE HasData /\ phase = "data" /\ ~Full("data") /\ data = Nothing
      <4>1. ~DataTaken(t, w) /\ data[t] = None
          BY <3>2, Flow DEF Nothing
      <4>2. data' = Nothing
          BY <1>10, <2>3, <4>1, EmptyTable
      <4> QED
          BY <1>3, <2>4, <3>2, <4>1, <4>2, Flow
    <3>3. CASE HasData /\ phase = "response" /\ At("data") /\ data = Nothing
      <4>1. phase' = "response" /\ ~DataAccepted /\ src'["data"].payload = job
          BY <1>3, <3>3, Flow DEF At
      <4>2. Full("data")' <=> ~(r /\ DataTaken(t, w))
          BY <2>4, <3>3, <4>1, Flow DEF At
      <4>3. CASE r /\ DataTaken(t, w)
        <5>1. data'[t] = job
            BY <2>3, <3>3, <4>3 DEF At
        <5>2. data' = Only(t, job)
            BY <1>10, <2>3, <5>1, OneEntry
        <5> QED
            BY <3>3, <4>1, <4>2, <4>3, <5>2
      <4>4. CASE ~(r /\ DataTaken(t, w))
        <5>1. data' = Nothing
            BY <1>10, <2>3, <3>3, <4>4, EmptyTable DEF Nothing
        <5> QED
            BY <3>3, <4>1, <4>2, <4>4, <5>1
      <4> QED
          BY <4>3, <4>4
    <3>4. CASE HasData /\ phase = "response" /\ ~Full("data") /\ data = Only(t, job)
      <4>1. ~DataTaken(t, w) /\ ~DataAccepted /\ data[t] = job
          BY <1>3, <3>4, Flow DEF Only, Nothing
      <4>2. data' = Only(t, job)
          BY <1>10, <2>3, <4>1, OneEntry
      <4> QED
          BY <1>3, <2>4, <3>4, <4>1, <4>2, Flow
    <3> QED
        BY <3>1, <3>2, <3>3, <3>4 DEF Accepted
  <2>6. phase' \in {"data", "response"}
      BY <1>1, <1>3
  <2>7. Accepted(t)'
      BY <1>3, <1>4, <1>8, <1>9, <2>2, <2>5, <2>6 DEF Accepted, At, a, Only, Nothing
  <2> QED
      BY <2>7
<1> QED
    BY <1>13, <1>14

\* The target has the answer until it enters the response channel.
LEMMA FromPerformed ==
    ASSUME Inv, ~reset, NEW m \in BOOLEAN, NEW r \in BOOLEAN, NEW w \in BOOLEAN, Tick(m, r, w),
           NEW t \in Target, Performed(t)
    PROVE  Performed(t)' \/ Answering'
<1> DEFINE a == Local(t, job)
<1>1. /\ phase = "response" /\ Routed(t)
      /\ ~Full("address") /\ ~Full("response") /\ (HasData => ~Full("data"))
      /\ addr = Nothing /\ data = Nothing /\ answer = Only(t, a)
    BY NoneFull DEF Performed
<1>2. /\ ~ResponseTaken /\ ~DataAccepted
      /\ \A u \in Target : ~AddressTaken(u, w) /\ ~DataTaken(u, w)
    BY <1>1, Flow DEF DataAccepted
<1>3. job' = job /\ job \in Beat /\ ~AddressAccepted /\ phase' = "response"
    BY <1>1, <1>2, JobKept
<1>4. HasData' = HasData /\ mode' = mode
    BY TargetStep DEF HasData
<1>5. a # None
    BY <1>3, Addresses
<1> HIDE DEF a
<1>6. answer[t] = a /\ \A u \in Target : addr[u] = None /\ data[u] = None /\ (u # t => answer[u] = None)
    BY <1>1 DEF Only, Nothing
<1>7. \A u \in Target : ~Perform(u, w) /\ (u # t => ~Answered(u))
    BY <1>6 DEF Perform, Answered
<1>8. /\ addr' = [u \in Target |-> addr'[u]] /\ data' = [u \in Target |-> data'[u]]
      /\ answer' = [u \in Target |-> answer'[u]]
    BY TargetStep
<1>9. /\ \A u \in Target : addr'[u] = None /\ data'[u] = None /\ (u # t => answer'[u] = None)
      /\ answer'[t] = IF r /\ Answered(t) THEN None ELSE a
  <2>1. CASE ~r
      BY <1>6, <2>1, TargetStep DEF responderVars
  <2>2. CASE r
      BY <1>2, <1>6, <1>7, <2>2, TargetStep
  <2> QED
      BY <2>1, <2>2
<1>10. addr' = Nothing /\ data' = Nothing
    BY <1>8, <1>9, EmptyTable
<1>11. ~Full("address")' /\ (HasData => ~Full("data")')
    BY <1>1, <1>2, <1>3, Flow
<1>12. CASE r /\ Answered(t)
  <2>1. answer' = Nothing
      BY <1>8, <1>9, <1>12, EmptyTable
  <2>2. Full("response")' /\ src'["response"].payload = job
      BY <1>12, Flow
  <2>3. ~mux'.active
    <3>1. CASE ~mode.muxed
      <4>1. mux' = MuxCleared
          BY <1>12, <3>1, TargetStep
      <4> QED
          BY <4>1 DEF MuxCleared
    <3>2. CASE mode.muxed
      <4>1. mux.active
          BY <1>1, <3>2 DEF Routed, RoutedTo
      <4>2. mux' = [mux EXCEPT !.active = FALSE]
          BY <1>12, <3>2, <4>1, TargetStep DEF MuxEdge
      <4> QED
          BY <4>2 DEF Inv, PathType
    <3> QED
        BY <3>1, <3>2
  <2>4. \A c \in Outward' : ~Full(c)'
      BY <1>4, <1>11 DEF Outward
  <2>5. Answering'
      BY <1>3, <1>10, <2>1, <2>2, <2>3, <2>4 DEF Answering, At
  <2> QED
      BY <2>5
<1>13. CASE ~(r /\ Answered(t))
  <2>1. answer' = Only(t, a)
      BY <1>8, <1>9, <1>13, OneEntry
  <2>2. ~Full("response")'
      BY <1>1, <1>7, <1>13, Flow
  <2>3. Routed(t)'
    <3>1. CASE ~r
        BY <1>1, <1>4, <3>1, TargetStep DEF Routed, responderVars
    <3>2. CASE ~mode.muxed
        BY <1>1, <1>4, <3>2 DEF Routed
    <3>3. CASE r /\ mode.muxed
      <4>1. mux' = mux
          BY <1>2, <1>7, <1>13, <3>3, TargetStep DEF MuxEdge
      <4> QED
          BY <1>1, <1>4, <4>1 DEF Routed
    <3> QED
        BY <3>1, <3>2, <3>3
  <2>4. \A c \in Channel' : ~Full(c)'
      BY <1>4, <1>11, <2>2 DEF Channel, Outward
  <2>5. Performed(t)'
      BY <1>3, <1>10, <2>1, <2>3, <2>4 DEF Performed, a, Only, Nothing
  <2> QED
      BY <2>5
<1> QED
    BY <1>12, <1>13

\* The response crosses until the master takes it.
LEMMA FromAnswering ==
    ASSUME Inv, ~reset, NEW m \in BOOLEAN, NEW r \in BOOLEAN, NEW w \in BOOLEAN, Tick(m, r, w), Answering
    PROVE  Answering' \/ Waiting'
<1>1. /\ phase = "response" /\ ~mux.active
      /\ Full("response") /\ src["response"].payload = job
      /\ ~Full("address") /\ (HasData => ~Full("data"))
      /\ addr = Nothing /\ data = Nothing /\ answer = Nothing
    BY NoneFull DEF Answering, At
<1>2. /\ ~DataAccepted /\ ~AddressAccepted
      /\ \A t \in Target : ~AddressTaken(t, w)
    BY <1>1, Flow, AcceptedOnce DEF DataAccepted
<1>3. /\ addr' = Nothing /\ answer' = Nothing /\ data' = Nothing /\ ~mux'.active
      /\ \A t \in Target : ~Answered(t) /\ ~DataTaken(t, w)
    BY <1>1, <1>2, TargetsRest
<1>4. HasData' = HasData
    BY TargetStep DEF HasData
<1>5. ~Full("address")' /\ (HasData => ~Full("data")')
    BY <1>1, <1>2, Flow
<1>6. CASE m /\ ResponseTaken
  <2>1. phase' \in {"idle", "address"}
      BY <1>1, <1>2, <1>6, MasterStep
  <2>2. ~Full("response")'
      BY <1>3, <1>6, Flow
  <2>3. \A c \in Channel' : ~Full(c)'
      BY <1>4, <1>5, <2>2 DEF Channel, Outward
  <2>4. Waiting'
      BY <1>3, <2>1, <2>3 DEF Waiting
  <2> QED
      BY <2>4
<1>7. CASE ~(m /\ ResponseTaken)
  <2>1. phase' = "response" /\ job' = job
      BY <1>1, <1>2, <1>7, MasterStep DEF masterVars
  <2>2. Full("response")' /\ src'["response"].payload = job
      BY <1>1, <1>3, <1>7, Flow
  <2>3. \A c \in Outward' : ~Full(c)'
      BY <1>4, <1>5 DEF Outward
  <2>4. Answering'
      BY <1>3, <2>1, <2>2, <2>3 DEF Answering, At
  <2> QED
      BY <2>4
<1> QED
    BY <1>6, <1>7

-----------------------------------------------------------------------------
(* The invariant. *)

\* An edge out of reset leaves the transaction in one of the situations.
LEMMA PathStep ==
    ASSUME Inv, ~reset, NEW m \in BOOLEAN, NEW r \in BOOLEAN, NEW w \in BOOLEAN, Tick(m, r, w)
    PROVE  PathInv'
<1>1. Target' = Target
    OBVIOUS
<1>2. CASE Waiting
    BY <1>2, FromWaiting DEF PathInv
<1>3. CASE Crossing
    BY <1>3, FromCrossing DEF PathInv
<1>4. CASE Answering
    BY <1>4, FromAnswering DEF PathInv
<1>5. ASSUME NEW t \in Target, Accepted(t) PROVE PathInv'
    BY <1>5, FromAccepted DEF PathInv
<1>6. ASSUME NEW t \in Target, Performed(t) PROVE PathInv'
    BY <1>6, FromPerformed DEF PathInv
<1> QED
    BY <1>2, <1>3, <1>4, <1>5, <1>6, Situations

\* The master's registers stay in their types.
LEMMA MasterTypes ==
    ASSUME Inv, ~reset, NEW m \in BOOLEAN, NEW r \in BOOLEAN, NEW w \in BOOLEAN, Tick(m, r, w)
    PROVE  /\ phase' \in {"idle", "address", "data", "response"}
           /\ {job', shown'} \subseteq Beat \cup {None}
           /\ {outstanding', seen'} \subseteq BOOLEAN
<1>1. /\ phase \in {"idle", "address", "data", "response"}
      /\ {job, shown} \subseteq Beat \cup {None} /\ {outstanding, seen} \subseteq BOOLEAN
    BY DEF Inv, PathType
<1>2. {outstanding', seen'} \subseteq BOOLEAN
    BY <1>1 DEF Tick, Gate
<1>3. KeepOrDrop => shown' \in Beat \cup {None}
    BY <1>1 DEF KeepOrDrop
<1> QED
    BY <1>1, <1>2, <1>3, MasterStep DEF masterVars

\* The targets' registers stay in their types.
LEMMA TargetTypes ==
    ASSUME Inv, ~reset, NEW m \in BOOLEAN, NEW r \in BOOLEAN, NEW w \in BOOLEAN, Tick(m, r, w)
    PROVE  /\ mux' \in [active : BOOLEAN, sel : Target \cup {1}]
           /\ {addr', data', answer'} \subseteq [Target -> Int \cup {None}]
<1>1. /\ mux \in [active : BOOLEAN, sel : Target \cup {1}]
      /\ \A t \in Target : {addr[t], data[t], answer[t]} \subseteq Int \cup {None}
    BY DEF Inv, PathType
<1>2. ASSUME NEW t \in Target, AddressTaken(t, w)
      PROVE  /\ src["address"].payload \in Beat
             /\ mode.muxed => Decode(src["address"].payload) = t
  <2>1. Full("address") /\ "address" \in Channel
      BY <1>2, Flow, Channels DEF Inv
  <2>2. src["address"].payload \in Beat
      BY <2>1, ChannelStep
  <2>3. mode.muxed => Decode(src["address"].payload) = t
      BY <1>2 DEF AddressTaken, Offered, OffersTo
  <2> QED
      BY <2>2, <2>3
<1>3. ASSUME NEW t \in Target, DataTaken(t, w)
      PROVE  src["data"].payload \in Beat
  <2>1. Full("data") /\ "data" \in Channel
      BY <1>3, Flow DEF Channel, Outward
  <2> QED
      BY <2>1, ChannelStep
<1>4. CASE ~r
  <2>1. mux' = mux /\ addr' = addr /\ data' = data /\ answer' = answer
      BY <1>4, TargetStep DEF responderVars
  <2>2. {addr, data, answer} \subseteq [Target -> Int \cup {None}]
      BY DEF Inv, PathType
  <2> QED
      BY <1>1, <2>1, <2>2
<1>5. CASE r
  <2>1. mux' \in [active : BOOLEAN, sel : Target \cup {1}]
    <3>1. CASE ~mode.muxed
      <4>1. mux' = MuxCleared
          BY <1>5, <3>1, TargetStep
      <4> QED
          BY <4>1 DEF MuxCleared
    <3>2. CASE mode.muxed
      <4> DEFINE address == src["address"].payload
                 accepted == \E t \in Target : AddressTaken(t, w)
                 ended == \E t \in Target : Answered(t)
      <4>1. mux' = MuxEdge(mux, address, accepted, ended)
          BY <1>5, <3>2, TargetStep
      <4>2. accepted => Decode(address) \in Target
          BY <1>2, <3>2
      <4> HIDE DEF address, accepted, ended
      <4> QED
          BY <1>1, <4>1, <4>2 DEF MuxEdge
    <3> QED
        BY <3>1, <3>2
  <2>2. ASSUME NEW t \in Target
        PROVE  {addr'[t], data'[t], answer'[t]} \subseteq Int \cup {None}
    <3>1. AddressTaken(t, w) => Local(t, src["address"].payload) \in Int
        BY <1>2, Addresses
    <3>2. DataTaken(t, w) => src["data"].payload \in Int
      <4>1. Beat \subseteq Int
          BY ModeAssumption
      <4>2. DataTaken(t, w) => src["data"].payload \in Beat
          BY <1>3, Zenon
      <4> QED
          BY <4>1, <4>2, Zenon
    <3>3. addr'[t] \in Int \cup {None}
        BY <1>1, <1>5, <3>1, TargetStep
    <3>4. data'[t] \in Int \cup {None}
        BY <1>1, <1>5, <3>2, TargetStep
    <3>5. answer'[t] \in Int \cup {None}
        BY <1>1, <1>5, TargetStep
    <3> QED
        BY <3>3, <3>4, <3>5
  <2>3. /\ addr' = [t \in Target |-> addr'[t]] /\ data' = [t \in Target |-> data'[t]]
        /\ answer' = [t \in Target |-> answer'[t]]
      BY TargetStep
  <2>4. addr' \in [Target -> Int \cup {None}] /\ data' \in [Target -> Int \cup {None}]
      BY <2>2, <2>3
  <2>5. answer' \in [Target -> Int \cup {None}]
      BY <2>2, <2>3
  <2> QED
      BY <2>1, <2>4, <2>5
<1> QED
    BY <1>4, <1>5

\* The channels keep their types and stay rings.
LEMMA ChannelsKept ==
    ASSUME Inv, ~reset, NEW m \in BOOLEAN, NEW r \in BOOLEAN, NEW w \in BOOLEAN, Tick(m, r, w)
    PROVE  /\ src' \in [Channel' -> Source] /\ dst' \in [Channel' -> Destination]
           /\ \A c \in Channel' : Ring(src'[c], dst'[c])
<1>1. Channel' = Channel
    BY DEF Tick, Channel, Outward, HasData
<1>2. \A c \in Channel : src'[c] \in Source /\ dst'[c] \in Destination /\ Ring(src'[c], dst'[c])
    BY ChannelStep
<1>3. src' = [c \in Channel |-> src'[c]] /\ dst' = [c \in Channel |-> dst'[c]]
    BY DEF Tick, Mailboxes
<1>4. src' \in [Channel -> Source] /\ dst' \in [Channel -> Destination]
    BY <1>2, <1>3
<1> QED
    BY <1>1, <1>2, <1>4

\* An edge out of reset preserves the invariant.
LEMMA Running ==
    ASSUME Inv, ~reset, NEW m \in BOOLEAN, NEW r \in BOOLEAN, NEW w \in BOOLEAN, Tick(m, r, w)
    PROVE  Inv'
<1>1. mode' = mode /\ reset' = reset
    BY DEF Tick
<1>2. {masterCleared', responderCleared'} \subseteq BOOLEAN
    BY DEF Tick, Inv, PathType
<1>3. PathType'
    BY <1>1, <1>2, MasterTypes, TargetTypes, ChannelsKept DEF Inv, PathType
<1>4. RingsInv'
    BY ChannelsKept DEF RingsInv
<1>5. ResetInv'
    BY <1>1 DEF ResetInv
<1> QED
    BY <1>3, <1>4, <1>5, PathStep, MasterInvStep DEF Inv

\* An edge in reset preserves the invariant.
LEMMA InReset ==
    ASSUME Inv, reset, NEW m \in BOOLEAN, NEW r \in BOOLEAN, NEW w \in BOOLEAN, Tick(m, r, w)
    PROVE  Inv'
<1>1. mode' = mode /\ reset' = reset /\ Channel' = Channel /\ Outward' = Outward /\ Target' = Target
    BY DEF Tick, Channel, Outward, HasData
<1>2. /\ src' = [c \in Channel |-> IF ~(IF c \in Outward THEN m ELSE r) THEN src[c] ELSE ClearedSource]
      /\ dst' = [c \in Channel |-> IF ~(IF c \in Outward THEN r ELSE m) THEN dst[c] ELSE ClearedDestination]
    BY DEF Tick, Mailboxes
<1>3. /\ src' \in [Channel -> Source] /\ dst' \in [Channel -> Destination]
    BY <1>2, ClearedRing DEF Inv, PathType
<1>4. /\ phase' \in {"idle", "address", "data", "response"}
      /\ {job', shown'} \subseteq Beat \cup {None}
      /\ {outstanding', seen', masterCleared'} \subseteq BOOLEAN
      /\ masterCleared' =>
           /\ phase' = "idle" /\ job' = None /\ shown' = None
           /\ \A c \in Outward : src'[c] = ClearedSource
           /\ dst'["response"] = ClearedDestination
  <2>1. CASE m
    <3>1. phase' = "idle" /\ job' = None /\ shown' = None
        BY <2>1 DEF Tick, Master
    <3>2. {outstanding', seen', masterCleared'} \subseteq BOOLEAN
        BY <2>1 DEF Tick, Gate, Inv, PathType
    <3>3. (\A c \in Outward : src'[c] = ClearedSource) /\ dst'["response"] = ClearedDestination
        BY <1>2, <2>1, Channels DEF Inv, Channel
    <3> QED
        BY <3>1, <3>2, <3>3
  <2>2. CASE ~m
    <3>1. UNCHANGED <<masterVars, outstanding, seen, masterCleared>>
        BY <2>2 DEF Tick
    <3>2. (\A c \in Outward : src'[c] = src[c]) /\ dst'["response"] = dst["response"]
        BY <1>2, <2>2, Channels DEF Inv, Channel
    <3> QED
        BY <3>1, <3>2 DEF Inv, PathType, ResetInv, masterVars
  <2> QED
      BY <2>1, <2>2
<1>5. /\ mux' \in [active : BOOLEAN, sel : Target \cup {1}]
      /\ {addr', data', answer'} \subseteq [Target -> Int \cup {None}]
      /\ responderCleared' \in BOOLEAN
      /\ responderCleared' =>
           /\ \A c \in Outward : dst'[c] = ClearedDestination
           /\ src'["response"] = ClearedSource
           /\ mux' = MuxCleared /\ addr' = Nothing /\ data' = Nothing /\ answer' = Nothing
  <2>1. CASE r
    <3>1. mux' = MuxCleared /\ addr' = Nothing /\ data' = Nothing /\ answer' = Nothing
        BY <2>1 DEF Tick, Responder, Multiplexer
    <3>2. (\A c \in Outward : dst'[c] = ClearedDestination) /\ src'["response"] = ClearedSource
        BY <1>2, <2>1, Channels DEF Inv, Channel
    <3>3. responderCleared' \in BOOLEAN
        BY <2>1 DEF Tick, Inv, PathType
    <3>4. MuxCleared \in [active : BOOLEAN, sel : Target \cup {1}]
        BY DEF MuxCleared
    <3>5. Nothing \in [Target -> Int \cup {None}]
        BY DEF Nothing
    <3> QED
        BY <3>1, <3>2, <3>3, <3>4, <3>5
  <2>2. CASE ~r
    <3>1. UNCHANGED <<responderVars, responderCleared>>
        BY <2>2 DEF Tick
    <3>2. (\A c \in Outward : dst'[c] = dst[c]) /\ src'["response"] = src["response"]
        BY <1>2, <2>2, Channels DEF Inv, Channel
    <3> QED
        BY <3>1, <3>2 DEF Inv, PathType, ResetInv, responderVars
  <2> QED
      BY <2>1, <2>2
<1>6. PathType'
    BY <1>1, <1>3, <1>4, <1>5 DEF Inv, PathType
<1>7. ResetInv'
    BY <1>1, <1>4, <1>5 DEF ResetInv
<1> QED
    BY <1>1, <1>6, <1>7 DEF Inv, RingsInv, PathInv, MasterInv

\* When every register is cleared, nothing is under way.
LEMMA Cleared ==
    ASSUME PathType, phase = "idle", job = None, shown = None, mux = MuxCleared,
           \A c \in Channel : src[c] = ClearedSource /\ dst[c] = ClearedDestination,
           addr = Nothing, data = Nothing, answer = Nothing
    PROVE  RingsInv /\ PathInv /\ MasterInv
<1>1. RingsInv
    BY ClearedRing DEF RingsInv
<1>2. \A c \in Channel : ~Full(c)
    BY ClearedRing DEF Full, Holds
<1>3. Waiting
    BY <1>2 DEF Waiting, MuxCleared
<1>4. MasterInv
    BY DEF MasterInv
<1> QED
    BY <1>1, <1>3, <1>4 DEF PathInv

\* Both sides have been cleared when reset falls.
LEMMA ResetFalls ==
    ASSUME Inv, LowerReset, mode' = mode
    PROVE  Inv'
<1>1. /\ phase = "idle" /\ job = None /\ shown = None /\ mux = MuxCleared
      /\ addr = Nothing /\ data = Nothing /\ answer = Nothing
      /\ \A c \in Channel : src[c] = ClearedSource /\ dst[c] = ClearedDestination
    BY DEF Inv, ResetInv, LowerReset, Channel, Outward
<1>2. /\ UNCHANGED <<mode, masterVars, outstanding, seen, src, dst, responderVars>>
      /\ reset' = FALSE /\ masterCleared' = FALSE /\ responderCleared' = FALSE
    BY DEF LowerReset
<1>3. Channel' = Channel
    BY <1>2 DEF Channel, Outward, HasData
<1>4. PathType'
    BY <1>2, <1>3 DEF Inv, PathType, masterVars, responderVars
<1>5. /\ phase' = "idle" /\ job' = None /\ shown' = None /\ mux' = MuxCleared
      /\ addr' = Nothing /\ data' = Nothing /\ answer' = Nothing
      /\ \A c \in Channel' : src'[c] = ClearedSource /\ dst'[c] = ClearedDestination
    BY <1>1, <1>2, <1>3 DEF masterVars, responderVars
<1>6. RingsInv'
    BY <1>5, ClearedRing DEF RingsInv
<1>7. \A c \in Channel' : ~Full(c)'
    BY <1>5, ClearedRing DEF Full, Holds
<1>8. Waiting'
    BY <1>5, <1>7 DEF Waiting, MuxCleared, Nothing
<1>9. MasterInv'
    BY <1>5 DEF MasterInv
<1> QED
    BY <1>2, <1>4, <1>6, <1>8, <1>9 DEF Inv, PathInv, ResetInv

\* Nothing moves when reset rises.
LEMMA ResetRises ==
    ASSUME Inv, RaiseReset, mode' = mode
    PROVE  Inv'
<1>1. /\ UNCHANGED <<mode, masterVars, outstanding, seen, src, dst, responderVars>>
      /\ reset' = TRUE /\ masterCleared' = FALSE /\ responderCleared' = FALSE
    BY DEF RaiseReset
<1>2. PathType'
    BY <1>1 DEF Inv, PathType, masterVars, responderVars, Channel, Outward, HasData
<1> QED
    BY <1>1, <1>2 DEF Inv, RingsInv, PathInv, MasterInv, ResetInv

\* Every reachable state satisfies the invariant.
THEOREM PathInvariant == Spec => []Inv
<1>1. Init => Inv
  <2> SUFFICES ASSUME Init PROVE Inv
      OBVIOUS
  <2>1. /\ \A c \in Channel : src[c] = ClearedSource /\ dst[c] = ClearedDestination
        /\ src \in [Channel -> Source] /\ dst \in [Channel -> Destination]
      BY ClearedRing DEF Init
  <2>2. Nothing \in [Target -> Int \cup {None}] /\ mux \in [active : BOOLEAN, sel : Target \cup {1}]
      BY DEF Nothing, Init, MuxCleared
  <2>3. PathType
      BY <2>1, <2>2 DEF PathType, Init
  <2>4. RingsInv /\ PathInv /\ MasterInv
      BY <2>1, <2>3, Cleared DEF Init
  <2> QED
      BY <2>3, <2>4 DEF Inv, ResetInv, Init
<1>2. Inv /\ [Next]_vars => Inv'
  <2> SUFFICES ASSUME Inv, [Next]_vars PROVE Inv'
      OBVIOUS
  <2>1. CASE UNCHANGED vars
      BY <2>1 DEF vars, masterVars, responderVars, resetVars, Inv, PathType, RingsInv, PathInv, MasterInv,
                  ResetInv, Waiting, Crossing, Accepted, Performed, Answering, At, Only, Nothing, Full,
                  Channel, Outward, HasData, Gated, Routed
  <2>2. CASE Next /\ ~RaiseReset /\ ~LowerReset
    <3>1. PICK m \in BOOLEAN, r \in BOOLEAN, w \in BOOLEAN : Tick(m, r, w)
        BY <2>2, Steps
    <3> QED
        BY <3>1, Running, InReset
  <2>3. CASE Next /\ (RaiseReset \/ LowerReset)
      BY <2>3, ResetRises, ResetFalls DEF Next
  <2> QED
      BY <2>1, <2>2, <2>3
<1> QED
    BY <1>1, <1>2, PTL DEF Spec

\* Out of reset the situations say whose data a target has.
LEMMA DataIsOwn ==
    ASSUME Inv, ~reset
    PROVE  DataMeetsAddress
<1> SUFFICES ASSUME NEW t \in Target, data[t] # None
             PROVE  addr[t] # None /\ data[t] = Global(t, addr[t])
    BY DEF DataMeetsAddress
<1>1. PICK u \in Target : Accepted(u)
    BY Situations DEF Waiting, Crossing, Answering, Performed, Nothing
<1>2. /\ addr = Only(u, Local(u, job)) /\ data = Only(u, job) /\ job \in Beat
    BY <1>1, Situations DEF Accepted, Nothing
<1>3. t = u
    BY <1>2 DEF Only, Nothing
<1>4. addr[t] = Local(t, job) /\ data[t] = job
    BY <1>2, <1>3 DEF Only, Nothing
<1> QED
    BY <1>2, <1>4, Addresses

\* The data that a target joins with an address is the data of that address, in reset too.
THEOREM DataMeetsAddressHolds == Spec => []DataMeetsAddress
<1>1. Init => DataMeetsAddress
    BY DEF Init, DataMeetsAddress, Nothing
<1>2. Inv /\ Inv' /\ DataMeetsAddress /\ [Next]_vars => DataMeetsAddress'
  <2> SUFFICES ASSUME Inv, Inv', DataMeetsAddress, [Next]_vars PROVE DataMeetsAddress'
      OBVIOUS
  <2>1. CASE ~reset'
      BY <2>1, DataIsOwn, PTL
  <2>2. CASE UNCHANGED <<data, addr>>
      BY <2>2 DEF DataMeetsAddress
  <2>3. CASE data' = Nothing
      BY <2>3 DEF DataMeetsAddress, Nothing
  <2>4. CASE Next /\ reset /\ ~RaiseReset /\ ~LowerReset
    <3>1. PICK m \in BOOLEAN, r \in BOOLEAN, w \in BOOLEAN : Tick(m, r, w)
        BY <2>4, Steps
    <3> QED
        BY <2>2, <2>3, <2>4, <3>1 DEF Tick, Responder, responderVars
  <2>5. CASE Next /\ ~reset /\ ~RaiseReset /\ ~LowerReset
    <3>1. PICK m \in BOOLEAN, r \in BOOLEAN, w \in BOOLEAN : Tick(m, r, w)
        BY <2>5, Steps
    <3> QED
        BY <2>1, <2>5, <3>1 DEF Tick
  <2> QED
      BY <2>1, <2>2, <2>4, <2>5 DEF RaiseReset, LowerReset, vars, responderVars
<1> QED
    BY <1>1, <1>2, PathInvariant, PTL DEF Spec

-----------------------------------------------------------------------------
(* The path is a memory port. *)

\* The address is on its way to the target or with it, and the operation is performed.
UnderWay == Crossing \/ \E t \in Target : Accepted(t)
Done == Answering \/ \E t \in Target : Performed(t)

\* What a table with one transaction, or none, holds.
LEMMA HeldIs ==
    /\ Held(Nothing) = {}
    /\ \A t \in Target, b \in Beat : Held(Only(t, Local(t, b))) = {b}
<1>1. Held(Nothing) = {}
    BY DEF Held, Nothing
<1>2. ASSUME NEW t \in Target, NEW b \in Beat
      PROVE  Held(Only(t, Local(t, b))) = {b}
  <2> DEFINE a == Local(t, b)
             f == Only(t, a)
  <2>1. a # None /\ Global(t, a) = b
      BY <1>2, Addresses
  <2> HIDE DEF a
  <2>2. f[t] = a /\ \A u \in Target : u # t => f[u] = None
      BY DEF Only, Nothing
  <2> HIDE DEF f
  <2>3. {u \in Target : f[u] # None} = {t}
      BY <2>1, <2>2
  <2>4. Held(f) = {Global(u, f[u]) : u \in {t}}
      BY <2>3 DEF Held
  <2>5. {Global(u, f[u]) : u \in {t}} = {Global(t, f[t])}
      OBVIOUS
  <2> QED
      BY <2>1, <2>2, <2>4, <2>5 DEF f, a
<1> QED
    BY <1>1, <1>2

\* One transaction that is under way is that one.
LEMMA OfOne == Of({}) = None /\ \A b : Of({b}) = b
<1>1. Of({}) = None
    BY DEF Of
<1>2. ASSUME NEW b PROVE Of({b}) = b
  <2>1. Of({b}) = CHOOSE x \in {b} : {b} = {x} \/ x # job
      BY DEF Of
  <2>2. \E x \in {b} : {b} = {x} \/ x # job
      OBVIOUS
  <2> QED
      BY <2>1, <2>2
<1> QED
    BY <1>1, <1>2

\* What is owed and what is to be answered in each situation.
PortShows ==
    /\ Waiting \/ UnderWay \/ Done
    /\ Waiting => Owed = None /\ Answer = None /\ phase \in {"idle", "address"}
    /\ UnderWay => Owed = job /\ Answer = None /\ job \in Beat /\ phase \in {"data", "response"}
    /\ Done => Owed = None /\ Answer = job /\ job \in Beat /\ phase = "response"

\* The situations say what the port shows.
LEMMA Places ==
    ASSUME Inv, ~reset
    PROVE  PortShows
<1>1. Waiting \/ UnderWay \/ Done
    BY Situations DEF UnderWay, Done
<1>2. ASSUME Waiting
      PROVE  Owed = None /\ Answer = None /\ phase \in {"idle", "address"}
  <2>1. Held(addr) = {} /\ Held(answer) = {} /\ ~Full("address") /\ ~Full("response")
      BY <1>2, HeldIs, NoneFull DEF Waiting
  <2>2. /\ Held(addr) \cup (IF Full("address") THEN {src["address"].payload} ELSE {}) = {}
        /\ Held(answer) \cup (IF Full("response") THEN {src["response"].payload} ELSE {}) = {}
      BY <2>1
  <2>3. Owed = None /\ Answer = None
      BY <2>2, OfOne DEF Owed, Answer
  <2> QED
      BY <1>2, <2>3 DEF Waiting
<1>3. ASSUME UnderWay
      PROVE  Owed = job /\ Answer = None /\ job \in Beat /\ phase \in {"data", "response"}
  <2>1. job \in Beat /\ phase \in {"data", "response"}
      BY <1>3, Situations DEF UnderWay, Crossing, Accepted
  <2>2. Held(answer) = {} /\ ~Full("response")
      BY <1>3, HeldIs DEF UnderWay, Crossing, Accepted
  <2>3. Answer = None
      BY <2>2, OfOne DEF Answer
  <2>4. CASE Crossing
    <3>1. Held(addr) = {} /\ Full("address") /\ src["address"].payload = job
        BY <2>4, HeldIs DEF Crossing, At
    <3>2. Held(addr) \cup (IF Full("address") THEN {src["address"].payload} ELSE {}) = {job}
        BY <3>1
    <3>3. Owed = job
        BY <3>2, OfOne DEF Owed
    <3> QED
        BY <2>1, <2>3, <3>3
  <2>5. ASSUME NEW t \in Target, Accepted(t) PROVE Owed = job
    <3>1. Held(addr) = {job} /\ ~Full("address")
        BY <2>1, <2>5, HeldIs DEF Accepted
    <3>2. Held(addr) \cup (IF Full("address") THEN {src["address"].payload} ELSE {}) = {job}
        BY <3>1
    <3> QED
        BY <3>2, OfOne DEF Owed
  <2> QED
      BY <1>3, <2>1, <2>3, <2>4, <2>5 DEF UnderWay
<1>4. ASSUME Done
      PROVE  Owed = None /\ Answer = job /\ job \in Beat /\ phase = "response"
  <2>1. job \in Beat /\ phase = "response"
      BY <1>4, Situations DEF Done, Answering, Performed
  <2>2. Held(addr) = {} /\ ~Full("address")
      BY <1>4, HeldIs, NoneFull DEF Done, Answering, Performed
  <2>3. Owed = None
      BY <2>2, OfOne DEF Owed
  <2>4. CASE Answering
    <3>1. Held(answer) = {} /\ Full("response") /\ src["response"].payload = job
        BY <2>4, HeldIs DEF Answering, At
    <3>2. Held(answer) \cup (IF Full("response") THEN {src["response"].payload} ELSE {}) = {job}
        BY <3>1
    <3>3. Answer = job
        BY <3>2, OfOne DEF Answer
    <3> QED
        BY <2>1, <2>3, <3>3
  <2>5. ASSUME NEW t \in Target, Performed(t) PROVE Answer = job
    <3>1. Held(answer) = {job} /\ ~Full("response")
        BY <2>1, <2>5, HeldIs, NoneFull DEF Performed
    <3>2. Held(answer) \cup (IF Full("response") THEN {src["response"].payload} ELSE {}) = {job}
        BY <3>1
    <3> QED
        BY <3>2, OfOne DEF Answer
  <2> QED
      BY <1>4, <2>1, <2>3, <2>4, <2>5 DEF Done
<1> QED
    BY <1>1, <1>2, <1>3, <1>4 DEF PortShows

\* The master changes its transaction when it has none, and with the response.
LEMMA JobMoves ==
    ASSUME Inv, ~reset, NEW m \in BOOLEAN, NEW r \in BOOLEAN, NEW w \in BOOLEAN, Tick(m, r, w)
    PROVE  /\ phase \in {"idle", "address"} => job' = job \/ (job = None /\ job' \in Beat)
           /\ phase \in {"data", "response"} =>
                \/ phase' \in {"data", "response"} /\ job' = job
                \/ phase' \in {"idle", "address"} /\ job' \in (Beat \ {job}) \cup {None}
<1>1. ResponseTaken => phase = "response"
    BY DEF ResponseTaken
<1> QED
    BY <1>1, MasterStep, Situations DEF masterVars

\* An edge out of reset launches, performs or delivers, or does nothing to the port.
LEMMA PortStep ==
    ASSUME Inv, Inv', ~reset, NEW m \in BOOLEAN, NEW r \in BOOLEAN, NEW w \in BOOLEAN, Tick(m, r, w)
    PROVE  [Port!Next]_(Port!vars)
<1>1. ~reset'
    BY DEF Tick
<1>2. PortShows'
    BY <1>1, Places, PTL
<1>3. CASE Waiting
  <2>1. Owed = None /\ Answer = None /\ phase \in {"idle", "address"}
      BY <1>3, Places DEF PortShows
  <2>2. Waiting' \/ UnderWay'
      BY <1>3, FromWaiting DEF UnderWay
  <2>3. job' = job \/ (job = None /\ job' \in Beat)
      BY <2>1, JobMoves
  <2>4. CASE Waiting'
      BY <1>1, <1>2, <2>1, <2>3, <2>4 DEF PortShows, Port!Next, Port!Hold, Port!vars
  <2>5. CASE UnderWay'
    <3>1. job' = job /\ job \in Beat
        BY <1>2, <2>1, <2>5, MasterStep, Situations DEF PortShows, masterVars, ResponseTaken
    <3> QED
        BY <1>1, <1>2, <2>1, <2>5, <3>1, BeatAssumption DEF PortShows, Port!Next, Port!Hold, Port!Launch
  <2> QED
      BY <2>2, <2>4, <2>5
<1>4. CASE UnderWay
  <2>1. Owed = job /\ Answer = None /\ job \in Beat /\ phase \in {"data", "response"}
      BY <1>4, Places DEF PortShows
  <2>2. UnderWay' \/ Done'
    <3>1. CASE Crossing
        BY <3>1, FromCrossing DEF UnderWay
    <3>2. ASSUME NEW t \in Target, Accepted(t) PROVE UnderWay' \/ Done'
        BY <3>2, FromAccepted DEF UnderWay, Done
    <3> QED
        BY <1>4, <3>1, <3>2 DEF UnderWay
  <2>3. job' = job
      BY <1>2, <2>1, <2>2, JobMoves DEF PortShows
  <2>4. CASE UnderWay'
      BY <1>1, <1>2, <2>1, <2>3, <2>4 DEF PortShows, Port!vars
  <2>5. CASE Done'
      BY <1>1, <1>2, <2>1, <2>3, <2>5, BeatAssumption DEF PortShows, Port!Next, Port!Hold, Port!Perform
  <2> QED
      BY <2>2, <2>4, <2>5
<1>5. CASE Done
  <2>1. Owed = None /\ Answer = job /\ job \in Beat /\ phase = "response"
      BY <1>5, Places DEF PortShows
  <2>2. Done' \/ Waiting'
    <3>1. CASE Answering
        BY <3>1, FromAnswering DEF Done
    <3>2. ASSUME NEW t \in Target, Performed(t) PROVE Done' \/ Waiting'
        BY <3>2, FromPerformed DEF Done
    <3> QED
        BY <1>5, <3>1, <3>2 DEF Done
  <2>3. CASE Done'
    <3>1. job' = job
        BY <1>2, <2>1, <2>3, JobMoves DEF PortShows
    <3> QED
        BY <1>1, <1>2, <2>1, <2>3, <3>1 DEF PortShows, Port!vars
  <2>4. CASE Waiting'
    <3>1. job' \in (Beat \ {job}) \cup {None}
        BY <1>2, <2>1, <2>4, JobMoves DEF PortShows
    <3> QED
        BY <1>1, <1>2, <2>1, <2>4, <3>1, BeatAssumption DEF PortShows, Port!Next, Port!Deliver
  <2> QED
      BY <2>2, <2>3, <2>4
<1> QED
    BY <1>3, <1>4, <1>5, Places DEF PortShows

\* Each transaction is performed once and answered to the master that waits for it.
THEOREM ImplementsMemChannel == Spec => PortSpec
<1>1. Init => Port!Init
  <2> SUFFICES ASSUME Init PROVE Port!Init
      OBVIOUS
  <2>1. ~Full("address") /\ ~Full("response")
      BY ClearedRing DEF Init, Full, Holds, Channel, Outward
  <2>2. Held(addr) = {} /\ Held(answer) = {}
      BY HeldIs DEF Init
  <2> QED
      BY <2>1, <2>2, OfOne DEF Init, Port!Init, Owed, Answer
<1>2. Inv /\ Inv' /\ [Next]_vars => [Port!Next]_(Port!vars)
  <2> SUFFICES ASSUME Inv, Inv', [Next]_vars PROVE [Port!Next]_(Port!vars)
      OBVIOUS
  <2>1. CASE UNCHANGED vars
      BY <2>1 DEF vars, masterVars, responderVars, resetVars, Port!vars, Owed, Answer, Of, Held, Full
  <2>2. CASE reset /\ reset'
      BY <2>2 DEF Port!vars
  <2>3. CASE RaiseReset
      BY <2>3 DEF RaiseReset, Port!Next, Port!Reset
  <2>4. CASE LowerReset
    <3>1. /\ reset /\ ~reset' /\ job = None /\ job' = job
          BY <2>4 DEF LowerReset, masterVars, Inv, ResetInv
    <3>2. PortShows'
        BY <3>1, Places, PTL
    <3>3. Owed' = None /\ Answer' = None
        BY <3>1, <3>2, BeatAssumption DEF PortShows
    <3> QED
        BY <3>1, <3>3 DEF Port!vars
  <2>5. CASE Next /\ ~RaiseReset /\ ~LowerReset
    <3>1. PICK m \in BOOLEAN, r \in BOOLEAN, w \in BOOLEAN : Tick(m, r, w)
        BY <2>5, Steps
    <3>2. CASE ~reset
        BY <3>1, <3>2, PortStep
    <3>3. CASE reset
        BY <2>2, <3>1, <3>3 DEF Tick
    <3> QED
        BY <3>2, <3>3
  <2> QED
      BY <2>1, <2>3, <2>4, <2>5
<1> QED
    BY <1>1, <1>2, PathInvariant, PTL DEF Spec, PortSpec, Port!Spec

-----------------------------------------------------------------------------
(***************************************************************************)
(* The two-clock FIFO.  What the proof says of a pointer it says of its     *)
(* digits, so it is about pointers of the width they have in the code.  The *)
(* copies of a pointer are codes of what it was: Back(p, d) for a distance  *)
(* d that a move of the pointer increases and a load of the synchronizers   *)
(* starts again at zero.  Full and empty are the distances at their limit.  *)
(***************************************************************************)

\* ADDR_BITS as the code has it.
SizedAsInCode == AddrBits = 4

LEMMA Sizes ==
    ASSUME SizedAsInCode
    PROVE  DEPTH = 16 /\ Row = 0 .. 15 /\ Pointer = 0 .. 31 /\ Bit = 0 .. 4
<1>1. DEPTH = 2 ^ 4
    BY DEF SizedAsInCode, DEPTH
<1>2. 2 ^ 4 = 16
    OBVIOUS
<1> QED
    BY <1>1, <1>2 DEF SizedAsInCode, Row, Pointer, Bit

\* The binary digits of a pointer.
LEMMA Digits ==
    ASSUME NEW n \in 0 .. 31
    PROVE  /\ BitOf(n, 0) = n % 2
           /\ BitOf(n, 1) = (n \div 2) % 2
           /\ BitOf(n, 2) = (n \div 4) % 2
           /\ BitOf(n, 3) = (n \div 8) % 2
           /\ BitOf(n, 4) = n \div 16
           /\ BitOf(n, 5) = 0
<1>1. 2 ^ 0 = 1 /\ 2 ^ 1 = 2 /\ 2 ^ 2 = 4 /\ 2 ^ 3 = 8 /\ 2 ^ 4 = 16 /\ 2 ^ 5 = 32
    OBVIOUS
<1>2. n \div 1 = n /\ (n \div 16) % 2 = n \div 16 /\ (n \div 32) % 2 = 0
    OBVIOUS
<1> QED
    BY <1>1, <1>2 DEF BitOf

\* A pointer is the sum of its digits.
LEMMA SumOfDigits ==
    ASSUME NEW n \in 0 .. 31
    PROVE  /\ \A b \in 0 .. 5 : BitOf(n, b) \in {0, 1}
           /\ n = BitOf(n, 0) + 2 * BitOf(n, 1) + 4 * BitOf(n, 2) + 8 * BitOf(n, 3) + 16 * BitOf(n, 4)
           /\ BitOf(n, 5) = 0
<1>1. /\ n % 2 \in {0, 1} /\ (n \div 2) % 2 \in {0, 1} /\ (n \div 4) % 2 \in {0, 1}
      /\ (n \div 8) % 2 \in {0, 1} /\ n \div 16 \in {0, 1}
    BY SMTT(30)
<1>2. n = (n % 2) + 2 * ((n \div 2) % 2) + 4 * ((n \div 4) % 2) + 8 * ((n \div 8) % 2) + 16 * (n \div 16)
    BY SMTT(30)
<1>3. \A b \in 0 .. 5 : b \in {0, 1, 2, 3, 4, 5}
    OBVIOUS
<1> QED
    BY <1>1, <1>2, <1>3, Digits

\* Digits are determined by their sum.
LEMMA DigitsUnique ==
    ASSUME NEW a0 \in {0, 1}, NEW a1 \in {0, 1}, NEW a2 \in {0, 1}, NEW a3 \in {0, 1}, NEW a4 \in {0, 1},
           NEW b0 \in {0, 1}, NEW b1 \in {0, 1}, NEW b2 \in {0, 1}, NEW b3 \in {0, 1}, NEW b4 \in {0, 1},
           a0 + 2 * a1 + 4 * a2 + 8 * a3 + 16 * a4 = b0 + 2 * b1 + 4 * b2 + 8 * b3 + 16 * b4
    PROVE  a0 = b0 /\ a1 = b1 /\ a2 = b2 /\ a3 = b3 /\ a4 = b4
<1>1. a4 = b4
    OBVIOUS
<1>2. a3 = b3
    BY <1>1
<1>3. a2 = b2
    BY <1>1, <1>2
<1>4. a1 = b1
    BY <1>1, <1>2, <1>3
<1> QED
    BY <1>1, <1>2, <1>3, <1>4

\* Different pointers have different codes.
LEMMA GrayInjective ==
    ASSUME SizedAsInCode, NEW m \in Pointer, NEW n \in Pointer, Gray(m) = Gray(n)
    PROVE  m = n
<1>1. m \in 0 .. 31 /\ n \in 0 .. 31 /\ Bit = 0 .. 4
    BY Sizes
<1>2. \A b \in 0 .. 4 : (BitOf(m, b) # BitOf(m, b + 1)) <=> (BitOf(n, b) # BitOf(n, b + 1))
  <2> TAKE b \in 0 .. 4
  <2>1. Gray(m)[b] = (BitOf(m, b) # BitOf(m, b + 1)) /\ Gray(n)[b] = (BitOf(n, b) # BitOf(n, b + 1))
      BY <1>1 DEF Gray
  <2> QED
      BY <2>1
<1>3. /\ (BitOf(m, 0) # BitOf(m, 1)) <=> (BitOf(n, 0) # BitOf(n, 1))
      /\ (BitOf(m, 1) # BitOf(m, 2)) <=> (BitOf(n, 1) # BitOf(n, 2))
      /\ (BitOf(m, 2) # BitOf(m, 3)) <=> (BitOf(n, 2) # BitOf(n, 3))
      /\ (BitOf(m, 3) # BitOf(m, 4)) <=> (BitOf(n, 3) # BitOf(n, 4))
      /\ (BitOf(m, 4) # BitOf(m, 5)) <=> (BitOf(n, 4) # BitOf(n, 5))
    BY <1>2
<1>4. /\ BitOf(m, 0) \in {0, 1} /\ BitOf(m, 1) \in {0, 1} /\ BitOf(m, 2) \in {0, 1}
      /\ BitOf(m, 3) \in {0, 1} /\ BitOf(m, 4) \in {0, 1} /\ BitOf(m, 5) = 0
      /\ BitOf(n, 0) \in {0, 1} /\ BitOf(n, 1) \in {0, 1} /\ BitOf(n, 2) \in {0, 1}
      /\ BitOf(n, 3) \in {0, 1} /\ BitOf(n, 4) \in {0, 1} /\ BitOf(n, 5) = 0
    BY <1>1, SumOfDigits
<1>5. /\ BitOf(m, 0) = BitOf(n, 0) /\ BitOf(m, 1) = BitOf(n, 1) /\ BitOf(m, 2) = BitOf(n, 2)
      /\ BitOf(m, 3) = BitOf(n, 3) /\ BitOf(m, 4) = BitOf(n, 4)
    BY <1>3, <1>4
<1> QED
    BY <1>1, <1>5, SumOfDigits

\* The code of the next pointer differs in one bit.
LEMMA OneBit ==
    ASSUME SizedAsInCode, NEW n \in Pointer
    PROVE  \E b \in Bit : \A c \in Bit \ {b} : Gray(Advance(n))[c] = Gray(n)[c]
<1> DEFINE k == Advance(n)
<1>1. n \in 0 .. 31 /\ Bit = 0 .. 4 /\ k = (n + 1) % 32
    BY Sizes DEF Advance
<1>2. k \in 0 .. 31
    BY <1>1
<1>3. /\ BitOf(n, 0) \in {0, 1} /\ BitOf(n, 1) \in {0, 1} /\ BitOf(n, 2) \in {0, 1}
      /\ BitOf(n, 3) \in {0, 1} /\ BitOf(n, 4) \in {0, 1} /\ BitOf(n, 5) = 0
      /\ n = BitOf(n, 0) + 2 * BitOf(n, 1) + 4 * BitOf(n, 2) + 8 * BitOf(n, 3) + 16 * BitOf(n, 4)
    BY <1>1, SumOfDigits
<1>4. /\ BitOf(k, 0) \in {0, 1} /\ BitOf(k, 1) \in {0, 1} /\ BitOf(k, 2) \in {0, 1}
      /\ BitOf(k, 3) \in {0, 1} /\ BitOf(k, 4) \in {0, 1} /\ BitOf(k, 5) = 0
      /\ k = BitOf(k, 0) + 2 * BitOf(k, 1) + 4 * BitOf(k, 2) + 8 * BitOf(k, 3) + 16 * BitOf(k, 4)
    BY <1>2, SumOfDigits
<1>5. k = IF n = 31 THEN 0 ELSE n + 1
    BY <1>1
<1> HIDE DEF k
<1>6. \E b \in Bit : \A c \in Bit \ {b} : (BitOf(k, c) # BitOf(k, c + 1)) <=> (BitOf(n, c) # BitOf(n, c + 1))
  <2> DEFINE Same(c) == (BitOf(k, c) # BitOf(k, c + 1)) <=> (BitOf(n, c) # BitOf(n, c + 1))
  <2>1. \/ Same(1) /\ Same(2) /\ Same(3) /\ Same(4)
        \/ Same(0) /\ Same(2) /\ Same(3) /\ Same(4)
        \/ Same(0) /\ Same(1) /\ Same(3) /\ Same(4)
        \/ Same(0) /\ Same(1) /\ Same(2) /\ Same(4)
        \/ Same(0) /\ Same(1) /\ Same(2) /\ Same(3)
      BY <1>3, <1>4, <1>5, SMTT(30)
  <2> HIDE DEF Same
  <2>2. \A c \in Bit : c \in {0, 1, 2, 3, 4}
      BY <1>1
  <2>3. 0 \in Bit /\ 1 \in Bit /\ 2 \in Bit /\ 3 \in Bit /\ 4 \in Bit
      BY <1>1
  <2>4. \E b \in Bit : \A c \in Bit \ {b} : Same(c)
      BY <2>1, <2>2, <2>3
  <2> QED
      BY <2>4 DEF Same
<1>7. PICK b \in Bit : \A c \in Bit \ {b} : (BitOf(k, c) # BitOf(k, c + 1)) <=> (BitOf(n, c) # BitOf(n, c + 1))
    BY <1>6
<1>8. ASSUME NEW c \in Bit \ {b} PROVE Gray(k)[c] = Gray(n)[c]
  <2>1. Gray(k)[c] = (BitOf(k, c) # BitOf(k, c + 1)) /\ Gray(n)[c] = (BitOf(n, c) # BitOf(n, c + 1))
      BY DEF Gray
  <2> QED
      BY <1>7, <2>1
<1> QED
    BY <1>8 DEF k

\* Half way round the top two bits of the code are inverted.
LEMMA HalfWay ==
    ASSUME SizedAsInCode, NEW n \in Pointer
    PROVE  Gray((n + 16) % 32) =
             [b \in Bit |-> IF b >= 3 THEN ~Gray(n)[b] ELSE Gray(n)[b]]
<1> DEFINE k == (n + 16) % 32
<1>1. n \in 0 .. 31 /\ Bit = 0 .. 4 /\ k \in 0 .. 31
    BY Sizes
<1>2. k = IF n >= 16 THEN n - 16 ELSE n + 16
    BY <1>1
<1>3. /\ BitOf(n, 0) \in {0, 1} /\ BitOf(n, 1) \in {0, 1} /\ BitOf(n, 2) \in {0, 1}
      /\ BitOf(n, 3) \in {0, 1} /\ BitOf(n, 4) \in {0, 1} /\ BitOf(n, 5) = 0
      /\ n = BitOf(n, 0) + 2 * BitOf(n, 1) + 4 * BitOf(n, 2) + 8 * BitOf(n, 3) + 16 * BitOf(n, 4)
    BY <1>1, SumOfDigits
<1>4. /\ BitOf(k, 0) \in {0, 1} /\ BitOf(k, 1) \in {0, 1} /\ BitOf(k, 2) \in {0, 1}
      /\ BitOf(k, 3) \in {0, 1} /\ BitOf(k, 4) \in {0, 1} /\ BitOf(k, 5) = 0
      /\ k = BitOf(k, 0) + 2 * BitOf(k, 1) + 4 * BitOf(k, 2) + 8 * BitOf(k, 3) + 16 * BitOf(k, 4)
    BY <1>1, SumOfDigits
<1> HIDE DEF k
<1>5. /\ BitOf(k, 0) = BitOf(n, 0) /\ BitOf(k, 1) = BitOf(n, 1) /\ BitOf(k, 2) = BitOf(n, 2)
      /\ BitOf(k, 3) = BitOf(n, 3) /\ BitOf(k, 4) = 1 - BitOf(n, 4)
  <2>1. 1 - BitOf(n, 4) \in {0, 1}
      BY <1>3
  <2>2. BitOf(n, 4) = 1 <=> n >= 16
      BY <1>3
  <2>3. k = n + 16 - 32 * BitOf(n, 4)
      BY <1>1, <1>2, <1>3, <2>2
  <2>4. BitOf(k, 0) + 2 * BitOf(k, 1) + 4 * BitOf(k, 2) + 8 * BitOf(k, 3) + 16 * BitOf(k, 4)
          = BitOf(n, 0) + 2 * BitOf(n, 1) + 4 * BitOf(n, 2) + 8 * BitOf(n, 3) + 16 * (1 - BitOf(n, 4))
      BY <1>3, <1>4, <2>3
  <2> QED
      BY <1>3, <1>4, <2>1, <2>4, DigitsUnique
<1>6. ASSUME NEW b \in Bit
      PROVE  Gray(k)[b] = IF b >= 3 THEN ~Gray(n)[b] ELSE Gray(n)[b]
  <2>1. Gray(k)[b] = (BitOf(k, b) # BitOf(k, b + 1)) /\ Gray(n)[b] = (BitOf(n, b) # BitOf(n, b + 1))
      BY DEF Gray
  <2>2. CASE b \in {0, 1, 2}
    <3>1. (BitOf(k, b) # BitOf(k, b + 1)) <=> (BitOf(n, b) # BitOf(n, b + 1))
        BY <1>5, <2>2
    <3>2. ~(b >= 3)
        BY <2>2
    <3> QED
        BY <2>1, <3>1, <3>2
  <2>3. CASE b \in {3, 4}
    <3>1. (BitOf(k, b) # BitOf(k, b + 1)) <=> ~(BitOf(n, b) # BitOf(n, b + 1))
        BY <1>3, <1>4, <1>5, <2>3
    <3>2. b >= 3
        BY <2>3
    <3> QED
        BY <2>1, <3>1, <3>2
  <2>4. b \in {0, 1, 2, 3, 4}
      BY <1>1
  <2> QED
      BY <2>2, <2>3, <2>4
<1>7. Gray(k) = [b \in Bit |-> Gray(k)[b]]
    BY DEF Gray
<1>8. Gray(k) = [b \in Bit |-> IF b >= 3 THEN ~Gray(n)[b] ELSE Gray(n)[b]]
    BY <1>6, <1>7
<1> QED
    BY <1>8 DEF k

\* A sample of a pointer that is moving is the pointer before the move or after it.
LEMMA SampledOnce ==
    ASSUME SizedAsInCode, NEW n \in Pointer, NEW k \in {n, Advance(n)}, NEW w \in Samples(Gray(n), Gray(k))
    PROVE  w \in {Gray(n), Gray(k)}
<1>1. w \in Word /\ \A c \in Bit : w[c] \in {Gray(n)[c], Gray(k)[c]}
    BY DEF Samples
<1>2. w = [c \in Bit |-> w[c]] /\ Gray(n) = [c \in Bit |-> Gray(n)[c]] /\ Gray(k) = [c \in Bit |-> Gray(k)[c]]
    BY <1>1 DEF Word, Gray
<1>3. PICK b \in Bit : \A c \in Bit \ {b} : Gray(k)[c] = Gray(n)[c]
    BY OneBit
<1>4. CASE w[b] = Gray(n)[b]
  <2>1. \A c \in Bit : w[c] = Gray(n)[c]
      BY <1>1, <1>3, <1>4
  <2> QED
      BY <1>2, <2>1
<1>5. CASE w[b] = Gray(k)[b]
  <2>1. \A c \in Bit : w[c] = Gray(k)[c]
      BY <1>1, <1>3, <1>5
  <2> QED
      BY <1>2, <2>1
<1> QED
    BY <1>1, <1>4, <1>5

-----------------------------------------------------------------------------
(* The inductive invariant. *)

FifoType ==
    /\ data_mem \in [Row -> Item \cup {NoItem}]
    /\ write_bin \in Pointer /\ read_bin \in Pointer
    /\ taken \in Item \cup {NoItem}
    /\ {fifoReset, writeCleared, readCleared} \subseteq BOOLEAN

\* The pointer that another had d moves ago.
Back(p, d) == (p - d) % (2 * DEPTH)

\* The synchronizers hold what a pointer was, the second the older, at most room moves ago.
Copies(p, first, second, room) ==
    \E d1, d2 \in 0 .. room :
        d1 <= d2 /\ first = Gray(Back(p, d1)) /\ second = Gray(Back(p, d2))

LagInv ==
    ~fifoReset =>
      /\ write_gray = Gray(write_bin) /\ read_gray = Gray(read_bin)
      /\ Fill <= DEPTH
      /\ Copies(read_bin, read_gray_write1, read_gray_write2, DEPTH - Fill)
      /\ Copies(write_bin, write_gray_read1, write_gray_read2, Fill)

\* Reset has cleared each side that has had an edge in it.
ClearedInv ==
    /\ fifoReset /\ writeCleared =>
         /\ write_bin = 0
         /\ write_gray = Gray(0) /\ read_gray_write1 = Gray(0) /\ read_gray_write2 = Gray(0)
    /\ fifoReset /\ readCleared =>
         /\ read_bin = 0 /\ taken = NoItem
         /\ read_gray = Gray(0) /\ write_gray_read1 = Gray(0) /\ write_gray_read2 = Gray(0)

FifoInv == FifoType /\ LagInv /\ ClearedInv

-----------------------------------------------------------------------------
(* Pointers that go round. *)

\* How the fill follows the pointers.
LEMMA FillMoves ==
    ASSUME NEW w \in 0 .. 31, NEW r \in 0 .. 31
    PROVE  /\ (w - r) % 32 \in 0 .. 31
           /\ (w - r) % 32 = IF w >= r THEN w - r ELSE w - r + 32
           /\ (w + 1) % 32 = IF w = 31 THEN 0 ELSE w + 1
           /\ (w - r) % 32 < 31 => (((w + 1) % 32) - r) % 32 = ((w - r) % 32) + 1
           /\ (w - r) % 32 > 0 => (w - ((r + 1) % 32)) % 32 = ((w - r) % 32) - 1
           /\ (((w + 1) % 32) - ((r + 1) % 32)) % 32 = (w - r) % 32
<1>1. \A i \in -31 .. 31 : i % 32 = IF i >= 0 THEN i ELSE i + 32
    BY SMTT(30)
<1>2. (w + 1) % 32 = IF w = 31 THEN 0 ELSE w + 1
    OBVIOUS
<1>3. (r + 1) % 32 = IF r = 31 THEN 0 ELSE r + 1
    OBVIOUS
<1>4. (w - r) % 32 = IF w >= r THEN w - r ELSE w - r + 32
    BY <1>1
<1> DEFINE w1 == (w + 1) % 32
           r1 == (r + 1) % 32
<1>5. w1 \in 0 .. 31 /\ r1 \in 0 .. 31
    BY <1>2, <1>3
<1> HIDE DEF w1, r1
<1>6. /\ (w1 - r) % 32 = IF w1 >= r THEN w1 - r ELSE w1 - r + 32
      /\ (w - r1) % 32 = IF w >= r1 THEN w - r1 ELSE w - r1 + 32
      /\ (w1 - r1) % 32 = IF w1 >= r1 THEN w1 - r1 ELSE w1 - r1 + 32
    BY <1>1, <1>5
<1> USE DEF w1, r1
<1>7. (w - r) % 32 \in 0 .. 31
    BY <1>4
<1>8. (w - r) % 32 < 31 => (w1 - r) % 32 = ((w - r) % 32) + 1
    BY <1>2, <1>4, <1>6
<1>9. (w - r) % 32 > 0 => (w - r1) % 32 = ((w - r) % 32) - 1
    BY <1>3, <1>4, <1>6
<1>10. (w1 - r1) % 32 = (w - r) % 32
    BY <1>2, <1>3, <1>4, <1>6
<1> QED
    BY <1>2, <1>4, <1>7, <1>8, <1>9, <1>10

\* What a pointer was before, seen from the pointer and from its successor.
LEMMA BackMoves ==
    ASSUME SizedAsInCode, NEW p \in Pointer, NEW d \in 0 .. 30
    PROVE  /\ Back(p, 0) = p /\ Back(p, d) \in Pointer
           /\ Advance(p) \in Pointer /\ Advance(p) # p
           /\ Back(Advance(p), d + 1) = Back(p, d)
<1>1. /\ p \in 0 .. 31 /\ Pointer = 0 .. 31
      /\ \A q, e : Back(q, e) = (q - e) % 32
      /\ Advance(p) = (p + 1) % 32
    BY Sizes DEF Back, Advance
<1>2. (p + 1) % 32 = IF p = 31 THEN 0 ELSE p + 1
    BY <1>1
<1>3. \A i \in -31 .. 31 : i % 32 = IF i >= 0 THEN i ELSE i + 32
    BY SMTT(30)
<1>4. /\ (p - 0) % 32 = p
      /\ (p - d) % 32 = IF p >= d THEN p - d ELSE p - d + 32
    BY <1>1, <1>3
<1> DEFINE q == (p + 1) % 32
<1>5. q \in 0 .. 31 /\ q # p
    BY <1>1, <1>2
<1> HIDE DEF q
<1>6. (q - (d + 1)) % 32 = IF q >= d + 1 THEN q - (d + 1) ELSE q - (d + 1) + 32
    BY <1>3, <1>5
<1> USE DEF q
<1>7. (q - (d + 1)) % 32 = (p - d) % 32
    BY <1>1, <1>2, <1>4, <1>6
<1>8. Back(p, 0) = p /\ Back(p, d) \in Pointer
    BY <1>1, <1>4
<1>9. Advance(p) = q
    BY <1>1
<1>10. Back(q, d + 1) = Back(p, d)
    BY <1>1, <1>7
<1>11. q \in Pointer /\ q # p
    BY <1>1, <1>5
<1> HIDE DEF q
<1> QED
    BY <1>8, <1>9, <1>10, <1>11

\* The copies after a pointer has moved or not, and the synchronizers have been loaded or not.
LEMMA CopiesKept ==
    ASSUME SizedAsInCode, NEW p \in Pointer, NEW q \in {p, Advance(p)},
           NEW room \in 0 .. 16, NEW first, NEW second, Copies(p, first, second, room),
           NEW first2, NEW second2,
           \/ first2 = first /\ second2 = second
           \/ first2 \in {Gray(p), Gray(q)} /\ second2 = first
    PROVE  Copies(q, first2, second2, IF q = p THEN room ELSE room + 1)
<1>1. PICK d1 \in 0 .. room, d2 \in 0 .. room :
         d1 <= d2 /\ first = Gray(Back(p, d1)) /\ second = Gray(Back(p, d2))
    BY DEF Copies
<1>2. Gray(p) = Gray(Back(p, 0)) /\ Gray(q) = Gray(Back(q, 0))
    BY BackMoves
<1>3. CASE q = p
  <2>1. CASE first2 = first /\ second2 = second
      BY <1>1, <1>3, <2>1 DEF Copies
  <2>2. CASE first2 = Gray(p) /\ second2 = first
      BY <1>1, <1>2, <1>3, <2>2 DEF Copies
  <2> QED
      BY <1>3, <2>1, <2>2
<1>4. CASE q = Advance(p)
  <2>1. q # p
      BY <1>4, BackMoves
  <2>2. \A d \in 0 .. 30 : Back(q, d + 1) = Back(p, d)
      BY <1>4, BackMoves
  <2>3. /\ first = Gray(Back(q, d1 + 1)) /\ second = Gray(Back(q, d2 + 1))
        /\ Gray(p) = Gray(Back(q, 0 + 1))
      BY <1>1, <1>2, <2>2
  <2>4. /\ d1 + 1 \in 0 .. room + 1 /\ d2 + 1 \in 0 .. room + 1 /\ 0 \in 0 .. room + 1 /\ 1 \in 0 .. room + 1
        /\ d1 + 1 <= d2 + 1 /\ 0 <= d1 + 1 /\ 1 <= d1 + 1
      BY <1>1
  <2>5. CASE first2 = first /\ second2 = second
      BY <2>1, <2>3, <2>4, <2>5 DEF Copies
  <2>6. CASE first2 = Gray(p) /\ second2 = first
      BY <2>1, <2>3, <2>4, <2>6 DEF Copies
  <2>7. CASE first2 = Gray(q) /\ second2 = first
      BY <1>2, <2>1, <2>3, <2>4, <2>7 DEF Copies
  <2> QED
      BY <2>5, <2>6, <2>7
<1> QED
    BY <1>3, <1>4

\* The writer finds room only if there is, and the reader an item.
LEMMA FullAndEmpty ==
    ASSUME SizedAsInCode, FifoInv, ~fifoReset
    PROVE  /\ write_ready_out => Fill < 16 /\ Copies(read_bin, read_gray_write1, read_gray_write2, 15 - Fill)
           /\ read_valid_out => Fill > 0 /\ Copies(write_bin, write_gray_read1, write_gray_read2, Fill - 1)
<1>1. /\ write_bin \in 0 .. 31 /\ read_bin \in 0 .. 31 /\ DEPTH = 16 /\ Pointer = 0 .. 31
      /\ Fill = (write_bin - read_bin) % 32
      /\ \A p, d : Back(p, d) = (p - d) % 32
    BY Sizes DEF FifoInv, FifoType, Fill, Back
<1>2. /\ write_gray = Gray(write_bin) /\ read_gray = Gray(read_bin) /\ Fill \in 0 .. 16
      /\ Copies(read_bin, read_gray_write1, read_gray_write2, 16 - Fill)
      /\ Copies(write_bin, write_gray_read1, write_gray_read2, Fill)
    BY <1>1, FillMoves DEF FifoInv, LagInv
<1>3. \A i \in -31 .. 31 : i % 32 = IF i >= 0 THEN i ELSE i + 32
    BY SMTT(30)
<1>4. ASSUME write_ready_out
      PROVE  Fill < 16 /\ Copies(read_bin, read_gray_write1, read_gray_write2, 15 - Fill)
  <2>1. PICK d1 \in 0 .. 16 - Fill, d2 \in 0 .. 16 - Fill :
           /\ d1 <= d2 /\ read_gray_write1 = Gray(Back(read_bin, d1))
           /\ read_gray_write2 = Gray(Back(read_bin, d2))
      BY <1>2 DEF Copies
  <2> DEFINE old == Back(read_bin, d2)
  <2>2. old \in Pointer /\ old = IF read_bin >= d2 THEN read_bin - d2 ELSE read_bin - d2 + 32
      BY <1>1, <1>2, <1>3, <2>1
  <2>3. full_gray = Gray((old + 16) % 32)
    <3>1. full_gray = [b \in Bit |-> IF b >= 3 THEN ~Gray(old)[b] ELSE Gray(old)[b]]
        BY <2>1 DEF full_gray, SizedAsInCode
    <3> HIDE DEF old
    <3> QED
        BY <2>2, <3>1, HalfWay
  <2>4. write_bin # (old + 16) % 32
      BY <1>2, <1>4, <2>3 DEF write_ready_out
  <2>5. (old + 16) % 32 = IF old >= 16 THEN old - 16 ELSE old + 16
      BY <1>1, <2>2
  <2>6. Fill = IF write_bin >= read_bin THEN write_bin - read_bin ELSE write_bin - read_bin + 32
      BY <1>1, FillMoves
  <2> HIDE DEF old
  <2>7. d2 # 16 - Fill
      BY <1>1, <1>2, <2>1, <2>2, <2>4, <2>5, <2>6
  <2>8. Fill < 16 /\ d1 \in 0 .. 15 - Fill /\ d2 \in 0 .. 15 - Fill
      BY <1>2, <2>1, <2>7
  <2> QED
      BY <2>1, <2>8 DEF Copies
<1>5. ASSUME read_valid_out
      PROVE  Fill > 0 /\ Copies(write_bin, write_gray_read1, write_gray_read2, Fill - 1)
  <2>1. PICK e1 \in 0 .. Fill, e2 \in 0 .. Fill :
           /\ e1 <= e2 /\ write_gray_read1 = Gray(Back(write_bin, e1))
           /\ write_gray_read2 = Gray(Back(write_bin, e2))
      BY <1>2 DEF Copies
  <2> DEFINE old == Back(write_bin, e2)
  <2>2. old = IF write_bin >= e2 THEN write_bin - e2 ELSE write_bin - e2 + 32
      BY <1>1, <1>2, <1>3, <2>1
  <2>3. old # read_bin
      BY <1>2, <1>5, <2>1 DEF read_valid_out
  <2>4. Fill = IF write_bin >= read_bin THEN write_bin - read_bin ELSE write_bin - read_bin + 32
      BY <1>1, FillMoves
  <2> HIDE DEF old
  <2>5. e2 # Fill
      BY <1>1, <1>2, <2>1, <2>2, <2>3, <2>4
  <2>6. Fill > 0 /\ e1 \in 0 .. Fill - 1 /\ e2 \in 0 .. Fill - 1
      BY <1>2, <2>1, <2>5
  <2> QED
      BY <2>1, <2>6 DEF Copies
<1> QED
    BY <1>4, <1>5

-----------------------------------------------------------------------------
(* Steps out of reset. *)

\* The synchronizers stay, or take the pointer as it was or as it is now.
Synchronized(first, second, first2, second2, old, new) ==
    \/ first2 = first /\ second2 = second
    \/ first2 \in {Gray(old), Gray(new)} /\ second2 = first

\* A step out of reset moves each pointer by one or not at all.
Moved ==
    /\ write_gray' = Gray(write_bin') /\ read_gray' = Gray(read_bin')
    /\ \/ UNCHANGED <<write_bin, data_mem>>
       \/ /\ write_ready_out /\ write_bin' = Advance(write_bin)
          /\ \E x \in Item : data_mem' = [data_mem EXCEPT ![write_bin % DEPTH] = x]
    /\ \/ UNCHANGED <<read_bin, taken>>
       \/ read_valid_out /\ read_bin' = Advance(read_bin) /\ taken' = read_data_out
    /\ Synchronized(read_gray_write1, read_gray_write2, read_gray_write1', read_gray_write2',
                    read_bin, read_bin')
    /\ Synchronized(write_gray_read1, write_gray_read2, write_gray_read1', write_gray_read2',
                    write_bin, write_bin')

\* An edge of the write clock.
LEMMA WriteSide ==
    ASSUME FifoInv, ~fifoReset, NEW offer \in Item \cup {NoItem}, NEW w, WriteWork(offer, w)
    PROVE  /\ write_bin' = NextWriteBin(offer)
           /\ write_gray' = Gray(write_bin')
           /\ \/ UNCHANGED <<write_bin, data_mem>>
              \/ /\ write_ready_out /\ write_bin' = Advance(write_bin)
                 /\ \E x \in Item : data_mem' = [data_mem EXCEPT ![write_bin % DEPTH] = x]
           /\ read_gray_write1' = w /\ read_gray_write2' = read_gray_write1
<1>1. WriteRow(offer) /\ WriteAdvance(offer, w)
    BY DEF WriteWork
<1>2. write_gray = Gray(write_bin)
    BY DEF FifoInv, LagInv
<1>3. CASE Writes(offer)
  <2>1. offer \in Item /\ write_ready_out
      BY <1>3 DEF Writes
  <2> QED
      BY <1>1, <1>3, <2>1 DEF WriteRow, WriteAdvance, NextWriteBin
<1>4. CASE ~Writes(offer)
    BY <1>1, <1>2, <1>4 DEF WriteRow, WriteAdvance, NextWriteBin
<1> QED
    BY <1>3, <1>4

\* An edge of the read clock.
LEMMA ReadSide ==
    ASSUME FifoInv, ~fifoReset, NEW ready \in BOOLEAN, NEW w, ReadWork(ready, w)
    PROVE  /\ read_bin' = NextReadBin(ready)
           /\ read_gray' = Gray(read_bin')
           /\ \/ UNCHANGED <<read_bin, taken>>
              \/ read_valid_out /\ read_bin' = Advance(read_bin) /\ taken' = read_data_out
           /\ write_gray_read1' = w /\ write_gray_read2' = write_gray_read1
<1>1. ReadAdvance(ready, w)
    BY DEF ReadWork
<1>2. read_gray = Gray(read_bin)
    BY DEF FifoInv, LagInv
<1>3. CASE Reads(ready)
    BY <1>1, <1>3 DEF Reads, ReadAdvance, NextReadBin
<1>4. CASE ~Reads(ready)
    BY <1>1, <1>2, <1>4 DEF ReadAdvance, NextReadBin
<1> QED
    BY <1>3, <1>4

\* Every step out of reset but the one that raises it.
LEMMA StepMoves ==
    ASSUME SizedAsInCode, FifoInv, [FifoNext]_fifoVars, ~fifoReset, ~RaiseFifoReset
    PROVE  Moved /\ fifoReset' = FALSE
<1>1. /\ write_gray = Gray(write_bin) /\ read_gray = Gray(read_bin) /\ fifoReset = FALSE
      /\ write_bin \in Pointer /\ read_bin \in Pointer
    BY DEF FifoInv, LagInv, FifoType
<1>2. CASE WriteEdge
  <2>1. PICK offer \in Item \cup {NoItem} : WriteWork(offer, read_gray)
      BY <1>2 DEF WriteEdge
  <2>2. UNCHANGED <<read_bin, read_gray, write_gray_read1, write_gray_read2, taken, fifoReset>>
      BY <1>2 DEF WriteEdge, readRegs
  <2>3. /\ Synchronized(read_gray_write1, read_gray_write2, read_gray_write1', read_gray_write2', read_bin, read_bin')
        /\ Synchronized(write_gray_read1, write_gray_read2, write_gray_read1', write_gray_read2', write_bin, write_bin')
      BY <1>1, <2>1, <2>2, WriteSide DEF Synchronized
  <2> QED
      BY <1>1, <2>1, <2>2, <2>3, WriteSide DEF Moved
<1>3. CASE ReadEdge
  <2>1. PICK ready \in BOOLEAN : ReadWork(ready, write_gray)
      BY <1>3 DEF ReadEdge
  <2>2. UNCHANGED <<data_mem, write_bin, write_gray, read_gray_write1, read_gray_write2, fifoReset>>
      BY <1>3 DEF ReadEdge, writeRegs
  <2>3. /\ Synchronized(read_gray_write1, read_gray_write2, read_gray_write1', read_gray_write2', read_bin, read_bin')
        /\ Synchronized(write_gray_read1, write_gray_read2, write_gray_read1', write_gray_read2', write_bin, write_bin')
      BY <1>1, <2>1, <2>2, ReadSide DEF Synchronized
  <2> QED
      BY <1>1, <2>1, <2>2, <2>3, ReadSide DEF Moved
<1>4. CASE CoincidentEdge
  <2>1. PICK offer \in Item \cup {NoItem}, ready \in BOOLEAN :
          /\ \E w \in Samples(read_gray, Gray(NextReadBin(ready))) : WriteWork(offer, w)
          /\ \E w \in Samples(write_gray, Gray(NextWriteBin(offer))) : ReadWork(ready, w)
      BY <1>4 DEF CoincidentEdge
  <2>2. PICK v \in Samples(read_gray, Gray(NextReadBin(ready))) : WriteWork(offer, v)
      BY <2>1
  <2>3. PICK w \in Samples(write_gray, Gray(NextWriteBin(offer))) : ReadWork(ready, w)
      BY <2>1
  <2>4. read_bin' = NextReadBin(ready) /\ write_bin' = NextWriteBin(offer)
      BY <2>2, <2>3, WriteSide, ReadSide
  <2>5. NextReadBin(ready) \in {read_bin, Advance(read_bin)} /\ NextWriteBin(offer) \in {write_bin, Advance(write_bin)}
      BY DEF NextReadBin, NextWriteBin
  <2>6. v \in {Gray(read_bin), Gray(NextReadBin(ready))}
      BY <1>1, <2>2, <2>5, SampledOnce
  <2>7. w \in {Gray(write_bin), Gray(NextWriteBin(offer))}
      BY <1>1, <2>3, <2>5, SampledOnce
  <2>8. Synchronized(read_gray_write1, read_gray_write2, read_gray_write1', read_gray_write2', read_bin, read_bin')
      BY <2>2, <2>4, <2>6, WriteSide DEF Synchronized
  <2>9. Synchronized(write_gray_read1, write_gray_read2, write_gray_read1', write_gray_read2', write_bin, write_bin')
      BY <2>3, <2>4, <2>7, ReadSide DEF Synchronized
  <2>10. fifoReset' = FALSE
      BY <1>1, <1>4 DEF CoincidentEdge
  <2> QED
      BY <2>2, <2>3, <2>8, <2>9, <2>10, WriteSide, ReadSide DEF Moved
<1>5. CASE UNCHANGED fifoVars
  <2>1. UNCHANGED <<data_mem, write_bin, write_gray, read_gray_write1, read_gray_write2, fifoReset,
                    read_bin, read_gray, write_gray_read1, write_gray_read2, taken>>
      BY <1>5 DEF fifoVars, writeRegs, readRegs
  <2> QED
      BY <1>1, <2>1 DEF Moved, Synchronized
<1> QED
    BY <1>2, <1>3, <1>4, <1>5 DEF FifoNext, LowerFifoReset

\* What a step does to the fill.
LEMMA FillKept ==
    ASSUME SizedAsInCode, FifoInv, ~fifoReset, Moved
    PROVE  /\ write_bin' \in Pointer /\ read_bin' \in Pointer
           /\ write_bin' \in {write_bin, Advance(write_bin)} /\ read_bin' \in {read_bin, Advance(read_bin)}
           /\ write_bin' # write_bin => write_ready_out
           /\ read_bin' # read_bin => read_valid_out
           /\ Fill \in 0 .. 16 /\ Fill' \in 0 .. 16
           /\ Fill' = Fill + (IF write_bin' = write_bin THEN 0 ELSE 1) - (IF read_bin' = read_bin THEN 0 ELSE 1)
<1>1. /\ write_bin \in 0 .. 31 /\ read_bin \in 0 .. 31 /\ DEPTH = 16 /\ Pointer = 0 .. 31
      /\ Fill = (write_bin - read_bin) % 32
      /\ Fill' = (write_bin' - read_bin') % 32
      /\ Advance(write_bin) = (write_bin + 1) % 32 /\ Advance(read_bin) = (read_bin + 1) % 32
    BY Sizes DEF FifoInv, FifoType, Fill, Advance
<1>2. Fill \in 0 .. 16
  <2>1. Fill \in 0 .. 31
      BY <1>1, FillMoves
  <2>2. Fill <= 16
      BY <1>1 DEF FifoInv, LagInv
  <2> QED
      BY <2>1, <2>2
<1>3. /\ write_bin' \in {write_bin, Advance(write_bin)} /\ read_bin' \in {read_bin, Advance(read_bin)}
      /\ write_bin' # write_bin => write_ready_out
      /\ read_bin' # read_bin => read_valid_out
    BY DEF Moved
<1>4. Advance(write_bin) # write_bin /\ Advance(read_bin) # read_bin
      /\ Advance(write_bin) \in Pointer /\ Advance(read_bin) \in Pointer
  <2>1. write_bin \in Pointer /\ read_bin \in Pointer /\ 0 \in 0 .. 30
      BY <1>1
  <2> QED
      BY <2>1, BackMoves
<1>5. (write_bin' # write_bin => Fill < 16) /\ (read_bin' # read_bin => Fill > 0)
    BY <1>3, FullAndEmpty
<1>6. Fill' = Fill + (IF write_bin' = write_bin THEN 0 ELSE 1) - (IF read_bin' = read_bin THEN 0 ELSE 1)
  <2>1. CASE write_bin' = write_bin /\ read_bin' = read_bin
      BY <1>1, <1>2, <2>1
  <2>2. CASE write_bin' = Advance(write_bin) /\ read_bin' = read_bin
      BY <1>1, <1>2, <1>4, <1>5, <2>2, FillMoves
  <2>3. CASE write_bin' = write_bin /\ read_bin' = Advance(read_bin)
      BY <1>1, <1>2, <1>4, <1>5, <2>3, FillMoves
  <2>4. CASE write_bin' = Advance(write_bin) /\ read_bin' = Advance(read_bin)
      BY <1>1, <1>2, <1>4, <2>4, FillMoves
  <2> QED
      BY <1>3, <2>1, <2>2, <2>3, <2>4
<1>7. Fill' \in 0 .. 16
    BY <1>2, <1>5, <1>6
<1> QED
    BY <1>1, <1>2, <1>3, <1>4, <1>6, <1>7

\* The synchronizers keep up.
LEMMA LagKept ==
    ASSUME SizedAsInCode, FifoInv, ~fifoReset, Moved
    PROVE  LagInv'
<1> DEFINE W == IF write_bin' = write_bin THEN 0 ELSE 1
           R == IF read_bin' = read_bin THEN 0 ELSE 1
<1>1. /\ write_bin' \in {write_bin, Advance(write_bin)} /\ read_bin' \in {read_bin, Advance(read_bin)}
      /\ write_bin' # write_bin => write_ready_out
      /\ read_bin' # read_bin => read_valid_out
      /\ Fill \in 0 .. 16 /\ Fill' \in 0 .. 16
      /\ Fill' = Fill + W - R
    BY FillKept
<1>2. write_bin \in Pointer /\ read_bin \in Pointer /\ DEPTH = 16
    BY Sizes DEF FifoInv, FifoType
<1>3. W \in {0, 1} /\ R \in {0, 1}
    OBVIOUS
<1>4. Copies(read_bin, read_gray_write1, read_gray_write2, 16 - Fill - W) /\ 16 - Fill - W \in 0 .. 16
  <2>1. CASE W = 0
      BY <1>1, <1>2, <2>1 DEF FifoInv, LagInv
  <2>2. CASE W = 1
    <3>1. write_ready_out
        BY <1>1, <2>2
    <3>2. Fill < 16 /\ Copies(read_bin, read_gray_write1, read_gray_write2, 15 - Fill)
        BY <3>1, FullAndEmpty
    <3>3. 16 - Fill - W = 15 - Fill /\ 15 - Fill \in 0 .. 16
        BY <1>1, <2>2, <3>2
    <3> QED
        BY <3>2, <3>3
  <2> QED
      BY <1>3, <2>1, <2>2
<1>5. Copies(write_bin, write_gray_read1, write_gray_read2, Fill - R) /\ Fill - R \in 0 .. 16
  <2>1. CASE R = 0
      BY <1>1, <1>2, <2>1 DEF FifoInv, LagInv
  <2>2. CASE R = 1
    <3>1. read_valid_out
        BY <1>1, <2>2
    <3>2. Fill > 0 /\ Copies(write_bin, write_gray_read1, write_gray_read2, Fill - 1)
        BY <3>1, FullAndEmpty
    <3> QED
        BY <1>1, <2>2, <3>2
  <2> QED
      BY <1>3, <2>1, <2>2
<1>6. Copies(read_bin', read_gray_write1', read_gray_write2',
             IF read_bin' = read_bin THEN 16 - Fill - W ELSE 16 - Fill - W + 1)
  <2>1. read_bin' \in {read_bin, Advance(read_bin)} /\ read_bin \in Pointer
      BY <1>1, <1>2
  <2>2. \/ read_gray_write1' = read_gray_write1 /\ read_gray_write2' = read_gray_write2
        \/ read_gray_write1' \in {Gray(read_bin), Gray(read_bin')} /\ read_gray_write2' = read_gray_write1
      BY DEF Moved, Synchronized
  <2> HIDE DEF W
  <2> QED
      BY <1>4, <2>1, <2>2, CopiesKept
<1>7. Copies(write_bin', write_gray_read1', write_gray_read2',
             IF write_bin' = write_bin THEN Fill - R ELSE Fill - R + 1)
  <2>1. write_bin' \in {write_bin, Advance(write_bin)} /\ write_bin \in Pointer
      BY <1>1, <1>2
  <2>2. \/ write_gray_read1' = write_gray_read1 /\ write_gray_read2' = write_gray_read2
        \/ write_gray_read1' \in {Gray(write_bin), Gray(write_bin')} /\ write_gray_read2' = write_gray_read1
      BY DEF Moved, Synchronized
  <2> HIDE DEF R
  <2> QED
      BY <1>5, <2>1, <2>2, CopiesKept
<1>8. /\ (IF read_bin' = read_bin THEN 16 - Fill - W ELSE 16 - Fill - W + 1) = 16 - Fill'
      /\ (IF write_bin' = write_bin THEN Fill - R ELSE Fill - R + 1) = Fill'
    BY <1>1, <1>3
<1>9. /\ Copies(read_bin', read_gray_write1', read_gray_write2', 16 - Fill')
      /\ Copies(write_bin', write_gray_read1', write_gray_read2', Fill')
    BY <1>6, <1>7, <1>8
<1>10. write_gray' = Gray(write_bin') /\ read_gray' = Gray(read_bin') /\ Fill' <= 16
    BY <1>1 DEF Moved
<1> QED
    BY <1>2, <1>9, <1>10 DEF LagInv, Copies, Back, Gray, DEPTH

\* A row written keeps the type of the rows.
LEMMA RowsKept ==
    ASSUME NEW mem \in [Row -> Item \cup {NoItem}], NEW r \in Row, NEW x \in Item \cup {NoItem}
    PROVE  [mem EXCEPT ![r] = x] \in [Row -> Item \cup {NoItem}]
OBVIOUS

\* The row of a pointer.
LEMMA RowOf ==
    ASSUME SizedAsInCode, NEW p \in Pointer
    PROVE  p % DEPTH \in Row
<1>1. DEPTH = 16 /\ Row = 0 .. 15 /\ p \in 0 .. 31
    BY Sizes
<1>2. p % 16 \in 0 .. 15
    BY <1>1
<1> QED
    BY <1>1, <1>2

\* A step out of reset, whole.
LEMMA RunningKeeps ==
    ASSUME SizedAsInCode, FifoInv, [FifoNext]_fifoVars, ~fifoReset, ~RaiseFifoReset,
           [FifoNext]_fifoVars => writeCleared' \in BOOLEAN /\ readCleared' \in BOOLEAN
    PROVE  FifoInv'
<1>1. Moved /\ fifoReset' = FALSE
    BY StepMoves
<1>2. LagInv'
    BY <1>1, LagKept
<1>3. ClearedInv'
    BY <1>1 DEF ClearedInv
<1>4. write_bin' \in Pointer /\ read_bin' \in Pointer
    BY <1>1, FillKept
<1>5. data_mem' \in [Row -> Item \cup {NoItem}]
  <2>1. data_mem \in [Row -> Item \cup {NoItem}] /\ write_bin % DEPTH \in Row
      BY RowOf DEF FifoInv, FifoType
  <2>2. CASE UNCHANGED data_mem
      BY <2>1, <2>2
  <2>3. CASE \E x \in Item : data_mem' = [data_mem EXCEPT ![write_bin % DEPTH] = x]
      BY <2>1, <2>3, RowsKept
  <2> QED
      BY <1>1, <2>2, <2>3 DEF Moved
<1>6. taken' \in Item \cup {NoItem}
  <2>1. read_data_out \in Item \cup {NoItem} /\ taken \in Item \cup {NoItem}
      BY RowOf DEF FifoInv, FifoType, read_data_out
  <2> QED
      BY <1>1, <2>1 DEF Moved
<1>7. {fifoReset', writeCleared', readCleared'} \subseteq BOOLEAN
    BY <1>1
<1>8. FifoType'
    BY <1>4, <1>5, <1>6, <1>7 DEF FifoType, Row, Pointer, DEPTH
<1> QED
    BY <1>2, <1>3, <1>8 DEF FifoInv

-----------------------------------------------------------------------------
(* Steps in reset. *)

\* The side of the writer is cleared, or stays as it is.
WriterHeld ==
    \/ WriteClear /\ writeCleared' = TRUE
    \/ UNCHANGED <<write_bin, write_gray, read_gray_write1, read_gray_write2, writeCleared>>

\* The side of the reader is cleared, or stays as it is.
ReaderHeld ==
    \/ ReadClear /\ readCleared' = TRUE
    \/ UNCHANGED <<read_bin, read_gray, write_gray_read1, write_gray_read2, taken, readCleared>>

\* An edge in reset.
LEMMA HeldStep ==
    ASSUME SizedAsInCode, FifoInv, fifoReset, WriteEdge \/ ReadEdge \/ CoincidentEdge \/ UNCHANGED fifoVars
    PROVE  /\ fifoReset' = TRUE /\ WriterHeld /\ ReaderHeld
           /\ data_mem' \in [Row -> Item \cup {NoItem}]
<1> USE DEF readRegs, writeRegs
<1>1. data_mem \in [Row -> Item \cup {NoItem}] /\ fifoReset = TRUE /\ write_bin % DEPTH \in Row
    BY RowOf DEF FifoInv, FifoType
<1>2. ASSUME NEW offer \in Item \cup {NoItem}, NEW w, WriteWork(offer, w)
      PROVE  WriterHeld /\ data_mem' \in [Row -> Item \cup {NoItem}]
  <2>1. WriteClear /\ writeCleared' = TRUE /\ WriteRow(offer)
      BY <1>1, <1>2 DEF WriteWork
  <2>2. data_mem' \in [Row -> Item \cup {NoItem}]
      BY <1>1, <2>1, RowsKept DEF WriteRow
  <2> QED
      BY <2>1, <2>2 DEF WriterHeld
<1>3. ASSUME NEW ready \in BOOLEAN, NEW w, ReadWork(ready, w)
      PROVE  ReaderHeld
    BY <1>1, <1>3 DEF ReadWork, ReaderHeld
<1>4. CASE WriteEdge
  <2>1. PICK offer \in Item \cup {NoItem} : WriteWork(offer, read_gray)
      BY <1>4 DEF WriteEdge
  <2>2. WriterHeld /\ data_mem' \in [Row -> Item \cup {NoItem}]
      BY <1>2, <2>1
  <2> QED
      BY <1>1, <1>4, <2>2 DEF WriteEdge, ReaderHeld
<1>5. CASE ReadEdge
  <2>1. PICK ready \in BOOLEAN : ReadWork(ready, write_gray)
      BY <1>5 DEF ReadEdge
  <2>2. ReaderHeld
      BY <1>3, <2>1
  <2> QED
      BY <1>1, <1>5, <2>2 DEF ReadEdge, WriterHeld
<1>6. CASE CoincidentEdge
  <2>1. PICK offer \in Item \cup {NoItem}, ready \in BOOLEAN :
          /\ \E w \in Samples(read_gray, Gray(NextReadBin(ready))) : WriteWork(offer, w)
          /\ \E w \in Samples(write_gray, Gray(NextWriteBin(offer))) : ReadWork(ready, w)
      BY <1>6 DEF CoincidentEdge
  <2>2. WriterHeld /\ data_mem' \in [Row -> Item \cup {NoItem}]
      BY <1>2, <2>1
  <2>3. ReaderHeld
      BY <1>3, <2>1
  <2> QED
      BY <1>1, <1>6, <2>2, <2>3 DEF CoincidentEdge
<1>7. CASE UNCHANGED fifoVars
    BY <1>1, <1>7 DEF fifoVars, WriterHeld, ReaderHeld
<1> QED
    BY <1>4, <1>5, <1>6, <1>7

\* An edge in reset keeps the invariant.
LEMMA HeldKeeps ==
    ASSUME SizedAsInCode, FifoInv, fifoReset, WriteEdge \/ ReadEdge \/ CoincidentEdge \/ UNCHANGED fifoVars
    PROVE  FifoInv'
<1>1. fifoReset' = TRUE /\ WriterHeld /\ ReaderHeld /\ data_mem' \in [Row -> Item \cup {NoItem}]
    BY HeldStep
<1>2. 0 \in Pointer
    BY Sizes
<1>3. write_bin' \in Pointer /\ writeCleared' \in BOOLEAN
    BY <1>1, <1>2 DEF WriterHeld, WriteClear, FifoInv, FifoType
<1>4. read_bin' \in Pointer /\ readCleared' \in BOOLEAN /\ taken' \in Item \cup {NoItem}
    BY <1>1, <1>2 DEF ReaderHeld, ReadClear, FifoInv, FifoType
<1>5. FifoType'
    BY <1>1, <1>3, <1>4 DEF FifoType, Row, Pointer, DEPTH
<1>6. LagInv'
    BY <1>1 DEF LagInv
<1>7. ASSUME writeCleared' = TRUE
      PROVE  /\ write_bin' = 0
             /\ write_gray' = Gray(0) /\ read_gray_write1' = Gray(0) /\ read_gray_write2' = Gray(0)
    BY <1>1, <1>7 DEF WriterHeld, WriteClear, FifoInv, ClearedInv
<1>8. ASSUME readCleared' = TRUE
      PROVE  /\ read_bin' = 0 /\ taken' = NoItem
             /\ read_gray' = Gray(0) /\ write_gray_read1' = Gray(0) /\ write_gray_read2' = Gray(0)
    BY <1>1, <1>8 DEF ReaderHeld, ReadClear, FifoInv, ClearedInv
<1>9. ClearedInv'
    BY <1>3, <1>4, <1>7, <1>8 DEF ClearedInv, Gray, Bit
<1> QED
    BY <1>5, <1>6, <1>9 DEF FifoInv

\* Everything cleared is a buffer that is empty.
LEMMA ClearedIsEmpty ==
    ASSUME SizedAsInCode
    PROVE  Back(0, 0) = 0 /\ \A room \in 0 .. 16 : Copies(0, Gray(0), Gray(0), room)
<1>1. 0 \in Pointer
    BY Sizes
<1>2. Back(0, 0) = 0
    BY <1>1, BackMoves
<1> QED
    BY <1>2 DEF Copies

\* Reset rises.
LEMMA RaiseKeeps ==
    ASSUME SizedAsInCode, FifoInv, RaiseFifoReset
    PROVE  FifoInv'
<1>1. /\ UNCHANGED <<data_mem, write_bin, read_bin, taken>>
      /\ fifoReset' = TRUE /\ writeCleared' = FALSE /\ readCleared' = FALSE
    BY DEF RaiseFifoReset, writeRegs, readRegs
<1>2. FifoType'
    BY <1>1 DEF FifoInv, FifoType, Row, Pointer, DEPTH
<1> QED
    BY <1>1, <1>2 DEF FifoInv, LagInv, ClearedInv

\* Reset falls.
LEMMA LowerKeeps ==
    ASSUME SizedAsInCode, FifoInv, LowerFifoReset
    PROVE  FifoInv'
<1>1. /\ UNCHANGED <<data_mem, write_bin, read_bin, taken, write_gray, read_gray_write1, read_gray_write2,
                     read_gray, write_gray_read1, write_gray_read2>>
      /\ fifoReset' = FALSE /\ writeCleared' = FALSE /\ readCleared' = FALSE
      /\ fifoReset /\ writeCleared /\ readCleared
    BY DEF LowerFifoReset, writeRegs, readRegs
<1>2. FifoType'
    BY <1>1 DEF FifoInv, FifoType, Row, Pointer, DEPTH
<1>3. /\ write_bin' = 0 /\ read_bin' = 0
      /\ write_gray' = Gray(0) /\ read_gray_write1' = Gray(0) /\ read_gray_write2' = Gray(0)
      /\ read_gray' = Gray(0) /\ write_gray_read1' = Gray(0) /\ write_gray_read2' = Gray(0)
    BY <1>1 DEF FifoInv, ClearedInv
<1>4. Fill' = 0 /\ DEPTH = 16
  <2>1. DEPTH = 16
      BY Sizes
  <2>2. Fill' = (0 - 0) % 32
      BY <1>3, <2>1 DEF Fill
  <2> QED
      BY <2>1, <2>2
<1>5. LagInv'
  <2>1. Copies(0, Gray(0), Gray(0), 16) /\ Copies(0, Gray(0), Gray(0), 0)
      BY ClearedIsEmpty
  <2>2. /\ Copies(read_bin', read_gray_write1', read_gray_write2', 16 - Fill')
        /\ Copies(write_bin', write_gray_read1', write_gray_read2', Fill')
      BY <1>3, <1>4, <2>1
  <2>3. Fill' <= 16 /\ DEPTH = 16 /\ write_gray' = Gray(write_bin') /\ read_gray' = Gray(read_bin')
      BY <1>3, <1>4
  <2> QED
      BY <2>2, <2>3 DEF LagInv, Copies, Back, Gray, DEPTH
<1> QED
    BY <1>1, <1>2, <1>5 DEF FifoInv, ClearedInv

\* The flags of reset are flags.
LEMMA FlagsKept ==
    ASSUME FifoType, [FifoNext]_fifoVars
    PROVE  writeCleared' \in BOOLEAN /\ readCleared' \in BOOLEAN
<1> USE DEF FifoType
<1>1. CASE WriteEdge
    BY <1>1 DEF WriteEdge, WriteWork
<1>2. CASE ReadEdge
    BY <1>2 DEF ReadEdge, ReadWork
<1>3. CASE CoincidentEdge
    BY <1>3 DEF CoincidentEdge, WriteWork, ReadWork
<1>4. CASE RaiseFifoReset \/ LowerFifoReset
    BY <1>4 DEF RaiseFifoReset, LowerFifoReset
<1>5. CASE UNCHANGED fifoVars
    BY <1>5 DEF fifoVars
<1> QED
    BY <1>1, <1>2, <1>3, <1>4, <1>5 DEF FifoNext

\* Every step keeps the invariant.
LEMMA StepKeeps ==
    ASSUME SizedAsInCode, FifoInv, [FifoNext]_fifoVars
    PROVE  FifoInv'
<1>1. CASE RaiseFifoReset
    BY <1>1, RaiseKeeps
<1>2. CASE ~fifoReset /\ ~RaiseFifoReset
    BY <1>2, FlagsKept, RunningKeeps DEF FifoInv
<1>3. CASE fifoReset /\ LowerFifoReset
    BY <1>3, LowerKeeps
<1>4. CASE fifoReset /\ ~LowerFifoReset /\ ~RaiseFifoReset
    BY <1>4, HeldKeeps DEF FifoNext
<1> QED
    BY <1>1, <1>2, <1>3, <1>4

\* The buffer starts empty.
LEMMA InitKeeps ==
    ASSUME SizedAsInCode, FifoInit
    PROVE  FifoInv
<1>1. DEPTH = 16 /\ 0 \in Pointer /\ Fill = 0
  <2>1. DEPTH = 16 /\ 0 \in Pointer
      BY Sizes
  <2>2. Fill = (0 - 0) % 32
      BY <2>1 DEF Fill, FifoInit
  <2> QED
      BY <2>1, <2>2
<1>2. FifoType
    BY <1>1 DEF FifoInit, FifoType
<1>3. Copies(0, Gray(0), Gray(0), 16) /\ Copies(0, Gray(0), Gray(0), 0)
    BY ClearedIsEmpty
<1>4. LagInv
    BY <1>1, <1>3 DEF FifoInit, LagInv
<1> QED
    BY <1>2, <1>4 DEF FifoInv, ClearedInv, FifoInit

\* The inductive invariant of the FIFO.
THEOREM FifoInvariant == SizedAsInCode /\ FifoSpec => []FifoInv
<1>1. SizedAsInCode /\ FifoInit => FifoInv
    BY InitKeeps
<1>2. SizedAsInCode /\ FifoInv /\ [FifoNext]_fifoVars => FifoInv'
    BY StepKeeps
<1>3. SizedAsInCode => []SizedAsInCode
    BY DEF SizedAsInCode, PTL
<1> QED
    BY <1>1, <1>2, <1>3, PTL DEF FifoSpec

-----------------------------------------------------------------------------
(* What the synchronizers hold. *)

\* Different distances lead to different pointers.
LEMMA BackInjective ==
    ASSUME SizedAsInCode, NEW p \in Pointer, NEW d \in 0 .. 31, NEW e \in 0 .. 31, Back(p, d) = Back(p, e)
    PROVE  d = e /\ Back(p, d) \in Pointer
<1>1. /\ p \in 0 .. 31 /\ Pointer = 0 .. 31
      /\ Back(p, d) = (p - d) % 32 /\ Back(p, e) = (p - e) % 32
    BY Sizes DEF Back
<1>2. \A i \in -31 .. 31 : i % 32 = IF i >= 0 THEN i ELSE i + 32
    BY SMTT(30)
<1>3. /\ (p - d) % 32 = IF p >= d THEN p - d ELSE p - d + 32
      /\ (p - e) % 32 = IF p >= e THEN p - e ELSE p - e + 32
    BY <1>1, <1>2
<1>4. (p - d) % 32 = (p - e) % 32
    BY <1>1
<1>5. (IF p >= d THEN p - d ELSE p - d + 32) = (IF p >= e THEN p - e ELSE p - e + 32)
    BY <1>3, <1>4
<1>6. d = e
    BY <1>1, <1>5
<1>7. (IF p >= d THEN p - d ELSE p - d + 32) \in 0 .. 31
    BY <1>1
<1> QED
    BY <1>1, <1>3, <1>6, <1>7

\* The distance of a code from the pointer it came from.
LEMMA DistanceIs ==
    ASSUME SizedAsInCode, NEW to \in Pointer, NEW d \in 0 .. 31
    PROVE  DistanceTo(Gray(Back(to, d)), to) = d
<1>1. DEPTH = 16
    BY Sizes
<1>2. \A e \in 0 .. 31 : Gray(Back(to, e)) = Gray(Back(to, d)) <=> e = d
  <2> SUFFICES ASSUME NEW e \in 0 .. 31, Gray(Back(to, e)) = Gray(Back(to, d))
               PROVE  e = d
      OBVIOUS
  <2>1. Back(to, e) \in Pointer /\ Back(to, d) \in Pointer
      BY BackInjective
  <2>2. Back(to, e) = Back(to, d)
      BY <2>1, GrayInjective
  <2> QED
      BY <2>2, BackInjective
<1>3. DistanceTo(Gray(Back(to, d)), to) = CHOOSE e \in 0 .. 31 : Gray(Back(to, e)) = Gray(Back(to, d))
    BY <1>1 DEF DistanceTo, Back
<1>4. (CHOOSE e \in 0 .. 31 : Gray(Back(to, e)) = Gray(Back(to, d))) = d
    BY <1>2
<1> QED
    BY <1>3, <1>4

\* The copies of a pointer lie within the room they have, the second no nearer than the first.
LEMMA CopiesLag ==
    ASSUME SizedAsInCode, NEW to \in Pointer, NEW room \in 0 .. 16, NEW first, NEW second, Copies(to, first, second, room)
    PROVE  /\ DistanceTo(first, to) <= DistanceTo(second, to)
           /\ DistanceTo(second, to) \in 0 .. room
<1>1. PICK d1 \in 0 .. room, d2 \in 0 .. room :
         d1 <= d2 /\ first = Gray(Back(to, d1)) /\ second = Gray(Back(to, d2))
    BY DEF Copies
<1>2. DistanceTo(first, to) = d1 /\ DistanceTo(second, to) = d2
    BY <1>1, DistanceIs
<1> QED
    BY <1>1, <1>2

\* The invariant bounds the lag of the synchronizers.
LEMMA LagFromFifoInv == SizedAsInCode /\ FifoInv => SynchronizersLag
<1> SUFFICES ASSUME SizedAsInCode, FifoInv, ~fifoReset PROVE SynchronizersLag
    BY DEF SynchronizersLag
<1>1. write_bin \in Pointer /\ read_bin \in Pointer /\ DEPTH = 16
    BY Sizes DEF FifoInv, FifoType
<1>2. Fill \in 0 .. 16
  <2>1. write_bin \in 0 .. 31 /\ read_bin \in 0 .. 31 /\ Fill = (write_bin - read_bin) % 32
      BY <1>1, Sizes DEF Fill
  <2> QED
      BY <1>1, <2>1, FillMoves DEF FifoInv, LagInv
<1>3. /\ Copies(read_bin, read_gray_write1, read_gray_write2, 16 - Fill)
      /\ Copies(write_bin, write_gray_read1, write_gray_read2, Fill)
    BY <1>1 DEF FifoInv, LagInv
<1>4. /\ DistanceTo(read_gray_write1, read_bin) <= DistanceTo(read_gray_write2, read_bin)
      /\ DistanceTo(read_gray_write2, read_bin) \in 0 .. 16 - Fill
    BY <1>1, <1>2, <1>3, CopiesLag
<1>5. /\ DistanceTo(write_gray_read1, write_bin) <= DistanceTo(write_gray_read2, write_bin)
      /\ DistanceTo(write_gray_read2, write_bin) \in 0 .. Fill
    BY <1>1, <1>2, <1>3, CopiesLag
<1> QED
    BY <1>1, <1>2, <1>4, <1>5 DEF SynchronizersLag

\* Whatever a synchronizer holds is a pointer the other side has had, in order.
THEOREM SynchronizersLagHolds == SizedAsInCode /\ FifoSpec => []SynchronizersLag
<1>1. SizedAsInCode => []SizedAsInCode
    BY DEF SizedAsInCode, PTL
<1> QED
    BY <1>1, FifoInvariant, LagFromFifoInv, PTL

-----------------------------------------------------------------------------
(* The FIFO is a buffer of DEPTH items. *)

\* The rows from r on, n of them.
Rows(mem, r, n) == [i \in 1 .. n |-> mem[(r + i - 1) % 16]]

\* They are a sequence.
AreRows(Values, mem, r, n) ==
    /\ Rows(mem, r, n) \in Seq(Values) /\ Len(Rows(mem, r, n)) = n
    /\ \A i \in 1 .. n : Rows(mem, r, n)[i] = mem[(r + i - 1) % 16]
    /\ Rows(mem, r, n) # <<>> <=> n > 0

\* Any rows are, at most as many as there are.
LEMMA RowsSeq ==
    ASSUME NEW Values, NEW mem \in [0 .. 15 -> Values], NEW r \in 0 .. 31, NEW n \in 0 .. 16
    PROVE  AreRows(Values, mem, r, n)
<1>1. \A i \in 1 .. n : (r + i - 1) % 16 \in 0 .. 15
    BY SMTT(30)
<1>2. Rows(mem, r, n) \in [1 .. n -> Values]
    BY <1>1 DEF Rows
<1>3. Rows(mem, r, n) \in Seq(Values) /\ Len(Rows(mem, r, n)) = n
    BY <1>2
<1>4. \A i \in 1 .. n : Rows(mem, r, n)[i] = mem[(r + i - 1) % 16]
    BY DEF Rows
<1>5. Rows(mem, r, n) # <<>> <=> n > 0
    BY <1>3
<1> QED
    BY <1>3, <1>4, <1>5 DEF AreRows

\* Sequences with the same elements are the same.
LEMMA SameSeq ==
    ASSUME NEW Values, NEW s \in Seq(Values), NEW t \in Seq(Values), Len(s) = Len(t),
           \A i \in 1 .. Len(s) : s[i] = t[i]
    PROVE  s = t
OBVIOUS

\* Pointers fewer than DEPTH apart have rows of their own.
LEMMA RowsApart ==
    ASSUME NEW r \in 0 .. 31, NEW w \in 0 .. 31
    PROVE  /\ \A i \in 1 .. (w - r) % 32 : (w - r) % 32 < 16 => (r + i - 1) % 16 # w % 16
           /\ (r + (((w - r) % 32) + 1) - 1) % 16 = w % 16
           /\ \A i \in 1 .. 16 : (((r + 1) % 32) + i - 1) % 16 = (r + (i + 1) - 1) % 16
<1> DEFINE n == (w - r) % 32
<1>1. n = IF w >= r THEN w - r ELSE w - r + 32
    BY FillMoves
<1> HIDE DEF n
<1>2. \A k \in 0 .. 63 : k % 16 = IF k < 16 THEN k ELSE IF k < 32 THEN k - 16
                                  ELSE IF k < 48 THEN k - 32 ELSE k - 48
    BY SMTT(30)
<1>3. ASSUME NEW i \in 1 .. n, n < 16 PROVE (r + i - 1) % 16 # w % 16
  <2>1. r + i - 1 \in 0 .. 63 /\ w \in 0 .. 63
      BY <1>1, <1>3
  <2> QED
      BY <1>1, <1>2, <1>3, <2>1
<1>4. (r + (n + 1) - 1) % 16 = w % 16
  <2>1. r + (n + 1) - 1 \in 0 .. 63 /\ w \in 0 .. 63
      BY <1>1
  <2> QED
      BY <1>1, <1>2, <2>1
<1>5. ASSUME NEW i \in 1 .. 16 PROVE (((r + 1) % 32) + i - 1) % 16 = (r + (i + 1) - 1) % 16
  <2>1. (r + 1) % 32 = IF r = 31 THEN 0 ELSE r + 1
      OBVIOUS
  <2> DEFINE k == (r + 1) % 32
  <2>2. k + i - 1 \in 0 .. 63 /\ r + (i + 1) - 1 \in 0 .. 63
      BY <2>1
  <2>3. k = IF r = 31 THEN 0 ELSE r + 1
      BY <2>1
  <2> HIDE DEF k
  <2>4. (k + i - 1) % 16 = (r + (i + 1) - 1) % 16
      BY <1>2, <2>2, <2>3
  <2> QED
      BY <2>4 DEF k
<1> QED
    BY <1>3, <1>4, <1>5 DEF n

\* The row of w is the one after the n rows from r, and none of them.
Follows(w, r, n) ==
    /\ \A i \in 1 .. n : (r + i - 1) % 16 # w % 16
    /\ (r + (n + 1) - 1) % 16 = w % 16

\* Writing x to the row of w appends it to the n rows from r.
Appends(mem, w, r, n, x) ==
    Rows([mem EXCEPT ![w % 16] = x], r, n + 1) = Append(Rows(mem, r, n), x)

\* Writing the row that follows those held appends.
LEMMA Appended ==
    ASSUME NEW Values, NEW mem \in [0 .. 15 -> Values], NEW r \in 0 .. 31, NEW w \in 0 .. 31,
           NEW n \in 0 .. 15, NEW x \in Values
    PROVE  Follows(w, r, n) => Appends(mem, w, r, n, x)
<1> DEFINE mem2 == [mem EXCEPT ![w % 16] = x]
<1>0. n \in 0 .. 16 /\ n + 1 \in 0 .. 16
    OBVIOUS
<1>1. w % 16 \in 0 .. 15
    BY SMTT(30)
<1>2. mem2 \in [0 .. 15 -> Values] /\ mem2[w % 16] = x
      /\ \A j \in 0 .. 15 : j # w % 16 => mem2[j] = mem[j]
    BY <1>1
<1> HIDE DEF mem2
<1>3. /\ Rows(mem2, r, n + 1) \in Seq(Values) /\ Len(Rows(mem2, r, n + 1)) = n + 1
      /\ \A i \in 1 .. n + 1 : Rows(mem2, r, n + 1)[i] = mem2[(r + i - 1) % 16]
  <2>1. AreRows(Values, mem2, r, n + 1)
      BY <1>0, <1>2, RowsSeq, Zenon
  <2> QED
      BY <2>1 DEF AreRows
<1>4. /\ Rows(mem, r, n) \in Seq(Values) /\ Len(Rows(mem, r, n)) = n
      /\ \A i \in 1 .. n : Rows(mem, r, n)[i] = mem[(r + i - 1) % 16]
  <2>1. AreRows(Values, mem, r, n)
      BY <1>0, RowsSeq, Zenon
  <2> QED
      BY <2>1 DEF AreRows
<1>5. /\ Append(Rows(mem, r, n), x) \in Seq(Values) /\ Len(Append(Rows(mem, r, n), x)) = n + 1
      /\ \A i \in 1 .. n : Append(Rows(mem, r, n), x)[i] = Rows(mem, r, n)[i]
      /\ Append(Rows(mem, r, n), x)[n + 1] = x
    BY <1>4
<1> SUFFICES ASSUME \A i \in 1 .. n : (r + i - 1) % 16 # w % 16,
                    (r + (n + 1) - 1) % 16 = w % 16
             PROVE  Rows(mem2, r, n + 1) = Append(Rows(mem, r, n), x)
    BY DEF mem2, Follows, Appends
<1>6. ASSUME NEW i \in 1 .. n + 1 PROVE Rows(mem2, r, n + 1)[i] = Append(Rows(mem, r, n), x)[i]
  <2>1. CASE i = n + 1
    <3>1. (r + i - 1) % 16 = w % 16
        BY <2>1
    <3> QED
        BY <1>2, <1>3, <1>5, <2>1, <3>1
  <2>2. CASE i \in 1 .. n
    <3>1. (r + i - 1) % 16 # w % 16
        BY <2>2
    <3>2. (r + i - 1) % 16 \in 0 .. 15
        BY SMTT(30)
    <3>3. mem2[(r + i - 1) % 16] = mem[(r + i - 1) % 16]
        BY <1>2, <3>1, <3>2
    <3> QED
        BY <1>3, <1>4, <1>5, <2>2, <3>3
  <2>3. i = n + 1 \/ i \in 1 .. n
      OBVIOUS
  <2> QED
      BY <2>1, <2>2, <2>3
<1> QED
    BY <1>3, <1>5, <1>6, SameSeq

\* Moving the read pointer takes the head.
LEMMA Taken ==
    ASSUME NEW Values, NEW mem \in [0 .. 15 -> Values], NEW r \in 0 .. 31, NEW n \in 1 .. 16
    PROVE  /\ Head(Rows(mem, r, n)) = mem[r % 16]
           /\ Rows(mem, (r + 1) % 32, n - 1) = Tail(Rows(mem, r, n))
<1>0. n \in 0 .. 16 /\ n - 1 \in 0 .. 16 /\ n > 0
    OBVIOUS
<1>1. (r + 1) % 32 \in 0 .. 31
    BY SMTT(30)
<1>2. /\ Rows(mem, r, n) \in Seq(Values) /\ Len(Rows(mem, r, n)) = n /\ Rows(mem, r, n) # <<>>
      /\ \A i \in 1 .. n : Rows(mem, r, n)[i] = mem[(r + i - 1) % 16]
  <2>1. AreRows(Values, mem, r, n)
      BY <1>0, RowsSeq, Zenon
  <2> QED
      BY <1>0, <2>1 DEF AreRows
<1>3. /\ Rows(mem, (r + 1) % 32, n - 1) \in Seq(Values) /\ Len(Rows(mem, (r + 1) % 32, n - 1)) = n - 1
      /\ \A i \in 1 .. n - 1 : Rows(mem, (r + 1) % 32, n - 1)[i] = mem[(((r + 1) % 32) + i - 1) % 16]
  <2>1. AreRows(Values, mem, (r + 1) % 32, n - 1)
      BY <1>0, <1>1, RowsSeq, Zenon
  <2> QED
      BY <2>1 DEF AreRows
<1>4. /\ Tail(Rows(mem, r, n)) \in Seq(Values) /\ Len(Tail(Rows(mem, r, n))) = n - 1
      /\ \A i \in 1 .. n - 1 : Tail(Rows(mem, r, n))[i] = Rows(mem, r, n)[i + 1]
      /\ Head(Rows(mem, r, n)) = Rows(mem, r, n)[1]
    BY <1>2
<1>5. ASSUME NEW i \in 1 .. n - 1 PROVE Rows(mem, (r + 1) % 32, n - 1)[i] = Tail(Rows(mem, r, n))[i]
  <2>1. (((r + 1) % 32) + i - 1) % 16 = (r + (i + 1) - 1) % 16
      BY RowsApart
  <2>2. i + 1 \in 1 .. n
      OBVIOUS
  <2>3. Rows(mem, r, n)[i + 1] = mem[(r + (i + 1) - 1) % 16]
      BY <1>2, <2>2
  <2> QED
      BY <1>3, <1>4, <2>1, <2>3
<1>6. Rows(mem, (r + 1) % 32, n - 1) = Tail(Rows(mem, r, n))
    BY <1>3, <1>4, <1>5, SameSeq
<1>7. Head(Rows(mem, r, n)) = mem[r % 16]
  <2>1. r + 1 - 1 = r /\ 1 \in 1 .. n
      OBVIOUS
  <2> QED
      BY <1>2, <1>4, <2>1
<1> QED
    BY <1>6, <1>7

\* The tail of an appended sequence.
LEMMA TailOfAppend ==
    ASSUME NEW Values, NEW s \in Seq(Values), s # <<>>, NEW x \in Values
    PROVE  Tail(Append(s, x)) = Append(Tail(s), x)
<1>1. /\ Tail(Append(s, x)) \in Seq(Values) /\ Append(Tail(s), x) \in Seq(Values)
      /\ Len(Tail(Append(s, x))) = Len(s) /\ Len(Append(Tail(s), x)) = Len(s) /\ Len(s) \in Nat \ {0}
    OBVIOUS
<1>2. ASSUME NEW i \in 1 .. Len(s) PROVE Tail(Append(s, x))[i] = Append(Tail(s), x)[i]
  <2>1. Tail(Append(s, x))[i] = Append(s, x)[i + 1]
      OBVIOUS
  <2>2. CASE i = Len(s)
      BY <2>1, <2>2
  <2>3. CASE i < Len(s)
      BY <2>1, <2>3
  <2> QED
      BY <2>2, <2>3
<1> QED
    BY <1>1, <1>2, SameSeq

\* The items accepted and not yet read, out of reset.
Unread == Rows(data_mem, read_bin, Fill)

\* They are what the refinement maps to the queue.
LEMMA UnreadIsQueue ==
    SizedAsInCode => [i \in 1 .. Fill |-> data_mem[(read_bin + i - 1) % DEPTH]] = Unread
BY Sizes DEF Unread, Rows

\* A step out of reset puts an item, gets one, does both or neither.
LEMMA MovedQueue ==
    ASSUME SizedAsInCode, FifoInv, ~fifoReset, Moved
    PROVE  \/ Unread' = Unread /\ taken' = taken
           \/ /\ Len(Unread) < 16 /\ taken' = taken
              /\ \E x \in Item : Unread' = Append(Unread, x)
           \/ Unread # <<>> /\ taken' = Head(Unread) /\ Unread' = Tail(Unread)
           \/ /\ Unread # <<>> /\ Len(Unread) < 16 /\ taken' = Head(Unread)
              /\ \E x \in Item : Unread' = Append(Tail(Unread), x)
<1> DEFINE Values == Item \cup {NoItem}
<1>1. /\ data_mem \in [0 .. 15 -> Values] /\ write_bin \in 0 .. 31 /\ read_bin \in 0 .. 31
      /\ DEPTH = 16 /\ Pointer = 0 .. 31
      /\ Fill = (write_bin - read_bin) % 32
      /\ Advance(write_bin) = (write_bin + 1) % 32 /\ Advance(read_bin) = (read_bin + 1) % 32
    BY Sizes DEF FifoInv, FifoType, Fill, Advance
<1>2. /\ write_bin' \in {write_bin, Advance(write_bin)} /\ read_bin' \in {read_bin, Advance(read_bin)}
      /\ Fill \in 0 .. 16 /\ Fill' \in 0 .. 16
      /\ Fill' = Fill + (IF write_bin' = write_bin THEN 0 ELSE 1) - (IF read_bin' = read_bin THEN 0 ELSE 1)
      /\ write_bin' # write_bin => write_ready_out
      /\ read_bin' # read_bin => read_valid_out
    BY FillKept
<1>3. Advance(write_bin) # write_bin /\ Advance(read_bin) # read_bin
  <2>1. write_bin \in Pointer /\ read_bin \in Pointer /\ 0 \in 0 .. 30
      BY DEF FifoInv, FifoType
  <2> QED
      BY <2>1, BackMoves
<1>4. (write_ready_out => Fill < 16) /\ (read_valid_out => Fill > 0)
    BY FullAndEmpty
<1>5. Unread' = Rows(data_mem', read_bin', Fill')
    BY DEF Unread, Rows
<1> HIDE DEF Values
<1>6. Unread \in Seq(Values) /\ Len(Unread) = Fill /\ (Unread # <<>> <=> Fill > 0)
  <2>1. data_mem \in [0 .. 15 -> Values] /\ read_bin \in 0 .. 31
      BY <1>1
  <2>2. Fill \in 0 .. 16
      BY <1>2
  <2>3. AreRows(Values, data_mem, read_bin, Fill)
      BY <2>1, <2>2, RowsSeq, Zenon
  <2> QED
      BY <2>3 DEF AreRows, Unread
<1>7. CASE UNCHANGED <<write_bin, data_mem>> /\ UNCHANGED <<read_bin, taken>>
    BY <1>2, <1>5, <1>7 DEF Unread
<1>8. ASSUME write_ready_out, write_bin' = Advance(write_bin),
             NEW x \in Item, data_mem' = [data_mem EXCEPT ![write_bin % DEPTH] = x]
      PROVE  /\ Len(Unread) < 16 /\ data_mem' \in [0 .. 15 -> Values]
             /\ Rows(data_mem', read_bin, Fill + 1) = Append(Unread, x)
  <2>1. Fill \in 0 .. 15 /\ x \in Values
      BY <1>2, <1>4, <1>8 DEF Values
  <2>2. Follows(write_bin, read_bin, Fill)
      BY <1>1, <2>1, RowsApart DEF Follows
  <2>3. data_mem' = [data_mem EXCEPT ![write_bin % 16] = x]
      BY <1>1, <1>8
  <2>4. Rows([data_mem EXCEPT ![write_bin % 16] = x], read_bin, Fill + 1) = Append(Unread, x)
    <3>1. data_mem \in [0 .. 15 -> Values] /\ write_bin \in 0 .. 31 /\ read_bin \in 0 .. 31
        BY <1>1
    <3>2. Follows(write_bin, read_bin, Fill) => Appends(data_mem, write_bin, read_bin, Fill, x)
        BY <2>1, <3>1, Appended, Zenon
    <3> QED
        BY <2>2, <3>2 DEF Unread, Appends
  <2>5. write_bin % 16 \in 0 .. 15
      BY <1>1
  <2>6. data_mem' \in [0 .. 15 -> Values]
      BY <1>1, <2>1, <2>3, <2>5
  <2> QED
    <3>1. Len(Unread) < 16
        BY <1>6, <2>1
    <3>2. Rows(data_mem', read_bin, Fill + 1) = Append(Unread, x)
        BY <2>3, <2>4, Zenon
    <3> QED
        BY <2>6, <3>1, <3>2
<1>9. CASE /\ UNCHANGED <<read_bin, taken>>
           /\ write_ready_out /\ write_bin' = Advance(write_bin)
           /\ \E x \in Item : data_mem' = [data_mem EXCEPT ![write_bin % DEPTH] = x]
  <2>1. PICK x \in Item : data_mem' = [data_mem EXCEPT ![write_bin % DEPTH] = x]
      BY <1>9
  <2>2. Len(Unread) < 16 /\ Rows(data_mem', read_bin, Fill + 1) = Append(Unread, x)
      BY <1>8, <1>9, <2>1
  <2>3. Fill' = Fill + 1 /\ read_bin' = read_bin
      BY <1>2, <1>3, <1>9
  <2>4. Unread' = Append(Unread, x)
      BY <1>5, <2>2, <2>3
  <2> QED
      BY <1>9, <2>2, <2>4
<1>10. CASE /\ UNCHANGED <<write_bin, data_mem>>
            /\ read_valid_out /\ read_bin' = Advance(read_bin) /\ taken' = read_data_out
  <2>1. Fill \in 1 .. 16 /\ Fill' = Fill - 1
      BY <1>2, <1>3, <1>4, <1>10
  <2>2. /\ Head(Rows(data_mem, read_bin, Fill)) = data_mem[read_bin % 16]
        /\ Rows(data_mem, (read_bin + 1) % 32, Fill - 1) = Tail(Rows(data_mem, read_bin, Fill))
      BY <1>1, <2>1, Taken
  <2>3. Unread' = Tail(Unread)
      BY <1>1, <1>5, <1>10, <2>1, <2>2 DEF Unread
  <2>4. taken' = Head(Unread)
      BY <1>1, <1>10, <2>2 DEF Unread, read_data_out
  <2> QED
      BY <1>6, <2>1, <2>3, <2>4
<1>11. CASE /\ write_ready_out /\ write_bin' = Advance(write_bin)
            /\ \E x \in Item : data_mem' = [data_mem EXCEPT ![write_bin % DEPTH] = x]
            /\ read_valid_out /\ read_bin' = Advance(read_bin) /\ taken' = read_data_out
  <2>1. PICK x \in Item : data_mem' = [data_mem EXCEPT ![write_bin % DEPTH] = x]
      BY <1>11
  <2>2. /\ Len(Unread) < 16 /\ data_mem' \in [0 .. 15 -> Values]
        /\ Rows(data_mem', read_bin, Fill + 1) = Append(Unread, x)
      BY <1>8, <1>11, <2>1
  <2>3. Fill \in 1 .. 15 /\ Fill' = Fill
      BY <1>2, <1>3, <1>4, <1>11
  <2>4. Head(Rows(data_mem, read_bin, Fill)) = data_mem[read_bin % 16]
    <3>1. data_mem \in [0 .. 15 -> Values] /\ read_bin \in 0 .. 31 /\ Fill \in 1 .. 16
        BY <1>1, <2>3
    <3> QED
        BY <3>1, Taken, Zenon
  <2>5. taken' = Head(Unread)
      BY <1>1, <1>11, <2>4 DEF Unread, read_data_out
  <2>6. Fill + 1 \in 1 .. 16 /\ (Fill + 1) - 1 = Fill
      BY <2>3
  <2>7. Rows(data_mem', (read_bin + 1) % 32, (Fill + 1) - 1) = Tail(Rows(data_mem', read_bin, Fill + 1))
      BY <1>1, <2>2, <2>6, Taken
  <2>8. Unread' = Tail(Append(Unread, x))
      BY <1>1, <1>5, <1>11, <2>2, <2>3, <2>6, <2>7
  <2>9. Unread # <<>> /\ x \in Values
      BY <1>6, <2>3 DEF Values
  <2>10. Unread' = Append(Tail(Unread), x)
      BY <1>6, <2>8, <2>9, TailOfAppend
  <2> QED
      BY <2>2, <2>5, <2>9, <2>10
<1> QED
    BY <1>7, <1>9, <1>10, <1>11 DEF Moved

\* Every step is one of the buffer's, or none of its business.
LEMMA BufferStep ==
    ASSUME SizedAsInCode, FifoInv, [FifoNext]_fifoVars
    PROVE  [Buffer!Next]_(Buffer!vars)
<1> DEFINE queue == IF fifoReset THEN <<>>
                    ELSE [i \in 1 .. Fill |-> data_mem[(read_bin + i - 1) % DEPTH]]
           handed == IF fifoReset THEN NoItem ELSE taken
<1>1. DEPTH = 16
    BY Sizes
<1>2. queue = IF fifoReset THEN <<>> ELSE Unread
    BY UnreadIsQueue
<1>3. queue' = IF fifoReset' THEN <<>> ELSE Unread'
    BY Sizes DEF Unread, Rows, DEPTH
<1>4. handed' = IF fifoReset' THEN NoItem ELSE taken'
    OBVIOUS
<1> HIDE DEF queue, handed
<1>5. \/ queue' = queue /\ handed' = handed
      \/ queue' = <<>> /\ handed' = NoItem
      \/ /\ Len(queue) < 16 /\ handed' = handed
         /\ \E x \in Item : queue' = Append(queue, x)
      \/ queue # <<>> /\ handed' = Head(queue) /\ queue' = Tail(queue)
      \/ /\ queue # <<>> /\ Len(queue) < 16 /\ handed' = Head(queue)
         /\ \E x \in Item : queue' = Append(Tail(queue), x)
  <2>1. CASE RaiseFifoReset
      BY <1>3, <1>4, <2>1 DEF RaiseFifoReset
  <2>2. CASE ~fifoReset /\ ~RaiseFifoReset
    <3>1. Moved /\ fifoReset' = FALSE
        BY <2>2, StepMoves
    <3>2. queue = Unread /\ queue' = Unread' /\ handed = taken /\ handed' = taken'
        BY <1>2, <1>3, <1>4, <2>2, <3>1 DEF handed
    <3> QED
        BY <2>2, <3>1, <3>2, MovedQueue
  <2>3. CASE fifoReset /\ LowerFifoReset
    <3>1. fifoReset' = FALSE /\ write_bin' = 0 /\ read_bin' = 0 /\ taken' = NoItem
        BY <2>3 DEF LowerFifoReset, FifoInv, ClearedInv, writeRegs, readRegs
    <3>2. Fill' = 0
      <4>1. Fill' = (0 - 0) % 32
          BY <1>1, <3>1 DEF Fill, DEPTH
      <4> QED
          BY <4>1
    <3>3. Unread' = <<>>
        BY <3>2 DEF Unread, Rows
    <3> QED
        BY <1>3, <1>4, <3>1, <3>3
  <2>4. CASE fifoReset /\ ~LowerFifoReset /\ ~RaiseFifoReset
    <3>1. fifoReset' = TRUE
        BY <2>4, HeldStep DEF FifoNext
    <3> QED
        BY <1>3, <1>4, <3>1
  <2> QED
      BY <2>1, <2>2, <2>3, <2>4
<1>6. [Buffer!Next]_<<queue, handed>>
    BY <1>1, <1>5 DEF Buffer!Next, Buffer!Put, Buffer!Get, Buffer!PutGet, Buffer!Reset, queue, handed
<1> QED
    BY <1>6 DEF Buffer!vars, queue, handed

\* The FIFO is a first-in first-out buffer of DEPTH items for its two clock
\* domains, through resets and coincident edges.
THEOREM ImplementsBuffer == SizedAsInCode /\ FifoSpec => BufferSpec
<1>1. SizedAsInCode /\ FifoInit => Buffer!Init
  <2> SUFFICES ASSUME SizedAsInCode, FifoInit PROVE Buffer!Init
      OBVIOUS
  <2>1. Fill = 0
    <3>1. Fill = (0 - 0) % 32
        BY Sizes DEF Fill, FifoInit
    <3> QED
        BY <3>1
  <2>2. Unread = <<>>
      BY <2>1 DEF Unread, Rows
  <2> QED
      BY <2>2, UnreadIsQueue DEF Buffer!Init, FifoInit
<1>2. SizedAsInCode /\ FifoInv /\ [FifoNext]_fifoVars => [Buffer!Next]_(Buffer!vars)
    BY BufferStep
<1>3. SizedAsInCode => []SizedAsInCode
    BY DEF SizedAsInCode, PTL
<1> QED
    BY <1>1, <1>2, <1>3, FifoInvariant, PTL DEF FifoSpec, BufferSpec, Buffer!Spec
=============================================================================
