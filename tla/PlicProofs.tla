----------------------------- MODULE PlicProofs -----------------------------
(***************************************************************************)
(* Proofs about Plic on a bus that carries one access at a time, for any    *)
(* number of harts, sources, priorities and thresholds.                     *)
(***************************************************************************)
EXTENDS Plic, TLAPS

\* A gateway is busy exactly while a hart serves its source, and holds no
\* further request meanwhile.
GatewayInv ==
    /\ \A s \in Source : s \in gateway_busy <=> \E h \in Hart : s \in serving[h]
    /\ pending \cap gateway_busy = {}

\* A source has at most one server.
ServerInv == \A h, k \in Hart : h # k => serving[h] \cap serving[k] = {}

\* A completion on its way is of a source its hart still serves.
WriteInv ==
    write # None /\ write.register = "complete" => write.source \in serving[write.hart]

Inv == TypeOK /\ GatewayInv /\ ServerInv /\ WriteInv

-----------------------------------------------------------------------------
(* Facts about one edge. *)

\* A claim takes only sources that are pending and enabled (claim_for_context).
LEMMA ClaimedArePending ==
    ASSUME NEW h \in Hart
    PROVE  Claim(h) \subseteq pending \cap enable[h]
BY DEF Claim, Claimable

\* A data beat that completes names its hart and its source.
LEMMA CompletionFields ==
    ASSUME NEW b \in Write, b.register = "complete"
    PROVE  b.hart \in Hart /\ b.source \in Source
BY DEF Write, Setup, Completion

\* Registers cleared by reset satisfy the invariant.
LEMMA ResetInv ==
    ASSUME Reset PROVE Inv'
<1>1. 0 \in Priority /\ 0 \in Threshold
    BY PlicAssumption DEF Priority, Threshold
<1>2. TypeOK'
    BY <1>1 DEF Reset, Cleared, TypeOK
<1>3. GatewayInv' /\ ServerInv' /\ WriteInv'
    BY DEF Reset, Cleared, GatewayInv, ServerInv, WriteInv
<1> QED
    BY <1>2, <1>3 DEF Inv

\* The initial registers satisfy it as well.
LEMMA InitInv == Init => Inv
<1> SUFFICES ASSUME Init PROVE Inv
    OBVIOUS
<1>1. 0 \in Priority /\ 0 \in Threshold
    BY PlicAssumption DEF Priority, Threshold
<1>2. TypeOK
    BY <1>1 DEF Init, TypeOK
<1>3. GatewayInv /\ ServerInv /\ WriteInv
    BY DEF Init, GatewayInv, ServerInv, WriteInv
<1> QED
    BY <1>2, <1>3 DEF Inv

\* Every edge keeps the types, whatever the bus allows.
LEMMA EdgeType ==
    ASSUME TypeOK, NEW ar \in Hart \cup {None}, NEW aw \in Write \cup {None},
           NEW w \in BOOLEAN, Edge(ar, aw, w)
    PROVE  TypeOK'
<1> USE DEF TypeOK
<1>1. ASSUME w PROVE write \in Write
    BY <1>1 DEF Edge, WriteChannel
<1>2. Claimed(ar) \subseteq Source
    BY ClaimedArePending DEF Claimed
<1>3. Completed(w) \subseteq Source
    BY <1>1, CompletionFields DEF Completed
<1>4. {source_irq', pending', gateway_busy'} \subseteq SUBSET Source
    BY <1>2 DEF Edge, Pend, Occupy
<1>5. priority' \in [Source -> Priority]
    BY <1>1 DEF Edge, Configure, Write, Setup, Completion
<1>6. enable' \in [Hart -> SUBSET Source]
    BY <1>1 DEF Edge, Configure, Write, Setup, Completion
<1>7. threshold' \in [Hart -> Threshold]
    BY <1>1 DEF Edge, Configure, Write, Setup, Completion
<1>8. reader' \in Hart \cup {None} /\ write' \in Write \cup {None} /\ answered' \in BOOLEAN
    BY DEF Edge, ReadChannel, WriteChannel
<1>9. serving' \in [Hart -> SUBSET Source]
    BY <1>3, ClaimedArePending DEF Edge, Serve
<1> QED
    BY <1>4, <1>5, <1>6, <1>7, <1>8, <1>9

-----------------------------------------------------------------------------
(* The invariant, when the bus carries one access at a time. *)

\* An edge that accepts a claim accepts nothing else.
LEMMA ClaimAlone ==
    ASSUME ~Parallel, NEW ar \in Hart, NEW aw, NEW w \in BOOLEAN, Edge(ar, aw, w),
           None \notin Hart
    PROVE  /\ w = FALSE /\ aw = None
           /\ write = None /\ write' = None
BY DEF Edge, ReadChannel, WriteChannel

\* A claim moves one source from pending to busy and to its hart.
LEMMA ClaimEdge ==
    ASSUME ~Parallel, Inv, NEW ar \in Hart, NEW aw \in Write \cup {None},
           NEW w \in BOOLEAN, Edge(ar, aw, w)
    PROVE  GatewayInv' /\ ServerInv' /\ WriteInv'
<1> DEFINE claimed == Claim(ar)
<1>1. None \notin Hart
    BY PlicAssumption
<1>2. w = FALSE /\ write' = None
    BY <1>1, ClaimAlone
<1>3. Claimed(ar) = claimed /\ Completed(w) = {}
    BY <1>1, <1>2 DEF Claimed, Completed
<1>4. /\ gateway_busy' = gateway_busy \cup claimed
      /\ pending' = (pending \cup (source_irq \ gateway_busy)) \ claimed
    BY <1>3 DEF Edge, Pend, Occupy
<1>5. serving' = [h \in Hart |-> serving[h] \cup (IF h = ar THEN claimed ELSE {})]
    BY <1>2 DEF Edge, Serve
<1>6. claimed \subseteq pending
    BY ClaimedArePending
<1> HIDE DEF claimed
<1>7. \A h \in Hart : claimed \cap serving[h] = {}
    BY <1>6 DEF Inv, GatewayInv, TypeOK
<1>8. GatewayInv'
    BY <1>4, <1>5, <1>6 DEF Inv, GatewayInv, TypeOK
<1>9. ServerInv'
    BY <1>5, <1>7 DEF Inv, ServerInv
<1>10. WriteInv'
    BY <1>2 DEF WriteInv
<1> QED
    BY <1>8, <1>9, <1>10

\* A completion takes its source from its hart and from the busy gateways.
LEMMA CompletionEdge ==
    ASSUME ~Parallel, Inv, NEW aw \in Write \cup {None}, Edge(None, aw, TRUE),
           write.register = "complete"
    PROVE  GatewayInv' /\ ServerInv' /\ WriteInv'
<1> DEFINE s == write.source
           k == write.hart
<1>1. write # None /\ write' = None
    BY DEF Edge, WriteChannel
<1>2. k \in Hart /\ s \in Source /\ s \in serving[k]
    BY <1>1, CompletionFields DEF Inv, TypeOK, WriteInv
<1>3. Claimed(None) = {} /\ Completed(TRUE) = {s}
    BY DEF Claimed, Completed
<1>4. /\ gateway_busy' = gateway_busy \ {s}
      /\ pending' = pending \cup ((source_irq \ {s}) \ gateway_busy)
    BY <1>3 DEF Edge, Pend, Occupy
<1>5. None \notin Hart
    BY PlicAssumption
<1>6. serving' = [h \in Hart |-> serving[h] \ (IF h = k THEN {s} ELSE {})]
    BY <1>3, <1>5 DEF Edge, Serve
<1> HIDE DEF s, k
<1>7. \A h \in Hart : h # k => s \notin serving[h]
    BY <1>2 DEF Inv, ServerInv
<1>8. \A t \in Source : t \in gateway_busy' <=> \E h \in Hart : t \in serving'[h]
  <2> TAKE t \in Source
  <2>1. CASE t = s
        BY <2>1, <1>4, <1>6, <1>7
  <2>2. CASE t # s
    <3>1. \A h \in Hart : t \in serving'[h] <=> t \in serving[h]
        BY <2>2, <1>6
    <3> QED
        BY <2>2, <3>1, <1>4 DEF Inv, GatewayInv
  <2> QED
        BY <2>1, <2>2
<1>9. GatewayInv'
    BY <1>4, <1>8 DEF Inv, GatewayInv
<1>10. ServerInv'
    BY <1>6 DEF Inv, ServerInv
<1>11. WriteInv'
    BY <1>1 DEF WriteInv
<1> QED
    BY <1>9, <1>10, <1>11

\* On any other edge the gateways and the servers stay; requests may be latched.
LEMMA OtherEdge ==
    ASSUME ~Parallel, Inv, NEW aw \in Write \cup {None}, NEW w \in BOOLEAN,
           Edge(None, aw, w), ~(w /\ write.register = "complete")
    PROVE  GatewayInv' /\ ServerInv' /\ WriteInv'
<1>1. None \notin Hart
    BY PlicAssumption
<1>2. Claimed(None) = {} /\ Completed(w) = {}
    BY DEF Claimed, Completed
<1>3. /\ gateway_busy' = gateway_busy
      /\ pending' = pending \cup (source_irq \ gateway_busy)
    BY <1>2 DEF Edge, Pend, Occupy, Inv, TypeOK
<1>4. serving' = serving
    BY <1>1, <1>2 DEF Edge, Serve, Inv, TypeOK
<1>5. GatewayInv'
    BY <1>3, <1>4 DEF Inv, GatewayInv
<1>6. ServerInv'
    BY <1>4 DEF Inv, ServerInv
<1>7. WriteInv'
    BY <1>4 DEF Edge, WriteChannel, Inv, WriteInv
<1> QED
    BY <1>5, <1>6, <1>7

\* Every step keeps the invariant, if the bus carries one access at a time.
LEMMA NextInv ==
    ASSUME ~Parallel PROVE Inv /\ [Next]_vars => Inv'
<1> SUFFICES ASSUME Inv, [Next]_vars PROVE Inv'
    OBVIOUS
<1>1. ASSUME NEW ar \in Hart \cup {None}, NEW aw \in Write \cup {None},
             NEW w \in BOOLEAN, Edge(ar, aw, w)
      PROVE  Inv'
  <2>1. TypeOK'
      BY <1>1, EdgeType DEF Inv
  <2>2. CASE ar \in Hart
      BY <1>1, <2>1, <2>2, ClaimEdge DEF Inv
  <2>3. CASE ar = None /\ w /\ write.register = "complete"
    <3>1. Edge(None, aw, TRUE)
        BY <1>1, <2>3
    <3> QED
        BY <3>1, <2>1, <2>3, CompletionEdge DEF Inv
  <2>4. CASE ar = None /\ ~(w /\ write.register = "complete")
    <3>1. Edge(None, aw, w)
        BY <1>1, <2>4
    <3> QED
        BY <3>1, <2>1, <2>4, OtherEdge DEF Inv
  <2> QED
      BY <1>1, <2>2, <2>3, <2>4
<1>2. CASE Reset
    BY <1>2, ResetInv
<1>3. CASE UNCHANGED vars
    BY <1>3 DEF vars, gateways, setup, bus, Inv, TypeOK, GatewayInv, ServerInv, WriteInv
<1> QED
    BY <1>1, <1>2, <1>3 DEF Next

-----------------------------------------------------------------------------
(* The theorems. *)

\* The registers of the PLIC keep their types, also on a parallel bus.
THEOREM TypeCorrect == Spec => []TypeOK
<1>1. Init => TypeOK
    BY InitInv DEF Inv
<1>2. TypeOK /\ [Next]_vars => TypeOK'
  <2> SUFFICES ASSUME TypeOK, [Next]_vars PROVE TypeOK'
      OBVIOUS
  <2>1. ASSUME NEW ar \in Hart \cup {None}, NEW aw \in Write \cup {None},
               NEW w \in BOOLEAN, Edge(ar, aw, w)
        PROVE  TypeOK'
      BY <2>1, EdgeType
  <2>2. CASE Reset
      BY <2>2, ResetInv DEF Inv
  <2>3. CASE UNCHANGED vars
      BY <2>3 DEF vars, gateways, setup, bus, TypeOK
  <2> QED
      BY <2>1, <2>2, <2>3 DEF Next
<1> QED
    BY <1>1, <1>2, PTL DEF Spec

\* A bus with one access at a time keeps the invariant.
THEOREM Invariance == ASSUME ~Parallel PROVE Spec => []Inv
BY InitInv, NextInv, PTL DEF Spec

\* The gateways of the PLIC block repeats until claim completion, if its bus
\* carries one access at a time.
THEOREM ServedOnceHolds == ASSUME ~Parallel PROVE Spec => []ServedOnce
<1>1. Inv => ServedOnce
    BY DEF Inv, TypeOK, GatewayInv, ServerInv, ServedOnce
<1> QED
    BY <1>1, Invariance, PTL

\* A latched request stays until a hart that enabled its source claims it.
THEOREM RequestKeptHolds == ASSUME ~Parallel PROVE Spec => RequestKept
<1> DEFINE Kept == \A s \in pending \ pending' :
                     Reset \/ \E h \in Hart : s \in serving'[h] \ serving[h] /\ s \in enable[h]
<1>1. Inv /\ [Next]_vars => [Kept]_vars
  <2> SUFFICES ASSUME Inv, NEW ar \in Hart \cup {None}, NEW aw \in Write \cup {None},
                      NEW w \in BOOLEAN, Edge(ar, aw, w), NEW s \in pending \ pending'
               PROVE  \E h \in Hart : s \in serving'[h] \ serving[h] /\ s \in enable[h]
      BY DEF Next, vars, gateways
  <2>1. s \in Claimed(ar)
      BY DEF Edge, Pend
  <2>2. ar \in Hart /\ s \in Claim(ar)
      BY <2>1 DEF Claimed
  <2>3. s \in serving'[ar] /\ s \in enable[ar]
      BY <2>2, ClaimedArePending DEF Edge, Serve
  <2>4. s \notin serving[ar]
      BY <2>2 DEF Inv, TypeOK, GatewayInv
  <2> QED
      BY <2>2, <2>3, <2>4
<1> QED
    BY <1>1, Invariance, PTL DEF Spec, RequestKept
=============================================================================
