---------------------------- MODULE MCCrossings -----------------------------
(* The three crossings between clocks.  Which one is looked at is chosen once *)
(* and the registers of the others never move; they share none.              *)
(*   l1: enough identities that a fresh one exists in every state, since the *)
(*     mailbox can carry five at a time;                                    *)
(*   bridge: the kinds of path, two targets, and three addresses of which    *)
(*     two are of one target: the next transaction repeats the last one's    *)
(*     or does not;                                                         *)
(*   fifo: four rows, three-bit pointers: every pointer wraps twice as often *)
(*     as the rows do, as with the code's sixteen.  Two items tell any order *)
(*     apart.                                                               *)
EXTENDS L1MemCdc, Axi4Cdc, Fifo2clk

MCModes ==
    {m \in [gated : BOOLEAN, data : BOOLEAN, muxed : BOOLEAN] : m.muxed => ~m.gated}
MCRegions == <<[base |-> 0, size |-> 1], [base |-> 1, size |-> 1]>>

VARIABLE crossing

L1 == crossing = "l1" /\ UNCHANGED <<crossing, vars, fifoVars>>
Bridge == crossing = "bridge" /\ UNCHANGED <<crossing, l1MemVars, fifoVars>>
Fifo == crossing = "fifo" /\ UNCHANGED <<crossing, l1MemVars, vars>>

CrossingVars == <<crossing, l1MemVars, vars, fifoVars>>

CrossingInit ==
    /\ crossing \in {"l1", "bridge", "fifo"}
    /\ L1MemInit /\ Init /\ FifoInit
    /\ crossing # "bridge" => mode = [gated |-> TRUE, data |-> TRUE, muxed |-> FALSE]

CrossingNext == (L1 /\ L1MemNext) \/ (Bridge /\ Next) \/ (Fifo /\ FifoNext)

\* The fairness of each specification.  In the crossings that are not looked at nothing
\* moves, and the registers of two domains are at rest.
CrossingSpec ==
    /\ CrossingInit /\ [][CrossingNext]_CrossingVars
    /\ WF_<<fastRegs, fastCleared>>(L1 /\ (FastEdge \/ \E r \in BOOLEAN : CoincidentL1Edge(r)))
    /\ WF_<<slowRegs, slowCleared>>(L1 /\ (SlowEdge(TRUE) \/ CoincidentL1Edge(TRUE)))
    /\ WF_l1MemVars(L1 /\ LowerL1Reset)
    /\ WF_<<bridgeVars, masterCleared>>
         (Bridge /\ UNCHANGED mode /\ (MasterClock \/ \E w \in BOOLEAN : BothClocks(w)))
    /\ WF_<<bridgeVars, responderVars, responderCleared>>
         (Bridge /\ UNCHANGED mode /\ (ResponderClock(TRUE) \/ BothClocks(TRUE)))
    /\ WF_resetVars(Bridge /\ UNCHANGED mode /\ LowerReset)
    /\ WF_fifoVars(Fifo /\ WriteStale /\ (WriteEdge \/ CoincidentEdge))
    /\ WF_fifoVars(Fifo /\ ReadStale /\ (ReadEdge \/ CoincidentEdge))
=============================================================================
