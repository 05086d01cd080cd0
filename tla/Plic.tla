-------------------------------- MODULE Plic --------------------------------
(***************************************************************************)
(* The interrupt controller of the SoC (tribe_cpu/devices/PLIC.h) and the   *)
(* harts that claim and complete interrupts over its bus.                   *)
(*                                                                         *)
(* An action is one clock edge.  The bits of a register are a set; a read   *)
(* other than a claim changes nothing but the bus and is left out.          *)
(***************************************************************************)
EXTENDS Integers

CONSTANTS
    Sources,        \* number of sources
    Hart,           \* the contexts
    MaxPriority, MaxThreshold,      \* they are written from 0 up to these
    Parallel,       \* the bus may carry a read and a write at once
    None            \* nothing on a channel

ASSUME PlicAssumption ==
    /\ {Sources, MaxPriority, MaxThreshold} \subseteq Nat
    /\ Parallel \in BOOLEAN
    /\ None \notin Hart

Source == 1..Sources
Priority == 0..MaxPriority
Threshold == 0..MaxThreshold

\* Register writes, with the hart that issues them.
Setup ==
    [register : {"priority"}, hart : Hart, source : Source, value : Priority]
      \cup [register : {"enable"}, hart : Hart, value : SUBSET Source]
      \cup [register : {"threshold"}, hart : Hart, value : Threshold]
Completion == [register : {"complete"}, hart : Hart, source : Source]
Write == Setup \cup Completion

VARIABLES
    source_irq,         \* source_irq_in: the sources whose level is high
    pending, gateway_busy,      \* pending_reg, gateway_busy_reg
    priority, enable, threshold,
    reader,             \* read_valid_reg, and whose claim it answers
    write,              \* write_addr_valid_reg, and the write on its way
    answered,           \* write_resp_valid_reg
    serving             \* history: what each hart has claimed and not completed

gateways == <<pending, gateway_busy>>
setup == <<priority, enable, threshold>>
bus == <<reader, write, answered>>
vars == <<source_irq, gateways, setup, bus, serving>>

TypeOK ==
    /\ {source_irq, pending, gateway_busy} \subseteq SUBSET Source
    /\ priority \in [Source -> Priority]
    /\ enable \in [Hart -> SUBSET Source]
    /\ threshold \in [Hart -> Threshold]
    /\ reader \in Hart \cup {None}
    /\ write \in Write \cup {None}
    /\ answered \in BOOLEAN
    /\ serving \in [Hart -> SUBSET Source]

\* Every register is cleared by reset.
Cleared ==
    /\ pending' = {} /\ gateway_busy' = {}
    /\ priority' = [s \in Source |-> 0]
    /\ enable' = [h \in Hart |-> {}]
    /\ threshold' = [h \in Hart |-> 0]
    /\ reader' = None /\ write' = None /\ answered' = FALSE

Init ==
    /\ source_irq \in SUBSET Source
    /\ pending = {} /\ gateway_busy = {}
    /\ priority = [s \in Source |-> 0]
    /\ enable = [h \in Hart |-> {}]
    /\ threshold = [h \in Hart |-> 0]
    /\ reader = None /\ write = None /\ answered = FALSE
    /\ serving = [h \in Hart |-> {}]

-----------------------------------------------------------------------------
(* The controller. *)

Claimable(h) == {s \in pending \cap enable[h] : priority[s] > threshold[h]}

\* claim_for_context: the lowest claimable source, as a set of at most one.
Claim(h) == {s \in Claimable(h) : \A t \in Claimable(h) : s <= t}

\* Mutant of Claimed: a claim that finds nothing is marked as source 0.
ClaimedZero(ar) ==
    IF ar = None THEN {} ELSE IF Claim(ar) = {} THEN {0} ELSE Claim(ar)

\* The sources claimed by the read that is accepted on this edge.
Claimed(ar) == IF ar = None THEN {} ELSE Claim(ar)

\* The sources completed by the data beat that is accepted on this edge.
Completed(w) == IF w /\ write.register = "complete" THEN {write.source} ELSE {}

\* Mutant of Pend: only the current levels are pending.
PendLevels(claimed, completed) ==
    pending' = ((source_irq \ completed) \ gateway_busy) \ claimed

\* Mutant of Pend: a level is latched again while its source is served.
PendServed(claimed, completed) ==
    pending' = (pending \cup (source_irq \ completed)) \ claimed

Pend(claimed, completed) ==
    pending' = (pending \cup ((source_irq \ completed) \ gateway_busy)) \ claimed

\* Mutant of Occupy: a completion does not release its gateway.
OccupyForEver(claimed, completed) ==
    gateway_busy' = gateway_busy \cup claimed

\* The assignment of a completion comes after that of a claim and is built from
\* the same old value.
Occupy(claimed, completed) ==
    gateway_busy' = IF completed # {} THEN gateway_busy \ completed
                    ELSE gateway_busy \cup claimed

Configure(w) ==
    /\ priority' = IF w /\ write.register = "priority"
                   THEN [priority EXCEPT ![write.source] = write.value] ELSE priority
    /\ enable' = IF w /\ write.register = "enable"
                 THEN [enable EXCEPT ![write.hart] = write.value] ELSE enable
    /\ threshold' = IF w /\ write.register = "threshold"
                    THEN [threshold EXCEPT ![write.hart] = write.value] ELSE threshold

-----------------------------------------------------------------------------
(* The bus and the harts.  An uncached access of the L2 ends before it      *)
(* starts another; it takes a response when it comes.                       *)

\* A claim by `ar', or none.
ReadChannel(ar) ==
    /\ ar # None => /\ reader = None
                    /\ Parallel \/ (write = None /\ ~answered)
                    /\ write # None => write.hart # ar
    /\ reader' = ar

\* An address beat for the write `aw', or a data beat, or neither.
WriteChannel(aw, w) ==
    /\ aw # None => /\ write = None /\ ~answered
                    /\ Parallel \/ reader = None
                    /\ reader # aw.hart
                    /\ aw.register = "complete" => aw.source \in serving[aw.hart]
    /\ w => write # None
    /\ write' = IF w THEN None ELSE IF aw # None THEN aw ELSE write
    /\ answered' = w

Serve(ar, w) ==
    serving' = [h \in Hart |->
                  (serving[h] \ (IF w /\ write.hart = h THEN Completed(w) ELSE {}))
                     \cup IF h = ar THEN Claim(h) ELSE {}]

\* An edge on which the read `ar' and the address and data beats `aw' and `w'
\* are accepted.
Edge(ar, aw, w) ==
    /\ ar # None /\ aw # None => Parallel /\ ar # aw.hart
    /\ ReadChannel(ar) /\ WriteChannel(aw, w)
    /\ Pend(Claimed(ar), Completed(w)) /\ Occupy(Claimed(ar), Completed(w))
    /\ Configure(w) /\ Serve(ar, w)
    /\ source_irq' \in SUBSET Source

Reset ==
    /\ Cleared
    /\ serving' = [h \in Hart |-> {}]
    /\ source_irq' \in SUBSET Source

Next ==
    \/ \E ar \in Hart \cup {None}, aw \in Write \cup {None}, w \in BOOLEAN : Edge(ar, aw, w)
    \/ Reset

(***************************************************************************)
(* The clock runs, a write that is begun is ended, and a hart completes     *)
(* what it has claimed, as the handlers of the repository do.               *)
(***************************************************************************)
Complete(h, s) == Edge(None, [register |-> "complete", hart |-> h, source |-> s], FALSE)

Fairness ==
    /\ WF_vars(\E ar \in Hart \cup {None}, aw \in Write \cup {None}, w \in BOOLEAN : Edge(ar, aw, w))
    /\ WF_vars(\E ar \in Hart \cup {None} : Edge(ar, None, TRUE))
    /\ \A h \in Hart, s \in Source : SF_vars(Complete(h, s))

Spec == Init /\ [][Next]_vars /\ Fairness

-----------------------------------------------------------------------------
(* Properties. *)

\* "blocks repeats until claim completion": a source that a hart serves is
\* neither pending nor served by another hart.
ServedOnce ==
    \A h \in Hart : \A s \in serving[h] :
        /\ s \notin pending
        /\ \A k \in Hart \ {h} : s \notin serving[k]

\* A request that is latched, though its level drop, stays until a hart that
\* enabled it takes it.
RequestKept ==
    [][\A s \in pending \ pending' :
         Reset \/ \E h \in Hart : s \in serving'[h] \ serving[h] /\ s \in enable[h]]_vars

\* A level that stays high is pending again after each completion.
PendsAgain == \A s \in Source : s \in source_irq ~> s \in pending \/ s \notin source_irq
=============================================================================
