---------------------------- MODULE SharedMemory ----------------------------
(***************************************************************************)
(* One memory under several ports.  A port asks, the request is performed   *)
(* once, at one moment between its question and its answer, and the answer  *)
(* is what the memory held at that moment.  Reading a place of a device may *)
(* change it, as a claim or a receive register does.                        *)
(***************************************************************************)
EXTENDS FiniteSets

CONSTANTS
    Port, Place, None,
    Device,             \* the places a read changes
    AfterRead(_)        \* what a device holds after a read

VARIABLES
    mem,                \* Place -> value
    pend                \* Port -> None, or the request and its answer once it is performed

vars == <<mem, pend>>

IsRequest(r) == r.reads \subseteq Place /\ DOMAIN r.writes \subseteq Place

Init == pend = [p \in Port |-> None]

Ask(p) ==
    /\ pend[p] = None /\ pend'[p] # None
    /\ IsRequest(pend'[p].request)
    /\ pend' = [pend EXCEPT ![p] = [request |-> pend'[p].request, answer |-> None]]
    /\ UNCHANGED mem

Perform(p) ==
    /\ pend[p] # None /\ pend[p].answer = None
    /\ LET r == pend[p].request IN
        /\ pend' = [pend EXCEPT ![p].answer = [x \in r.reads |-> mem[x]]]
        /\ mem' = [x \in DOMAIN mem |->
                    IF x \in DOMAIN r.writes THEN r.writes[x]
                    ELSE IF x \in r.reads \cap Device THEN AfterRead(mem[x])
                    ELSE mem[x]]

Respond(p) ==
    /\ pend[p] # None /\ pend[p].answer # None
    /\ pend' = [pend EXCEPT ![p] = None]
    /\ UNCHANGED mem

Next == \E p \in Port : Ask(p) \/ Perform(p) \/ Respond(p)

Spec == Init /\ [][Next]_vars
=============================================================================
