---------------------------- MODULE BoundedFifo -----------------------------
(***************************************************************************)
(* A first-in first-out buffer of Capacity items, filled and drained        *)
(* independently and possibly in the same step: what Fifo2clk and a channel *)
(* of an AXI bridge promise to their two clock domains.                     *)
(***************************************************************************)
EXTENDS Naturals, Sequences

CONSTANTS Item, Capacity, None

VARIABLES
    queue,      \* accepted items that have not been read, oldest first
    got         \* the item most recently read, or None

vars == <<queue, got>>

TypeOK ==
    /\ queue \in Seq(Item) /\ Len(queue) <= Capacity
    /\ got \in Item \cup {None}

Init == queue = <<>> /\ got = None

Put ==
    /\ Len(queue) < Capacity
    /\ \E x \in Item : queue' = Append(queue, x)
    /\ UNCHANGED got

Get ==
    /\ queue # <<>>
    /\ got' = Head(queue)
    /\ queue' = Tail(queue)

PutGet ==
    /\ queue # <<>> /\ Len(queue) < Capacity
    /\ got' = Head(queue)
    /\ \E x \in Item : queue' = Append(Tail(queue), x)

Reset == queue' = <<>> /\ got' = None

Next == Put \/ Get \/ PutGet \/ Reset

Spec == Init /\ [][Next]_vars
=============================================================================
