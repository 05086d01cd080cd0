----------------------------- MODULE MemChannel -----------------------------
(***************************************************************************)
(* What a level-held L1 memory port promises across a clock boundary, as    *)
(* documented for L1MemFastToSlowCdc: one request is outstanding at a time; *)
(* the memory performs each launched request once; a requester is answered  *)
(* only with the answer to its own request; the answer to a request that    *)
(* was withdrawn is thrown away.                                            *)
(* A path of an AXI bridge promises the same to a master that never         *)
(* withdraws its transaction.                                               *)
(***************************************************************************)
CONSTANTS
    Request,        \* identities of requests
    None            \* no request: none of Request

VARIABLES
    want,           \* the request the requester holds
    owed,           \* the launched request the memory has not performed
    answer          \* the performed request whose answer is outstanding

vars == <<want, owed, answer>>

TypeOK ==
    /\ want \in Request \cup {None}
    /\ owed \in Request \cup {None}
    /\ answer \in Request \cup {None}

Init == want = None /\ owed = None /\ answer = None

\* The requester raises, keeps, or withdraws its request.
Hold ==
    \/ UNCHANGED want
    \/ want = None /\ want' \in Request
    \/ want # None /\ want' = None

Launch ==
    /\ want # None /\ owed = None /\ answer = None
    /\ owed' = want
    /\ UNCHANGED answer

Perform ==
    /\ owed # None
    /\ answer' = owed
    /\ owed' = None

Discard ==
    /\ answer # None /\ answer # want
    /\ answer' = None
    /\ UNCHANGED owed

\* The requester takes its answer and may raise its next request at once.
Deliver ==
    /\ want # None /\ answer = want
    /\ answer' = None
    /\ want' \in (Request \ {want}) \cup {None}
    /\ UNCHANGED owed

Reset == want' = None /\ owed' = None /\ answer' = None

Next ==
    \/ Hold /\ (Launch \/ Perform \/ Discard \/ UNCHANGED <<owed, answer>>)
    \/ Deliver
    \/ Reset

Spec == Init /\ [][Next]_vars
=============================================================================
