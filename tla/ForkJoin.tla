------------------------------ MODULE ForkJoin ------------------------------
(***************************************************************************)
(* What graph_runtime::Threads::run promises to the models that share one   *)
(* pool: a transaction is opened by one caller at a time, every lane        *)
(* 0 .. n-1 of it is evaluated exactly once and no other lane is, and the   *)
(* caller gets its result, or the exception of its continuation, only after *)
(* every lane has finished.                                                 *)
(***************************************************************************)
EXTENDS Naturals

CONSTANTS
    Callers,        \* the host threads that call run
    NoCaller,       \* the value of owner between transactions
    Lanes           \* capacity of the pool, lane 0 being the caller itself

ASSUME LanesAssumption == Lanes \in Nat \ {0}
ASSUME CallerAssumption == NoCaller \notin Callers

Lane == 0 .. Lanes - 1

VARIABLES
    owner,      \* the caller whose transaction is open
    todo,       \* lanes of it that have not started
    busy,       \* lanes of it that are being evaluated
    threw       \* the continuation of it ended with an exception

vars == <<owner, todo, busy, threw>>

TypeOK ==
    /\ owner \in Callers \cup {NoCaller}
    /\ todo \subseteq Lane
    /\ busy \subseteq Lane
    /\ threw \in BOOLEAN

Init ==
    /\ owner = NoCaller
    /\ todo = {}
    /\ busy = {}
    /\ threw = FALSE

Open(c, n) ==
    /\ owner = NoCaller
    /\ owner' = c
    /\ todo' = 0 .. n - 1
    /\ busy' = {}
    /\ threw' = FALSE

Start(l) ==
    /\ l \in todo
    /\ todo' = todo \ {l}
    /\ busy' = busy \cup {l}
    /\ UNCHANGED <<owner, threw>>

Finish(l) ==
    /\ l \in busy
    /\ busy' = busy \ {l}
    /\ UNCHANGED <<owner, todo, threw>>

\* The continuation runs on the caller, after its own lane and beside the others.
Throw ==
    /\ owner # NoCaller
    /\ 0 \notin todo \cup busy
    /\ threw' = TRUE
    /\ UNCHANGED <<owner, todo, busy>>

Close ==
    /\ owner # NoCaller
    /\ todo = {} /\ busy = {}
    /\ owner' = NoCaller
    /\ threw' = FALSE
    /\ UNCHANGED <<todo, busy>>

Progress ==
    \/ \E l \in Lane : Start(l) \/ Finish(l)
    \/ Close

Next ==
    \/ \E c \in Callers, n \in 1 .. Lanes : Open(c, n)
    \/ Throw
    \/ Progress

Spec == Init /\ [][Next]_vars /\ WF_vars(Progress)
=============================================================================
