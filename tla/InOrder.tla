------------------------------ MODULE InOrder ------------------------------
(***************************************************************************)
(* What the Tribe pipeline promises: the instructions of a program take     *)
(* effect one after another, and a trap, an interrupt or a return falls     *)
(* between two of them.  A step stands for one clock edge of the pipeline   *)
(* (tribe_cpu/Tribe.h), on which the oldest instruction may leave and the   *)
(* one after it be turned into a trap.                                      *)
(***************************************************************************)
EXTENDS Naturals

CONSTANTS
    Size,       \* instructions in memory; the address after the last is 0
    Vector      \* where a trap enters

VARIABLES
    code,       \* the operation at each address
    next,       \* the first instruction that has not taken effect
    epc,        \* the instruction the last trap was charged to
    enabled,    \* interrupts are enabled
    effects     \* stores and CSR writes that were performed, modulo 3

orderVars == <<code, next, epc, enabled, effects>>

Word == 0 .. Size - 1
Follow(p) == (p + 1) % Size
\* The direct and the indirect branches of the programs go back one word.
Target(p) == (p + Size - 1) % Size

Effectful == {"store", "csr"}
Excepting == {"trap", "fault"}

Successors(p) ==
    CASE code[p] = "branch" -> {Target(p), Follow(p)}
      [] code[p] = "jump" -> {Target(p)}
      [] code[p] \in Excepting \cup {"xret"} -> {}
      [] OTHER -> {Follow(p)}

EffectsAfter(p) == IF code[p] \in Effectful THEN (effects + 1) % 3 ELSE effects

\* Where execution stands before and after the instruction `next' takes effect.
Before == [at |-> next, effects |-> effects]
After == {[at |-> p, effects |-> EffectsAfter(next)] : p \in Successors(next)}

Reach(s) == next' = s.at /\ effects' = s.effects

Retire ==
    /\ \E s \in After : Reach(s)
    /\ UNCHANGED <<code, epc, enabled>>

Trap(s) ==
    /\ next' = Vector
    /\ effects' = s.effects
    /\ epc' = s.at
    /\ enabled' = FALSE
    /\ UNCHANGED code

Exception == \E s \in After \cup {Before} : code[s.at] \in Excepting /\ Trap(s)

Interrupt == enabled /\ \E s \in After \cup {Before} : Trap(s)

Return ==
    \E s \in After \cup {Before} :
        /\ code[s.at] = "xret"
        /\ next' = epc
        /\ effects' = s.effects
        /\ enabled' = TRUE
        /\ UNCHANGED <<code, epc>>

OrderInit == next = 0 /\ epc = 0 /\ effects = 0

OrderNext == Retire \/ Exception \/ Interrupt \/ Return

OrderSpec == OrderInit /\ [][OrderNext]_orderVars
=============================================================================
