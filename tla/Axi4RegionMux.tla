--------------------------- MODULE Axi4RegionMux ----------------------------
(***************************************************************************)
(* The region multiplexer in front of the devices (tribe_cpu/common/        *)
(* Axi4RegionMux.h), as operators on the registers of one of its paths: the *)
(* target is decoded from the address that is accepted, and the path stays  *)
(* with it to the end of the response.                                      *)
(***************************************************************************)
EXTENDS Integers, FiniteSetsExt

CONSTANT Regions    \* the window of each target, a sequence

\* An address outside of all windows is left to the first target unchanged.
ASSUME RegionAssumption ==
    /\ DOMAIN Regions # {} /\ Regions[1].base = 0
    /\ \A t \in DOMAIN Regions : Regions[t].base \in Nat /\ Regions[t].size \in Nat

Target == DOMAIN Regions

\* aw_next_comb, ar_next_comb: of windows that overlap the last one has the address.
Decode(address) ==
    LET hits == {t \in Target : address - Regions[t].base \in 0 .. Regions[t].size - 1}
    IN IF hits = {} THEN 1 ELSE Max(hits)

\* aw_local_addr_comb, ar_local_addr_comb, and the address it stands for
Local(target, address) == address - Regions[target].base
Global(target, local) == local + Regions[target].base

\* <path>_active_reg and <path>_sel_reg
MuxCleared == [active |-> FALSE, sel |-> 1]

\* awvalid_in, arvalid_in of a target
OffersTo(mux, address, target) == ~mux.active /\ Decode(address) = target

\* Mutant of RoutedTo: data is passed on before its address.
RoutedToEarly(mux, target) == mux.sel = target

\* wvalid_in, bready_in, rready_in of a target, and the way back from it
RoutedTo(mux, target) == mux.active /\ mux.sel = target

\* An edge, on which the address may be accepted and the response may end.
MuxEdge(mux, address, accepted, ended) ==
    IF ~mux.active /\ accepted THEN [active |-> TRUE, sel |-> Decode(address)]
    ELSE IF mux.active /\ ended THEN [mux EXCEPT !.active = FALSE]
    ELSE mux
=============================================================================
