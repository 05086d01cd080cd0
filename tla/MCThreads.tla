----------------------------- MODULE MCThreads ------------------------------
(* Two callers sharing a pool of a caller lane and two workers, with slots   *)
(* of one bit so that every counter wraps at each second transaction.        *)
EXTENDS Threads

CONSTANTS a, b, none

MCCallers == {a, b}
MCNoCaller == none
=============================================================================
