----------------------------- MODULE MCPipeline -----------------------------
(* Programs of three instructions, followed by a handler that returns, in    *)
(* surroundings that disturb it, and some of four.  Not every program: the   *)
(* kinds that are missing are those that the code does not keep in order     *)
(* there (see README).                                                      *)
EXTENDS Pipeline

Quiet == [interrupts |-> FALSE, walks |-> FALSE, snoops |-> FALSE, remote |-> FALSE,
          unmapped |-> {}]
Walking == [Quiet EXCEPT !.walks = TRUE]
Interrupted == [Walking EXCEPT !.interrupts = TRUE]

Programs(ops, third) ==
    {[w \in Word |->
        CASE w = 0 -> a [] w = 1 -> b [] w = 2 -> c [] w = 3 -> "alu" [] w = 4 -> "xret"] :
        a \in ops, b \in ops, c \in third}
All(ops) == Programs(ops, ops)

In(surroundings, programs) == [code : programs, world : {surroundings}]

\* Word 4 is reached by a jump and by xret only, and the handler leaves it alone.
Jumping ==
    {[w \in Word |->
        CASE w = 1 -> b [] w = 2 -> c [] w = 4 -> "alu" [] OTHER -> "jump"] :
        b \in Op, c \in Op}

\* Four instructions with stalls between those that write CSRs, and a return.  Without
\* Apart, ProgramOrder is violated by csr, mul, csr, csr.
Stalling ==
    {program \in [Word -> {"alu", "mul", "load", "csr", "xret"}] :
        \A w \in Word : program[w] = "xret" <=> w = 4}
Apart(program) == \A w \in 0 .. 3 : program[w] = "csr" => program[w + 1] # "csr"

Changing == {"xret", "fencei"}

MCCases ==
    In(Quiet, Programs(Op \ {"fault"}, {"use", "store", "csr", "xret"})
              \cup Programs(Op \ ({"mul"} \cup Changing), {"load", "fault", "csr"}))
    \cup In(Quiet, {program \in Stalling : Apart(program)})
    \cup In(Walking, All(Op \ ({"csr", "mul"} \cup Changing)))
    \cup In(Interrupted, Programs(Op \ {"csr", "fault"}, {"load"}))
    \cup In([Interrupted EXCEPT !.snoops = TRUE],
            Programs(Op \ ({"csr", "trap", "fault"} \cup Changing), {"store"}))
    \cup In([Interrupted EXCEPT !.unmapped = {4}], Jumping)

\* One disagreement each, see README: CSR instructions while translations take long; the
\* programs of Stalling with CSR instructions next to each other; a page that ends
\* behind two instructions.
MCWalkCases == In(Walking, Programs({"alu", "csr"}, {"alu"}))
MCPairCases == In(Quiet, Stalling)
MCDrainCases == In([Quiet EXCEPT !.unmapped = {2}], Programs({"alu", "load"}, {"alu"}))
=============================================================================
