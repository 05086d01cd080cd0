------------------------------ MODULE Pipeline ------------------------------
(***************************************************************************)
(* The pipeline of one Tribe core (tribe_cpu/Tribe.h, with the retirement   *)
(* boundary of CSR.h): fetch address, fetch buffer, decode, execute         *)
(* (state_reg[0]) and memory stage (state_reg[1]).  A step is one clock     *)
(* edge.  What the caches, the two MMUs, the multiplier and the interrupt   *)
(* lines show before an edge is an input of the step.                       *)
(*                                                                          *)
(* An instruction is its address and its kind.  There is one register; its  *)
(* value is the address of the instruction that wrote it.                   *)
(***************************************************************************)
EXTENDS Naturals

CONSTANTS
    Size, Vector,   \* as in InOrder
    Cases           \* the programs, each with what surrounds the core, see World

Word == 0 .. Size - 1
Nowhere == Size
Slot == 0 .. Size

Follow(p) == (p + 1) % Size
Target(p) == (p + Size - 1) % Size

Op == {"alu", "use", "mul", "load", "store", "fault", "branch", "jump", "csr",
       "fencei", "trap", "xret"}

World == [interrupts : BOOLEAN,     \* the interrupt controller may ask
          walks : BOOLEAN,          \* translations may take more than an edge
          snoops : BOOLEAN,         \* the data cache may be busy by itself
          remote : BOOLEAN,         \* other harts may ask for a FENCE.I
          unmapped : SUBSET Word]   \* addresses whose fetch faults

ASSUME PipelineAssumption ==
    /\ Size \in Nat \ {0} /\ Vector \in Word
    /\ Cases \subseteq [code : [Word -> Op], world : World]

VARIABLES
    code, world,    \* one of Cases
    pc, valid,      \* pc, valid
    immu,           \* immu_vaddr_reg, Nowhere without immu_result_valid_reg
    buffer,         \* fetch_pc_reg, Nowhere without fetch_buffer_valid_reg
    decode,         \* decode_state_reg
    ex, mem,        \* state_reg[0], state_reg[1], see Execute and Memory
    reg,            \* the register file
    commit,         \* csr_commit_state_reg, csr_commit_fire_reg, csr_commit_serialized_reg
    writing,        \* csr_write_select_reg
    accept,         \* interrupt_accept_reg
    fenced,         \* icache_invalidate_issued_reg
    epc, enabled,   \* mepc and the interrupt enable
    effects,        \* history: stores and CSR writes performed, modulo 3
    writer          \* history: the last writer of the register to leave execute

front == <<pc, valid, immu, buffer, decode>>
back == <<ex, mem, reg, commit, writing, accept, fenced, epc, enabled>>
vars == <<code, world, front, back, effects, writer>>

\* In execute: the operand captured from decode and whether the CSR write was
\* already captured; in the memory stage: translation (dmmu_result_valid_reg,
\* dmmu_fault_reg), load data (load_result_valid_reg, load_retire_ready_reg:
\* "late" is after WritebackMem gave up its token) and the accepted store.
Execute == [at : Slot, operand : Slot, done : BOOLEAN]
Memory == [at : Slot, xlat : {"new", "ok", "bad"},
           data : {"none", "result", "retire", "late"}, done : BOOLEAN]
Bubble == [at |-> Nowhere, operand |-> Nowhere, done |-> FALSE]
NoMemory == [at |-> Nowhere, xlat |-> "new", data |-> "none", done |-> FALSE]

Kind == {"plain", "csr", "fencei", "trap", "xret"}
Record == [at : Slot, kind : Kind]
NoRecord == [at |-> Nowhere, kind |-> "plain"]
Commit == [at : Slot, kind : Kind, fire : BOOLEAN, serialized : BOOLEAN]
NoCommit == [at |-> Nowhere, kind |-> "plain", fire |-> FALSE, serialized |-> FALSE]

\* The registers hold what they are made for, and a record that fires names an
\* instruction: what reaches epc is an address.
TypeOK ==
    /\ code \in [Word -> Op] /\ world \in World
    /\ pc \in Word /\ {valid, writing, accept, fenced, enabled} \subseteq BOOLEAN
    /\ {immu, buffer, decode, reg, writer} \subseteq Slot
    /\ ex \in Execute /\ mem \in Memory /\ commit \in Commit
    /\ commit.fire => commit.at \in Word
    /\ epc \in Word /\ effects \in 0 .. 2

Init ==
    /\ \E case \in Cases : code = case.code /\ world = case.world
    /\ pc = 0 /\ valid = FALSE
    /\ immu = Nowhere /\ buffer = Nowhere /\ decode = Nowhere
    /\ ex = Bubble /\ mem = NoMemory
    /\ reg = Nowhere /\ writer = Nowhere
    /\ commit = NoCommit
    /\ writing = FALSE /\ accept = FALSE /\ fenced = FALSE
    /\ epc = 0 /\ enabled = TRUE
    /\ effects = 0

Doing(p) == IF p = Nowhere THEN "none" ELSE code[p]
Executing == Doing(ex.at)
Accessing == Doing(mem.at)

Writes(op) == op \in {"alu", "mul", "load", "csr", "jump"}
Reads(op) == op \in {"use", "store", "branch"}
Loads(op) == op \in {"load", "fault"}
Accesses(op) == op \in {"load", "fault", "store"}

-----------------------------------------------------------------------------
(* Conditions of the edge, as Tribe.h computes them. *)

Match == valid /\ immu = pc
FetchFault == Match /\ pc \in world.unmapped
DataFault == Accesses(Accessing) /\ mem.xlat = "bad"
FetchValid == valid /\ buffer = pc

\* The inputs that the state can tell apart.
Any(relevant) == IF relevant THEN BOOLEAN ELSE {FALSE}
Walk(relevant) == IF world.walks THEN Any(relevant) ELSE {relevant}
Inputs ==
    [irq : Any(world.interrupts /\ enabled /\ ex.at # Nowhere),
     ihit : Walk(valid /\ ~Match),                       \* ~immu.busy_out
     dhit : Walk(Accesses(Accessing) /\ mem.xlat = "new"),   \* ~dmmu.busy_out
     fetched : Any(Match /\ ~FetchFault /\ buffer # pc),     \* icache.read_valid_out
     data : Any(Accessing = "load" /\ mem.xlat = "ok" /\ mem.data = "none"),
     dwait : Any(Accessing = "store" /\ mem.xlat = "ok"),    \* d_mem_out.wait_out
     slow : Any(Executing = "mul" \/ (Executing = "fencei" /\ fenced)),
     taken : Any(Executing = "branch"),
     busy : Any(world.snoops /\ (Accesses(Accessing) \/ Accesses(Executing))),
     remote : Any(world.remote)]

TransportWait(in) ==
    Accesses(Accessing) /\ ~DataFault /\ (mem.xlat = "new" \/ (in.dwait /\ ~in.busy))

RetireWait(in) ==
    \/ TransportWait(in)
    \/ Loads(Accessing) /\ ~DataFault /\ mem.data \notin {"retire", "late"}

Serializing == commit.at # Nowhere /\ commit.kind # "plain"

\* Mutant of CommitWait: the second edge of a record waits as the first.
CommitWaitAgain == writing \/ Serializing

CommitWait == writing \/ (Serializing /\ ~commit.serialized)

EntryWait(in) == RetireWait(in) \/ Accessing = "store" \/ CommitWait

\* Mutant of Capture: the interrupt does not wait for the access ahead of it.
CaptureEarly(in) ==
    in.irq /\ ~accept /\ Executing \notin {"trap", "xret"} /\ ~CommitWait

Capture(in) ==
    /\ in.irq /\ ~accept
    /\ Executing \notin {"trap", "xret"}
    /\ ~EntryWait(in)

Accept == accept /\ ex.at # Nowhere

ReturnNow(in) == Executing = "xret" /\ ~RetireWait(in) /\ ~CommitWait

TrapNow(in) ==
    /\ ex.at # Nowhere /\ ~CommitWait
    /\ ~RetireWait(in) \/ Accept
    /\ Accept \/ Executing = "trap"

FenceBehindStore == Executing = "fencei" /\ Accessing = "store"

MemoryWait(in) ==
    \/ CommitWait \/ Capture(in)
    \/ valid /\ ~Match /\ ~Accesses(Accessing)
    \/ RetireWait(in)
    \/ Executing = "mul" /\ in.slow
    \/ in.busy /\ (Accesses(Executing) \/ (Accesses(Accessing) /\ ~DataFault))
    \/ Executing = "fencei" /\ (FenceBehindStore \/ ~fenced \/ in.slow)

\* Mutant of Hazard: only a load is waited for.
HazardLoads == decode # Nowhere /\ Loads(Executing) /\ Reads(Doing(decode))

Hazard ==
    /\ decode # Nowhere
    /\ Executing \in {"alu", "mul", "load", "fault", "csr"}
    /\ Reads(Doing(decode))

Taken(in) == Executing = "jump" \/ in.taken

Invalidate(in) ==
    Executing = "fencei" /\ ~RetireWait(in) /\ ~FenceBehindStore /\ ~fenced

-----------------------------------------------------------------------------
(* The retirement record and the CSRs. *)

KindOf(op) == IF op \in {"csr", "fencei", "trap", "xret"} THEN op ELSE "plain"

CsrState(in) ==
    CASE DataFault -> [at |-> mem.at, kind |-> "trap"]
      [] ~DataFault /\ FetchFault /\ ex.at = Nowhere /\ mem.at = Nowhere ->
            [at |-> pc, kind |-> "trap"]
      [] ~DataFault /\ ex.at # Nowhere /\ (RetireWait(in) => Accept \/ FetchFault) ->
            [at |-> ex.at, kind |-> IF Accept THEN "trap" ELSE KindOf(Executing)]
      [] OTHER -> NoRecord

Records(in) ==
    \/ ReturnNow(in) \/ TrapNow(in)
    \/ ~CommitWait /\ ~Serializing /\ (MemoryWait(in) => commit.at = Nowhere)

CsrDone(in) == Records(in) /\ CsrState(in).kind = "csr"
StoreDone(in) ==
    Accessing = "store" /\ mem.xlat = "ok" /\ ~in.dwait /\ ~in.busy /\ ~mem.done

\* Mutant of Captured: the record fires although nothing is there to retire.
CapturedAlways(in) ==
    [at |-> CsrState(in).at, kind |-> CsrState(in).kind, fire |-> TRUE, serialized |-> FALSE]

Captured(in) ==
    [at |-> CsrState(in).at, kind |-> CsrState(in).kind,
     fire |-> CsrState(in).at # Nowhere, serialized |-> FALSE]

CommitEdge(in) ==
    /\ commit' =
         IF Records(in) THEN Captured(in)
         ELSE IF CommitWait THEN [commit EXCEPT !.fire = FALSE, !.serialized = TRUE]
         ELSE IF Serializing THEN NoCommit
         ELSE [commit EXCEPT !.fire = FALSE]
    /\ writing' = (commit.fire /\ commit.kind = "csr")
    /\ epc' = IF commit.fire /\ commit.kind = "trap" THEN commit.at ELSE epc
    /\ enabled' = IF commit.fire /\ commit.kind \in {"trap", "xret"}
                  THEN commit.kind = "xret" ELSE enabled
    /\ effects' = (effects + (IF CsrDone(in) THEN 1 ELSE 0)
                           + (IF StoreDone(in) THEN 1 ELSE 0)) % 3

AcceptEdge(in) == accept' = IF Accept THEN FALSE ELSE accept \/ Capture(in)

-----------------------------------------------------------------------------
(* What every edge does beside moving the instructions. *)

TranslationEdge(in) ==
    immu' = IF ~valid THEN Nowhere ELSE IF in.ihit THEN pc ELSE immu

BufferAfter(in) ==
    IF in.fetched THEN pc
    ELSE IF ~valid \/ buffer # pc THEN Nowhere ELSE buffer

\* register_write_commit: the memory stage writes as long as it holds a result.
WriteBack ==
    reg' = IF Writes(Accessing) /\ (Accessing = "load" => mem.data \in {"retire", "late"})
           THEN mem.at ELSE reg

\* FENCE.I, the core's own or another's, takes what the front end has fetched.
\* It is the last to assign, whatever the edge did to the instructions.
Move(in, newPc, newValid, newDecode, newEx, newMem) ==
    LET any == Invalidate(in) \/ in.remote
        own == any /\ Executing = "fencei"
    IN  /\ pc' = IF own THEN Follow(ex.at) ELSE newPc
        /\ valid' = (newValid /\ ~any)
        /\ decode' = IF any THEN Nowhere ELSE newDecode
        /\ buffer' = IF any THEN Nowhere ELSE BufferAfter(in)
        /\ fenced' = IF any THEN fenced \/ own ELSE fenced /\ Executing = "fencei"
        /\ ex' = newEx
        /\ mem' = newMem

Edge(in) ==
    /\ CommitEdge(in) /\ AcceptEdge(in) /\ TranslationEdge(in) /\ WriteBack
    /\ UNCHANGED <<code, world>>

Flush(in, target) == Move(in, target, FALSE, Nowhere, Bubble, NoMemory) /\ UNCHANGED writer

MemoryHeld(in) ==
    [mem EXCEPT
        !.xlat = IF ~in.dhit THEN @ ELSE IF Accessing = "fault" THEN "bad" ELSE "ok",
        !.data = CASE @ = "none" /\ in.data -> "result"
                   [] @ = "result" -> "retire"
                   [] @ = "retire" -> "late"
                   [] OTHER -> @,
        !.done = @ \/ StoreDone(in)]

LoadReady == Accessing = "load" /\ mem.data \in {"result", "retire"}

ExecuteHeld(in) ==
    [ex EXCEPT !.done = @ \/ CsrDone(in),
               !.operand = IF LoadReady /\ Reads(Executing) THEN mem.at ELSE @]

\* state_reg[1] takes what was in execute.
ExecuteMoved(in) ==
    IF ex.at = Nowhere THEN NoMemory
    ELSE [NoMemory EXCEPT !.at = ex.at, !.done = ex.done \/ CsrDone(in)]

Executed == writer' = IF Writes(Executing) THEN ex.at ELSE writer

\* forward(), over the value of the register file.
Operand ==
    CASE Executing = "jump" -> ex.at
      [] Executing # "jump" /\ (LoadReady \/ (Writes(Accessing) /\ Accessing # "load")) -> mem.at
      [] OTHER -> reg

Decoded ==
    IF decode = Nowhere THEN Bubble
    ELSE [Bubble EXCEPT !.at = decode,
                        !.operand = IF Reads(Doing(decode)) THEN Operand ELSE Nowhere]

-----------------------------------------------------------------------------
(* The cases of _work, in the order of the code. *)

Return(in) ==
    /\ ReturnNow(in)
    /\ Flush(in, epc)
    /\ Edge(in)

Trap(in) ==
    /\ ~ReturnNow(in) /\ TrapNow(in)
    /\ Flush(in, Vector)
    /\ Edge(in)

\* A fetch fault waits until the stages ahead of it have drained.
Drains(in) ==
    FetchFault /\ (ex.at # Nowhere \/ mem.at # Nowhere) /\ ~DataFault /\ ~MemoryWait(in)

Drain(in) ==
    /\ ~ReturnNow(in) /\ ~TrapNow(in) /\ Drains(in)
    /\ Move(in, pc, TRUE, Nowhere, Bubble, ExecuteMoved(in))
    /\ Executed
    /\ Edge(in)

PageFault(in) ==
    /\ ~ReturnNow(in) /\ ~TrapNow(in) /\ ~Drains(in)
    /\ FetchFault \/ DataFault
    /\ Flush(in, Vector)
    /\ Edge(in)

Flows(in) == ~ReturnNow(in) /\ ~TrapNow(in) /\ ~FetchFault /\ ~DataFault

\* FENCE.I keeps its place while the store ahead of it retires alone.
NextMemory(in) ==
    IF FenceBehindStore /\ ~RetireWait(in) THEN NoMemory ELSE MemoryHeld(in)

Hold(in) ==
    /\ Flows(in) /\ MemoryWait(in)
    /\ Move(in, pc, valid, decode, ExecuteHeld(in), NextMemory(in))
    /\ UNCHANGED writer
    /\ Edge(in)

\* A taken branch or a hazard puts a bubble into execute; fetching stops behind
\* an indirect jump until it is in execute.
Fetches(in) == FetchValid /\ ~Hazard /\ ~Taken(in)
Stops(in) == Doing(decode) = "jump" \/ (Fetches(in) /\ code[pc] = "jump")

NextPc(in) ==
    IF Taken(in) THEN Target(ex.at) ELSE IF Fetches(in) THEN Follow(pc) ELSE pc
NextDecode(in) ==
    IF Taken(in) THEN Nowhere
    ELSE IF Hazard THEN decode
    ELSE IF Fetches(in) THEN pc ELSE Nowhere
NextExecute(in) == IF Taken(in) \/ Hazard THEN Bubble ELSE Decoded

Advance(in) ==
    /\ Flows(in) /\ ~MemoryWait(in)
    /\ Move(in, NextPc(in), ~Stops(in), NextDecode(in), NextExecute(in), ExecuteMoved(in))
    /\ Executed
    /\ Edge(in)

Clock(in) ==
    Return(in) \/ Trap(in) \/ Drain(in) \/ PageFault(in) \/ Hold(in) \/ Advance(in)

Next == \E in \in Inputs : Clock(in)

\* The clock runs, and the caches and the MMUs answer.  Nothing outside makes the
\* core wait for ever: an edge on which it need not wait, and is not interrupted, is
\* not missed again and again because of the edges that the CSRs take for themselves.
Answer(input) == \E in \in Inputs : in[input] /\ Clock(in)
Waits(in) == in.dwait \/ in.busy \/ in.slow \/ in.irq
Release == ~CommitWait /\ \E in \in Inputs : ~Waits(in) /\ Clock(in)

Fairness ==
    /\ WF_vars(Next)
    /\ WF_vars(Answer("ihit")) /\ WF_vars(Answer("dhit"))
    /\ WF_vars(Answer("fetched")) /\ WF_vars(Answer("data"))
    /\ SF_vars(Release)

Spec == Init /\ [][Next]_vars /\ Fairness

-----------------------------------------------------------------------------
(* Properties. *)

\* The oldest instruction that has not left the pipeline, the trap that is
\* recorded but not yet in the CSRs, and the effects less those of
\* instructions that are still inside.  An instruction that cannot be fetched is one
\* that traps.
Oldest ==
    IF mem.at # Nowhere THEN mem.at
    ELSE IF ex.at # Nowhere THEN ex.at
    ELSE IF decode # Nowhere THEN decode
    ELSE pc
Recorded(kind) == commit.fire /\ commit.kind = kind
Early == (IF ex.done THEN 1 ELSE 0) + (IF mem.done THEN 1 ELSE 0)

Order == INSTANCE InOrder WITH
    code <- [p \in Word |-> IF p \in world.unmapped THEN "trap" ELSE code[p]],
    next <- Oldest,
    epc <- IF Recorded("trap") THEN commit.at ELSE epc,
    enabled <- IF Recorded("trap") THEN FALSE ELSE IF Recorded("xret") THEN TRUE ELSE enabled,
    effects <- (effects + 3 - Early) % 3

\* Instructions leave in program order, each store and CSR write is performed
\* exactly once, and a trap, an interrupt or a return takes the place of
\* exactly one instruction, which is the one epc names.
ProgramOrder == Order!OrderSpec

\* An operand is the result of the last older writer, wherever it comes from:
\* the memory stage, the load data, or the register file.
OperandsCurrent == Reads(Executing) => ex.operand = writer

\* "A held retirement record is not a second architectural event" (Tribe.h:2095): the
\* write of a CSR instruction that waits in execute after its record was captured is not
\* captured again.  The code does not keep this.
CsrOnce == ex.done => \A in \in Inputs : ~CsrDone(in)

\* "Clear it and let the younger instruction enter on the following cycle"
\* (Tribe.h:2122-2125): no CSR instruction leaves execute on the edge that releases the
\* record ahead of it, without a record of its own.  The code does not keep this.
CsrPerformed == Accessing = "csr" => mem.done

\* "Drain one stage per cycle so loads and JAL/JALR links retire before the fault updates
\* sepc and flushes the pipe" (Tribe.h:2301-2304): a fetch fault is taken with execute
\* empty, and behind a load whose value is written.  The code does not keep this.
FetchFaultDrains ==
    [][FetchFault /\ ~DataFault /\ (\E in \in Inputs : PageFault(in)) =>
         ex.at = Nowhere /\ (Accessing = "load" => mem.data \in {"retire", "late"})]_vars

\* The core does not hang: whatever waits for what, instructions go through
\* execute for ever.
Progress == []<><<ex'.at # ex.at>>_vars
=============================================================================
