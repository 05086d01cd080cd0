--------------------------- MODULE PipelineProofs ---------------------------
(***************************************************************************)
(* Proofs about Pipeline for any memory, programs and surroundings.          *)
(***************************************************************************)
EXTENDS Pipeline, TLAPS

\* Facts about addresses.
LEMMA Slots ==
    /\ Nowhere \in Slot /\ Nowhere \notin Word /\ 0 \in Word
    /\ \A p \in Slot : p # Nowhere <=> p \in Word
    /\ \A p \in Word : p \in Slot
BY PipelineAssumption DEF Nowhere, Slot, Word

\* The program wraps around.
LEMMA Neighbours == \A p \in Word : Follow(p) \in Word /\ Target(p) \in Word
<1>1. \A n \in Nat : n % Size \in 0 .. Size - 1
    BY PipelineAssumption
<1>2. \A p \in Word : p + 1 \in Nat /\ p + Size - 1 \in Nat
    BY PipelineAssumption DEF Word
<1> QED
    BY <1>1, <1>2 DEF Follow, Target, Word

\* A register that names an instruction names an address.
LEMMA Busy ==
    /\ \A p \in Slot : Doing(p) # "none" => p \in Word
    /\ Doing(Nowhere) = "none"
BY Slots DEF Doing

\* The parts of an input that a proof needs: a redirect has a branch
\* behind it, an interrupt an instruction.
LEMMA InputFacts ==
    ASSUME NEW in \in Inputs
    PROVE  /\ in.taken => Executing = "branch"
           /\ in.irq => ex.at # Nowhere
           /\ {in.ihit, in.fetched, in.remote, in.irq, in.dhit} \subseteq BOOLEAN
BY DEF Inputs, Any, Walk

-----------------------------------------------------------------------------
(* Type correctness. *)

\* What reaches the CSRs is a record of an instruction in the pipeline.
LEMMA RecordType ==
    ASSUME TypeOK, NEW in \in Inputs
    PROVE  CsrState(in) \in Record
<1>1. \A op : KindOf(op) \in Kind
    BY DEF KindOf, Kind
<1>2. pc \in Slot /\ ex.at \in Slot /\ mem.at \in Slot
    BY Slots DEF TypeOK, Execute, Memory
<1> QED
    BY <1>1, <1>2, Slots DEF CsrState, Record, Kind, NoRecord

\* The registers beside those that instructions move through.
LEMMA EdgeType ==
    ASSUME TypeOK, NEW in \in Inputs, Edge(in)
    PROVE  /\ code' = code /\ world' = world
           /\ {writing, accept, enabled}' \subseteq BOOLEAN
           /\ {immu, reg}' \subseteq Slot
           /\ commit' \in Commit /\ (commit'.fire => commit'.at \in Word)
           /\ epc' \in Word /\ effects' \in 0 .. 2
<1> DEFINE r == CsrState(in)
<1>1. r \in Record
    BY RecordType
<1>2. commit' \in Commit /\ (commit'.fire => commit'.at \in Word)
  <2> HIDE DEF r
  <2>1. Captured(in) = [at |-> r.at, kind |-> r.kind, fire |-> r.at # Nowhere,
                        serialized |-> FALSE]
      BY DEF Captured, r
  <2>2. Captured(in) \in Commit /\ (Captured(in).fire => Captured(in).at \in Word)
    <3>1. r.at \in Slot /\ r.kind \in Kind
        BY <1>1 DEF Record
    <3>2. (r.at # Nowhere) => r.at \in Word
        BY <3>1, Slots
    <3> DEFINE fire == r.at # Nowhere
    <3>3. fire \in BOOLEAN /\ (fire => r.at \in Word)
        BY <3>2
    <3>4. Captured(in) = [at |-> r.at, kind |-> r.kind, fire |-> fire, serialized |-> FALSE]
        BY <2>1
    <3> HIDE DEF fire
    <3> QED
        BY <3>1, <3>3, <3>4 DEF Commit
  <2>3. NoCommit \in Commit /\ ~NoCommit.fire
      BY Slots DEF NoCommit, Commit, Kind
  <2>4. /\ [commit EXCEPT !.fire = FALSE, !.serialized = TRUE] \in Commit
        /\ [commit EXCEPT !.fire = FALSE] \in Commit
        /\ ~[commit EXCEPT !.fire = FALSE, !.serialized = TRUE].fire
        /\ ~[commit EXCEPT !.fire = FALSE].fire
      BY DEF TypeOK, Commit
  <2> QED
      BY <2>2, <2>3, <2>4 DEF Edge, CommitEdge
<1>3. writing' \in BOOLEAN /\ epc' \in Word /\ enabled' \in BOOLEAN
    BY DEF Edge, CommitEdge, TypeOK, Commit
<1>4. effects' \in 0 .. 2
  <2> DEFINE n == effects + (IF CsrDone(in) THEN 1 ELSE 0) + (IF StoreDone(in) THEN 1 ELSE 0)
  <2>1. n \in Nat
      BY DEF TypeOK
  <2>2. effects' = n % 3
      BY DEF Edge, CommitEdge
  <2> HIDE DEF n
  <2> QED
      BY <2>1, <2>2
<1>5. accept' \in BOOLEAN
    BY DEF Edge, AcceptEdge, TypeOK
<1>6. immu' \in Slot /\ reg' \in Slot
    BY Slots DEF Edge, TranslationEdge, WriteBack, TypeOK, Memory
<1> QED
    BY <1>2, <1>3, <1>4, <1>5, <1>6 DEF Edge

\* The registers that instructions move through.
LEMMA MoveType ==
    ASSUME TypeOK, NEW in \in Inputs,
           NEW newPc \in Word, NEW newValid \in BOOLEAN, NEW newDecode \in Slot,
           NEW newEx \in Execute, NEW newMem \in Memory,
           Move(in, newPc, newValid, newDecode, newEx, newMem)
    PROVE  /\ pc' \in Word /\ {valid, fenced}' \subseteq BOOLEAN
           /\ {buffer, decode}' \subseteq Slot
           /\ ex' \in Execute /\ mem' \in Memory
<1>1. Executing = "fencei" => ex.at \in Word
    BY Busy DEF Executing, TypeOK, Execute
<1>2. pc' \in Word
    BY <1>1, Neighbours DEF Move
<1>3. BufferAfter(in) \in Slot
    BY Slots DEF BufferAfter, TypeOK
<1>4. {buffer, decode}' \subseteq Slot
    BY <1>3, Slots DEF Move
<1>5. {valid, fenced}' \subseteq BOOLEAN
    BY DEF Move, TypeOK
<1> QED
    BY <1>2, <1>4, <1>5 DEF Move

\* What enters execute and the memory stage.
LEMMA StageType ==
    ASSUME TypeOK, NEW in \in Inputs
    PROVE  /\ Bubble \in Execute /\ NoMemory \in Memory
           /\ Decoded \in Execute /\ ExecuteHeld(in) \in Execute
           /\ ExecuteMoved(in) \in Memory /\ NextMemory(in) \in Memory
<1>1. Bubble \in Execute /\ NoMemory \in Memory
    BY Slots DEF Bubble, NoMemory, Execute, Memory
<1>2. Operand \in Slot /\ ex.at \in Slot /\ mem.at \in Slot
    BY DEF Operand, TypeOK, Execute, Memory
<1>3. Decoded \in Execute
    BY <1>1, <1>2, Slots DEF Decoded, TypeOK, Execute, Bubble
<1>4. ExecuteHeld(in) \in Execute
    BY <1>2 DEF ExecuteHeld, TypeOK, Execute
<1>5. ExecuteMoved(in) \in Memory
    BY <1>1, <1>2 DEF ExecuteMoved, TypeOK, Execute, Memory, NoMemory
<1>6. MemoryHeld(in) \in Memory
    BY DEF MemoryHeld, TypeOK, Memory
<1>7. NextMemory(in) \in Memory
    BY <1>1, <1>6 DEF NextMemory
<1> QED
    BY <1>1, <1>3, <1>4, <1>5, <1>7

\* A flush leaves bubbles behind.
LEMMA FlushType ==
    ASSUME TypeOK, NEW in \in Inputs, NEW target \in Word, Flush(in, target)
    PROVE  /\ pc' \in Word /\ {valid, fenced}' \subseteq BOOLEAN
           /\ {buffer, decode, writer}' \subseteq Slot
           /\ ex' \in Execute /\ mem' \in Memory
<1>1. Move(in, target, FALSE, Nowhere, Bubble, NoMemory) /\ writer' = writer
    BY DEF Flush
<1>2. writer' \in Slot
    BY <1>1 DEF TypeOK
<1> QED
    BY <1>1, <1>2, MoveType, StageType, Slots

\* What the edge on which the stages advance chooses.
LEMMA AdvanceType ==
    ASSUME TypeOK, NEW in \in Inputs
    PROVE  /\ NextPc(in) \in Word /\ NextDecode(in) \in Slot
           /\ NextExecute(in) \in Execute
<1>1. Taken(in) => ex.at \in Word
    BY InputFacts, Busy DEF Taken, Executing, TypeOK, Execute
<1>2. NextPc(in) \in Word
    BY <1>1, Neighbours DEF NextPc, TypeOK
<1>3. NextDecode(in) \in Slot
    BY Slots DEF NextDecode, TypeOK
<1>4. NextExecute(in) \in Execute
    BY StageType DEF NextExecute
<1> QED
    BY <1>2, <1>3, <1>4

\* Every case of _work keeps the types.
LEMMA ClockType ==
    ASSUME TypeOK, NEW in \in Inputs, Clock(in)
    PROVE  TypeOK'
<1> DEFINE Moved ==
        /\ pc' \in Word /\ {valid, fenced}' \subseteq BOOLEAN
        /\ {buffer, decode, writer}' \subseteq Slot
        /\ ex' \in Execute /\ mem' \in Memory
<1>1. epc \in Word /\ Vector \in Word /\ pc \in Word /\ decode \in Slot /\ valid \in BOOLEAN
    BY PipelineAssumption DEF TypeOK
<1>2. Executed => writer' \in Slot
    BY DEF Executed, TypeOK, Execute
<1>3. UNCHANGED writer => writer' \in Slot
    BY DEF TypeOK
<1>4. ASSUME Return(in) PROVE Moved
    BY <1>1, <1>4, FlushType DEF Return
<1>5. ASSUME Trap(in) PROVE Moved
    BY <1>1, <1>5, FlushType DEF Trap
<1>6. ASSUME Drain(in) PROVE Moved
    BY <1>1, <1>2, <1>6, MoveType, StageType, Slots DEF Drain
<1>7. ASSUME PageFault(in) PROVE Moved
    BY <1>1, <1>7, FlushType DEF PageFault
<1>8. ASSUME Hold(in) PROVE Moved
    BY <1>1, <1>3, <1>8, MoveType, StageType DEF Hold
<1>9. ASSUME Advance(in) PROVE Moved
  <2>1. (~Stops(in)) \in BOOLEAN
      BY DEF Stops
  <2> QED
      BY <1>2, <1>9, <2>1, MoveType, StageType, AdvanceType DEF Advance
<1>10. Edge(in)
    BY DEF Clock, Return, Trap, Drain, PageFault, Hold, Advance
<1>11. Moved
  <2> HIDE DEF Moved
  <2> QED
      BY <1>4, <1>5, <1>6, <1>7, <1>8, <1>9 DEF Clock
<1> QED
    BY <1>10, <1>11, EdgeType DEF TypeOK

LEMMA InitType == Init => TypeOK
<1> SUFFICES ASSUME Init PROVE TypeOK
    OBVIOUS
<1>1. code \in [Word -> Op] /\ world \in World
    BY PipelineAssumption DEF Init
<1>4. 0 \in Word /\ Nowhere \in Slot
    BY Slots
<1>2. Bubble \in Execute /\ NoMemory \in Memory
    BY Slots DEF Bubble, NoMemory, Execute, Memory
<1>3. NoCommit \in Commit /\ ~NoCommit.fire
    BY Slots DEF NoCommit, Commit, Kind
<1>5. commit \in Commit /\ (commit.fire => commit.at \in Word)
    BY <1>3 DEF Init
<1>6. {valid, writing, accept, fenced, enabled} \subseteq BOOLEAN
    BY DEF Init
<1>7. /\ {immu, buffer, decode, reg, writer} \subseteq Slot
      /\ pc \in Word /\ epc \in Word /\ ex \in Execute /\ mem \in Memory
    BY <1>2, <1>4 DEF Init
<1>8. effects \in 0 .. 2
    BY DEF Init
<1> QED
    BY <1>1, <1>5, <1>6, <1>7, <1>8 DEF TypeOK

\* The stage registers, the record and the CSRs keep their types, and a record that
\* fires names an instruction, on every edge of any program.
THEOREM TypeCorrect == Spec => []TypeOK
<1>1. TypeOK /\ [Next]_vars => TypeOK'
  <2> SUFFICES ASSUME TypeOK, [Next]_vars PROVE TypeOK'
      OBVIOUS
  <2>1. CASE Next
      BY <2>1, ClockType DEF Next
  <2>2. CASE UNCHANGED vars
      BY <2>2 DEF vars, front, back, TypeOK
  <2> QED
      BY <2>1, <2>2
<1> QED
    BY <1>1, InitType, PTL DEF Spec

-----------------------------------------------------------------------------
(* The stages in program order, and the bypass. *)

\* Where a fetch faults, no instruction is ahead of it that could be lost: the word
\* is reached by a redirect, and no other hart takes away what was fetched.
Redirecting(program, around) ==
    around.unmapped # {} =>
        /\ ~around.remote
        /\ \A p \in Word : Follow(p) \in around.unmapped => program[p] = "jump"

Fetchable == \A case \in Cases : Redirecting(case.code, case.world)

\* The load in the memory stage, if any, has its data.
Settled == Accessing = "load" => mem.data \in {"retire", "late"}

\* The oldest instruction in front of execute, and the oldest behind the memory stage.
Front == IF decode # Nowhere THEN decode ELSE pc
Younger == IF ex.at # Nowhere THEN ex.at ELSE Front

\* Where execution may continue behind an instruction that is neither trapped nor
\* returns.
Behind(p) ==
    IF code[p] = "branch" THEN {Target(p), Follow(p)}
    ELSE IF code[p] = "jump" THEN {Target(p)}
    ELSE {Follow(p)}

\* The instructions in the stages are one after another in the program.  What is
\* behind a jump is not known before the jump leaves execute, and nothing is fetched.
ChainInv ==
    /\ mem.at # Nowhere => Younger \in Behind(mem.at)
    /\ ex.at # Nowhere /\ Executing # "jump" => Front = Follow(ex.at)
    /\ decode # Nowhere /\ Doing(decode) # "jump" => pc = Follow(decode)
    /\ Executing = "jump" => decode = Nowhere /\ ~valid
    /\ Doing(decode) = "jump" => ~valid
    /\ Accessing \notin {"trap", "xret"}

\* No instruction in a stage is unmapped, and the fetch of an unmapped word waits for
\* the jump ahead of it.
FetchInv ==
    /\ \A p \in {buffer, decode, ex.at, mem.at} : p \notin world.unmapped
    /\ pc \in world.unmapped =>
        \/ decode = Nowhere /\ ex.at = Nowhere
        \/ ~valid /\ (Doing(decode) = "jump" \/ Executing = "jump")

\* The last writer is in the memory stage or in the register file; a load that has
\* given up its token is in both.
ValueInv ==
    /\ Writes(Accessing) => writer = mem.at
    /\ ~Writes(Accessing) \/ (Accessing = "load" /\ mem.data = "late") => reg = writer

Inv ==
    /\ TypeOK
    /\ Redirecting(code, world)
    /\ mem.xlat = "bad" => Accessing = "fault"
    /\ ~world.remote => ChainInv
    /\ FetchInv
    /\ accept => Settled
    /\ ValueInv
    /\ OperandsCurrent

\* What may fault, and what is in the stages then.
LEMMA FaultSeen ==
    ASSUME Inv
    PROVE  /\ DataFault => Accessing = "fault"
           /\ FetchFault => /\ ~world.remote /\ decode = Nowhere /\ ex.at = Nowhere
                            /\ Executing = "none"
                            /\ Accessing \in {"none", "branch", "jump"}
<1>1. DataFault => Accessing = "fault"
    BY DEF Inv, DataFault
<1>2. SUFFICES ASSUME FetchFault
               PROVE  /\ ~world.remote /\ decode = Nowhere /\ ex.at = Nowhere
                      /\ Executing = "none" /\ Accessing \in {"none", "branch", "jump"}
    BY <1>1
<1>3. pc \in world.unmapped /\ valid
    BY <1>2 DEF FetchFault, Match
<1>4. /\ ~world.remote /\ ChainInv
      /\ \A p \in Word : Follow(p) \in world.unmapped => code[p] = "jump"
    BY <1>3 DEF Inv, Redirecting
<1>5. decode = Nowhere /\ ex.at = Nowhere
    BY <1>3 DEF Inv, FetchInv
<1>6. Executing = "none"
    BY <1>5, Busy DEF Executing
<1>7. CASE mem.at = Nowhere
    BY <1>4, <1>5, <1>6, <1>7, Busy DEF Accessing
<1>8. CASE mem.at # Nowhere
  <2>1. mem.at \in Word /\ Accessing = code[mem.at]
      BY <1>8, Slots DEF Accessing, Doing, Inv, TypeOK, Memory
  <2>2. pc \in Behind(mem.at)
      BY <1>4, <1>5, <1>8 DEF ChainInv, Younger, Front
  <2>3. code[mem.at] \in {"branch", "jump"}
      BY <1>3, <1>4, <2>1, <2>2 DEF Behind
  <2> QED
      BY <1>4, <1>5, <1>6, <2>1, <2>3
<1> QED
    BY <1>7, <1>8

\* Without a wait for the retirement the load has its data.
LEMMA RetiredSettled ==
    ASSUME Inv, NEW in \in Inputs, ~RetireWait(in) PROVE Settled
BY FaultSeen DEF RetireWait, Settled, Loads

\* Once the load has its data, this edge brings the register file up to date.
LEMMA WrittenBack ==
    ASSUME ValueInv, Settled, WriteBack PROVE reg' = writer
BY DEF ValueInv, Settled, WriteBack, Writes

\* An accepted interrupt is taken or withdrawn on the next edge; another is
\* accepted only where the instruction waits for it.
LEMMA AcceptOnce ==
    ASSUME NEW in, AcceptEdge(in), ~Capture(in)
    PROVE  accept' => accept /\ ex.at = Nowhere
BY DEF AcceptEdge, Accept

\* What the fetch buffer takes is mapped.
LEMMA BufferMapped ==
    ASSUME Inv, NEW in \in Inputs PROVE BufferAfter(in) \notin world.unmapped
<1>1. Nowhere \notin world.unmapped
    BY Slots DEF Inv, TypeOK, World
<1>2. in.fetched => pc \notin world.unmapped
    BY DEF Inputs, Any, FetchFault
<1> QED
    BY <1>1, <1>2 DEF BufferAfter, Inv, FetchInv

\* What a step keeps beside the types.
Kept ==
    /\ mem.xlat = "bad" => Accessing = "fault"
    /\ ~world.remote => ChainInv
    /\ FetchInv
    /\ accept => Settled
    /\ ValueInv
    /\ OperandsCurrent

\* Empty stages have nothing to keep.
LEMMA Emptied ==
    ASSUME Inv, NEW in \in Inputs, world' = world, WriteBack, Settled, writer' = writer,
           ex' = Bubble, mem' = NoMemory, decode' = Nowhere,
           buffer' \in {Nowhere, BufferAfter(in)}
    PROVE  Kept'
<1>1. ex'.at = Nowhere /\ mem'.at = Nowhere /\ mem'.xlat # "bad"
    BY DEF Bubble, NoMemory
<1>2. Executing' = "none" /\ Accessing' = "none" /\ Doing(decode)' = "none"
    BY <1>1 DEF Executing, Accessing, Doing
<1>3. ChainInv'
    BY <1>1, <1>2 DEF ChainInv
<1>4. FetchInv'
  <2>1. Nowhere \notin world.unmapped
      BY Slots DEF Inv, TypeOK, World
  <2> QED
      BY <1>1, <2>1, BufferMapped DEF FetchInv
<1>5. Settled' /\ ValueInv' /\ OperandsCurrent'
    BY <1>2, WrittenBack DEF Settled, ValueInv, OperandsCurrent, Writes, Reads, Inv
<1> QED
    BY <1>1, <1>3, <1>4, <1>5 DEF Kept

\* A flush leaves empty stages.
LEMMA FlushKept ==
    ASSUME Inv, NEW in \in Inputs, NEW target, Flush(in, target), Edge(in), Settled
    PROVE  Kept'
<1>1. /\ ex' = Bubble /\ mem' = NoMemory /\ decode' = Nowhere /\ writer' = writer
      /\ buffer' \in {Nowhere, BufferAfter(in)}
    BY DEF Flush, Move
<1>2. world' = world /\ WriteBack
    BY DEF Edge
<1> QED
    BY <1>1, <1>2, Emptied

\* A fetch that faults drains what is ahead of it.
LEMMA DrainKept ==
    ASSUME Inv, NEW in \in Inputs, Drain(in)
    PROVE  Kept'
<1>1. FetchFault /\ Edge(in) /\ Executed
    BY DEF Drain, Drains
<1>2. /\ ex.at = Nowhere /\ Executing = "none"
      /\ Accessing \in {"none", "branch", "jump"}
    BY <1>1, FaultSeen
<1>3. Move(in, pc, TRUE, Nowhere, Bubble, NoMemory)
    BY <1>2 DEF Drain, ExecuteMoved
<1>4. /\ ex' = Bubble /\ mem' = NoMemory /\ decode' = Nowhere
      /\ buffer' \in {Nowhere, BufferAfter(in)}
    BY <1>3 DEF Move
<1>5. writer' = writer /\ Settled
    BY <1>1, <1>2 DEF Executed, Writes, Settled
<1> QED
    BY <1>1, <1>4, <1>5, Emptied DEF Edge

-----------------------------------------------------------------------------
(* A held pipeline. *)

\* Without another hart's request only a FENCE.I in execute takes what was fetched.
LEMMA NoRequest ==
    ASSUME NEW in \in Inputs, ~world.remote PROVE ~in.remote
BY DEF Inputs, Any

\* What an edge on which the stages hold does to them.
LEMMA HoldStages ==
    ASSUME Inv, ~world.remote, NEW in \in Inputs, Hold(in)
    PROVE  /\ code' = code /\ world' = world
           /\ ex'.at = ex.at /\ Executing' = Executing
           /\ ex'.done = (ex.done \/ CsrDone(in))
           /\ \/ mem' = MemoryHeld(in) /\ mem'.at = mem.at /\ Accessing' = Accessing
                    /\ mem'.done = (mem.done \/ StoreDone(in))
              \/ /\ mem' = NoMemory /\ Accessing' = "none"
                 /\ Accessing = "store" /\ Executing = "fencei" /\ ~RetireWait(in)
           /\ \/ ~Invalidate(in) /\ pc' = pc /\ valid' = valid /\ decode' = decode
                    /\ fenced' = (fenced /\ Executing = "fencei")
              \/ /\ Invalidate(in) /\ Executing = "fencei" /\ ex.at # Nowhere
                 /\ pc' = Follow(ex.at) /\ ~valid' /\ decode' = Nowhere /\ fenced'
<1>1. /\ Move(in, pc, valid, decode, ExecuteHeld(in), NextMemory(in))
      /\ code' = code /\ world' = world
    BY DEF Hold, Edge
<1>2. ex \in Execute /\ mem \in Memory /\ valid \in BOOLEAN /\ fenced \in BOOLEAN
    BY DEF Inv, TypeOK
<1>3. ex'.at = ex.at /\ ex'.done = (ex.done \/ CsrDone(in))
    BY <1>1, <1>2 DEF Move, ExecuteHeld, Execute
<1>4. Executing' = Executing
    BY <1>1, <1>3 DEF Executing, Doing
<1>5. \/ mem' = MemoryHeld(in) /\ mem'.at = mem.at /\ Accessing' = Accessing
            /\ mem'.done = (mem.done \/ StoreDone(in))
      \/ /\ mem' = NoMemory /\ Accessing' = "none"
         /\ Accessing = "store" /\ Executing = "fencei" /\ ~RetireWait(in)
  <2>1. CASE FenceBehindStore /\ ~RetireWait(in)
    <3>1. mem' = NoMemory
        BY <1>1, <2>1 DEF Move, NextMemory
    <3> QED
        BY <2>1, <3>1 DEF FenceBehindStore, NoMemory, Accessing, Doing
  <2>2. CASE ~(FenceBehindStore /\ ~RetireWait(in))
    <3>1. mem' = MemoryHeld(in)
        BY <1>1, <2>2 DEF Move, NextMemory
    <3>2. mem'.at = mem.at /\ mem'.done = (mem.done \/ StoreDone(in))
        BY <1>2, <3>1 DEF MemoryHeld, Memory
    <3> QED
        BY <1>1, <3>1, <3>2 DEF Accessing, Doing
  <2> QED
      BY <2>1, <2>2
<1>6. ~in.remote
    BY NoRequest
<1>7. CASE Invalidate(in)
  <2>1. Executing = "fencei" /\ ex.at # Nowhere
      BY <1>7, Busy DEF Invalidate, Executing
  <2> QED
      BY <1>1, <1>3, <1>4, <1>5, <1>7, <2>1 DEF Move
<1>8. CASE ~Invalidate(in)
    BY <1>1, <1>2, <1>3, <1>4, <1>5, <1>6, <1>8 DEF Move
<1> QED
    BY <1>7, <1>8

\* The stages stay in sequence, and FENCE.I continues behind itself.
LEMMA HoldChain ==
    ASSUME Inv, ~world.remote, NEW in \in Inputs, Hold(in)
    PROVE  ChainInv' /\ FetchInv'
<1>1. ChainInv /\ FetchInv
    BY DEF Inv
<1>2. /\ code' = code /\ world' = world /\ ex'.at = ex.at /\ Executing' = Executing
      /\ Accessing' \in {Accessing, "none"}
      /\ mem'.at = mem.at \/ mem'.at = Nowhere
    BY HoldStages DEF NoMemory
<1>3. buffer' \notin world.unmapped /\ Nowhere \notin world.unmapped
    BY BufferMapped, Slots DEF Hold, Move, Inv, TypeOK, World
<1>4. CASE ~Invalidate(in)
  <2>1. pc' = pc /\ valid' = valid /\ decode' = decode
      BY <1>4, HoldStages
  <2>2. Front' = Front /\ Doing(decode)' = Doing(decode)
      BY <1>2, <2>1 DEF Front, Doing
  <2>3. Younger' = Younger
      BY <1>2, <2>2 DEF Younger
  <2>4. ChainInv'
      BY <1>1, <1>2, <2>1, <2>2, <2>3 DEF ChainInv, Behind
  <2>5. FetchInv'
      BY <1>1, <1>2, <1>3, <2>1, <2>2 DEF FetchInv
  <2> QED
      BY <2>4, <2>5
<1>5. CASE Invalidate(in)
  <2>1. /\ Executing = "fencei" /\ ex.at # Nowhere
        /\ pc' = Follow(ex.at) /\ ~valid' /\ decode' = Nowhere
      BY <1>5, HoldStages
  <2>2. Front' = Follow(ex.at) /\ Doing(decode)' = "none"
      BY <2>1 DEF Front, Doing
  <2>3. Younger' = ex.at /\ Younger = ex.at
      BY <1>2, <2>1 DEF Younger
  <2>4. ChainInv'
      BY <1>1, <1>2, <2>1, <2>2, <2>3 DEF ChainInv, Behind
  <2>5. Follow(ex.at) \notin world.unmapped
    <3>1. ex.at \in Word /\ code[ex.at] = "fencei"
        BY <2>1, Slots DEF Executing, Doing, Inv, TypeOK, Execute
    <3> QED
        BY <3>1 DEF Inv, Redirecting
  <2>6. FetchInv'
      BY <1>1, <1>2, <1>3, <2>1, <2>5 DEF FetchInv
  <2> QED
      BY <2>4, <2>6
<1> QED
    BY <1>4, <1>5

\* The data of the load come, and go to who reads them.
LEMMA HoldValue ==
    ASSUME Inv, NEW in \in Inputs, Hold(in)
    PROVE  /\ mem'.xlat = "bad" => Accessing' = "fault"
           /\ accept' => Settled'
           /\ ValueInv' /\ OperandsCurrent'
<1>1. /\ ex' = ExecuteHeld(in) /\ mem' = NextMemory(in)
      /\ writer' = writer /\ code' = code
      /\ WriteBack /\ AcceptEdge(in) /\ ~DataFault
    BY DEF Hold, Move, Edge, Flows
<1>2. ex \in Execute /\ mem \in Memory
    BY DEF Inv, TypeOK
<1>3. ex'.at = ex.at /\ Executing' = Executing
    BY <1>1, <1>2 DEF ExecuteHeld, Execute, Executing, Doing
<1>4. OperandsCurrent'
  <2>1. ex'.operand \in {ex.operand, mem.at} /\ (ex'.operand # ex.operand => LoadReady)
      BY <1>1, <1>2 DEF ExecuteHeld, Execute
  <2>2. LoadReady => mem.at = writer
      BY DEF LoadReady, Inv, ValueInv, Writes
  <2> QED
      BY <1>1, <1>3, <2>1, <2>2 DEF OperandsCurrent, Inv
<1>5. accept' => Settled
  <2>1. CASE Capture(in)
      BY <2>1, RetiredSettled DEF Capture, EntryWait
  <2>2. CASE ~Capture(in)
      BY <1>1, <2>2, AcceptOnce DEF Inv
  <2> QED
      BY <2>1, <2>2
<1>6. CASE FenceBehindStore /\ ~RetireWait(in)
  <2>1. mem' = NoMemory
      BY <1>1, <1>6 DEF NextMemory
  <2>2. Accessing' = "none" /\ mem'.xlat = "new"
      BY <2>1 DEF Accessing, Doing, NoMemory
  <2>3. reg' = writer
      BY <1>1, <1>6 DEF FenceBehindStore, Writes, WriteBack, Inv, ValueInv
  <2> QED
      BY <1>1, <1>4, <2>2, <2>3 DEF ValueInv, Settled, Writes
<1>7. CASE ~(FenceBehindStore /\ ~RetireWait(in))
  <2>1. mem' = MemoryHeld(in)
      BY <1>1, <1>7 DEF NextMemory
  <2>2. /\ mem'.at = mem.at
        /\ mem'.xlat \in {mem.xlat, "ok"} \/ Accessing = "fault"
        /\ mem'.data = "late" => mem.data \in {"retire", "late"}
        /\ mem.data \in {"retire", "late"} => mem'.data = "late"
      BY <1>2, <2>1 DEF MemoryHeld, Memory
  <2>3. Accessing' = Accessing
      BY <1>1, <2>2 DEF Accessing, Doing
  <2>4. ValueInv'
    <3>1. CASE ~Writes(Accessing)
        BY <1>1, <2>3, <3>1 DEF WriteBack, Inv, ValueInv, Writes
    <3>2. CASE Writes(Accessing)
        BY <1>1, <2>2, <2>3, <3>2 DEF WriteBack, Inv, ValueInv
    <3> QED
        BY <3>1, <3>2
  <2>5. accept' => Settled'
      BY <1>5, <2>2, <2>3 DEF Settled
  <2>6. mem'.xlat = "bad" => Accessing' = "fault"
      BY <2>2, <2>3 DEF Inv
  <2> QED
      BY <1>4, <2>4, <2>5, <2>6
<1> QED
    BY <1>6, <1>7

-----------------------------------------------------------------------------
(* An advancing pipeline. *)

\* What an edge on which the stages advance does to them.
LEMMA AdvanceStages ==
    ASSUME Inv, ~world.remote, NEW in \in Inputs, Advance(in)
    PROVE  /\ code' = code /\ world' = world /\ Edge(in)
           /\ ~CommitWait /\ ~RetireWait(in) /\ ~Capture(in) /\ ~ReturnNow(in) /\ ~TrapNow(in)
           /\ ~FetchFault /\ ~DataFault
           /\ ~Accept /\ Executing \notin {"trap", "xret"}
           /\ Executing = "fencei" => fenced
           /\ pc' = NextPc(in) /\ valid' = (~Stops(in)) /\ decode' = NextDecode(in)
           /\ fenced' = (fenced /\ Executing = "fencei")
           /\ ex' = NextExecute(in) /\ mem'.at = ex.at /\ Accessing' = Executing
           /\ mem'.data = "none"
           /\ ex.at # Nowhere => mem'.done = (ex.done \/ CsrDone(in))
           /\ ex.at = Nowhere => ~mem'.done
<1>1. /\ Move(in, NextPc(in), ~Stops(in), NextDecode(in), NextExecute(in), ExecuteMoved(in))
      /\ code' = code /\ world' = world /\ Edge(in)
      /\ ~MemoryWait(in) /\ ~ReturnNow(in) /\ ~TrapNow(in)
      /\ ~FetchFault /\ ~DataFault
    BY DEF Advance, Edge, Flows
<1>2. ~CommitWait /\ ~RetireWait(in) /\ ~Capture(in) /\ (Executing = "fencei" => fenced)
    BY <1>1 DEF MemoryWait
<1>3. ~Invalidate(in) /\ ~in.remote
    BY <1>2, NoRequest DEF Invalidate
<1>4. ~Accept /\ Executing \notin {"trap", "xret"}
  <2>1. Executing # "none" => ex.at # Nowhere
      BY Busy DEF Executing
  <2> QED
      BY <1>1, <1>2, <2>1 DEF ReturnNow, TrapNow, Accept
<1>5. ex \in Execute
    BY DEF Inv, TypeOK
<1>6. /\ mem'.at = ex.at /\ mem'.data = "none"
      /\ ex.at # Nowhere => mem'.done = (ex.done \/ CsrDone(in))
      /\ ex.at = Nowhere => ~mem'.done
    BY <1>1, <1>5 DEF Move, ExecuteMoved, NoMemory, Execute
<1>7. Accessing' = Executing
    BY <1>1, <1>6 DEF Accessing, Executing, Doing
<1>8. /\ pc' = NextPc(in) /\ valid' = (~Stops(in)) /\ decode' = NextDecode(in)
      /\ fenced' = (fenced /\ Executing = "fencei") /\ ex' = NextExecute(in)
    BY <1>1, <1>3 DEF Move
<1> QED
    BY <1>1, <1>2, <1>4, <1>6, <1>7, <1>8

\* Without a redirect the instructions in front of execute stay in sequence: the
\* oldest of them goes into execute or stays where it is.
LEMMA InSequence ==
    ASSUME Inv, ~world.remote, NEW in \in Inputs, Advance(in), ~Taken(in)
    PROVE  Younger' = Front
<1>1. pc' = NextPc(in) /\ decode' = NextDecode(in) /\ ex' = NextExecute(in)
    BY AdvanceStages
<1>2. CASE Hazard
  <2>1. ex'.at = Nowhere /\ decode' = decode /\ decode # Nowhere
      BY <1>1, <1>2 DEF NextExecute, NextDecode, Bubble, Hazard
  <2> QED
      BY <2>1 DEF Younger, Front
<1>3. CASE ~Hazard
  <2>1. ex' = Decoded
      BY <1>1, <1>3 DEF NextExecute
  <2>2. CASE decode # Nowhere
      BY <2>1, <2>2 DEF Decoded, Bubble, Younger, Front
  <2>3. CASE decode = Nowhere
    <3>1. ex'.at = Nowhere
        BY <2>1, <2>3 DEF Decoded, Bubble
    <3>2. CASE Fetches(in)
      <4>1. decode' = pc /\ pc # Nowhere
          BY <1>1, <1>3, <3>2, Slots DEF NextDecode, Inv, TypeOK
      <4> QED
          BY <2>3, <3>1, <4>1 DEF Younger, Front
    <3>3. CASE ~Fetches(in)
      <4>1. decode' = Nowhere /\ pc' = pc
          BY <1>1, <1>3, <3>3 DEF NextDecode, NextPc
      <4> QED
          BY <2>3, <3>1, <4>1 DEF Younger, Front
    <3> QED
        BY <3>2, <3>3
  <2> QED
      BY <2>2, <2>3
<1> QED
    BY <1>2, <1>3

\* A redirect leaves nothing behind the instruction that redirects.
LEMMA Redirected ==
    ASSUME Inv, ~world.remote, NEW in \in Inputs, Advance(in), Taken(in)
    PROVE  /\ Executing \in {"branch", "jump"} /\ ex.at # Nowhere
           /\ ex'.at = Nowhere /\ decode' = Nowhere /\ pc' = Target(ex.at)
           /\ Younger' = Target(ex.at)
<1>1. Executing \in {"branch", "jump"}
    BY InputFacts DEF Taken
<1>2. ex.at # Nowhere
    BY <1>1, Busy DEF Executing
<1>3. ex'.at = Nowhere /\ decode' = Nowhere /\ pc' = Target(ex.at)
    BY AdvanceStages DEF NextExecute, NextDecode, NextPc, Bubble
<1> QED
    BY <1>1, <1>2, <1>3 DEF Younger, Front

\* What moves into the memory stage has its successor behind it.
LEMMA MovedChain ==
    ASSUME Inv, ~world.remote, NEW in \in Inputs, Advance(in), ex.at # Nowhere
    PROVE  Younger' \in Behind(ex.at)
<1>1. Executing = code[ex.at]
    BY DEF Executing, Doing
<1>2. CASE Taken(in)
    BY <1>1, <1>2, Redirected DEF Behind
<1>3. CASE ~Taken(in)
  <2>1. Younger' = Front /\ Executing # "jump"
      BY <1>3, InSequence DEF Taken
  <2>2. Front = Follow(ex.at)
      BY <2>1 DEF Inv, ChainInv
  <2> QED
      BY <1>1, <2>1, <2>2 DEF Behind
<1> QED
    BY <1>2, <1>3

\* What enters execute and decode.
LEMMA Entering ==
    ASSUME Inv, ~world.remote, NEW in \in Inputs, Advance(in)
    PROVE  /\ ex'.at # Nowhere =>
                ~Taken(in) /\ ~Hazard /\ ex'.at = decode /\ decode # Nowhere
                    /\ Executing' = Doing(decode)
           /\ decode' # Nowhere =>
                /\ ~Taken(in)
                /\ \/ Hazard /\ decode' = decode /\ pc' = pc
                   \/ ~Hazard /\ Fetches(in) /\ decode' = pc /\ pc' = Follow(pc)
<1>1. /\ pc' = NextPc(in) /\ decode' = NextDecode(in) /\ ex' = NextExecute(in)
      /\ code' = code
    BY AdvanceStages
<1>2. ASSUME ex'.at # Nowhere
      PROVE  ~Taken(in) /\ ~Hazard /\ ex'.at = decode /\ decode # Nowhere
                /\ Executing' = Doing(decode)
  <2>1. ~Taken(in) /\ ~Hazard
      BY <1>1, <1>2 DEF NextExecute, Bubble
  <2>2. ex' = Decoded
      BY <1>1, <2>1 DEF NextExecute
  <2>3. ex'.at = decode /\ decode # Nowhere
      BY <1>2, <2>2 DEF Decoded, Bubble
  <2>4. Executing' = Doing(decode)
      BY <1>1, <2>3 DEF Executing, Doing
  <2> QED
      BY <2>1, <2>3, <2>4
<1>3. ASSUME decode' # Nowhere
      PROVE  /\ ~Taken(in)
             /\ \/ Hazard /\ decode' = decode /\ pc' = pc
                \/ ~Hazard /\ Fetches(in) /\ decode' = pc /\ pc' = Follow(pc)
  <2>1. ~Taken(in)
      BY <1>1, <1>3 DEF NextDecode
  <2>2. CASE Hazard
      BY <1>1, <2>1, <2>2 DEF NextDecode, NextPc, Fetches
  <2>3. CASE ~Hazard
      BY <1>1, <1>3, <2>1, <2>3 DEF NextDecode, NextPc
  <2> QED
      BY <2>1, <2>2, <2>3
<1> QED
    BY <1>2, <1>3

\* The instructions in the stages stay in sequence.
LEMMA AdvanceChain ==
    ASSUME Inv, ~world.remote, NEW in \in Inputs, Advance(in)
    PROVE  ChainInv'
<1>1. ChainInv
    BY DEF Inv
<1>2. /\ pc' = NextPc(in) /\ valid' = (~Stops(in)) /\ decode' = NextDecode(in)
      /\ ex' = NextExecute(in) /\ mem'.at = ex.at /\ Accessing' = Executing
      /\ Executing \notin {"trap", "xret"} /\ code' = code
    BY AdvanceStages
<1>3. mem'.at # Nowhere => Younger' \in Behind(mem.at)'
  <2>1. \A p : Behind(p)' = Behind(p)
      BY <1>2 DEF Behind
  <2> QED
      BY <1>2, <2>1, MovedChain
<1>4. Executing' # "none" => ex'.at # Nowhere
    BY DEF Executing, Doing
<1>5. ASSUME ex'.at # Nowhere, Executing' # "jump" PROVE Front' = Follow(ex'.at)
  <2>1. ~Taken(in) /\ ~Hazard /\ ex'.at = decode /\ decode # Nowhere /\ Doing(decode) # "jump"
      BY <1>5, Entering
  <2>2. pc = Follow(decode)
      BY <1>1, <2>1 DEF ChainInv
  <2>3. Front' = pc
    <3>1. CASE Fetches(in)
        BY <1>2, <2>1, <3>1, Slots DEF NextDecode, Front, Inv, TypeOK
    <3>2. CASE ~Fetches(in)
        BY <1>2, <2>1, <3>2 DEF NextDecode, NextPc, Front
    <3> QED
        BY <3>1, <3>2
  <2> QED
      BY <2>1, <2>2, <2>3
<1>6. ASSUME decode' # Nowhere PROVE Doing(decode)' # "jump" => pc' = Follow(decode')
  <2>1. CASE Hazard /\ decode' = decode /\ pc' = pc
      BY <1>1, <1>2, <1>6, <2>1 DEF ChainInv, Doing
  <2>2. CASE decode' = pc /\ pc' = Follow(pc)
      BY <2>2
  <2> QED
      BY <1>6, <2>1, <2>2, Entering
<1>7. ASSUME Executing' = "jump" PROVE decode' = Nowhere /\ ~valid'
  <2>1. ~Taken(in) /\ ~Hazard /\ Doing(decode) = "jump"
      BY <1>4, <1>7, Entering
  <2>2. ~valid
      BY <1>1, <2>1 DEF ChainInv
  <2>3. ~Fetches(in)
      BY <2>2 DEF Fetches, FetchValid
  <2> QED
      BY <1>2, <2>1, <2>3 DEF NextDecode, Stops
<1>8. ASSUME Doing(decode)' = "jump" PROVE ~valid'
  <2>1. decode' # Nowhere
      BY <1>8 DEF Doing
  <2>2. CASE Hazard /\ decode' = decode
    <3>1. Doing(decode) = "jump"
        BY <1>2, <1>8, <2>2 DEF Doing
    <3> QED
        BY <1>2, <3>1 DEF Stops
  <2>3. CASE Fetches(in) /\ decode' = pc
    <3>1. code[pc] = "jump"
        BY <1>2, <1>8, <2>1, <2>3 DEF Doing
    <3> QED
        BY <1>2, <2>3, <3>1 DEF Stops
  <2> QED
      BY <2>1, <2>2, <2>3, Entering
<1> QED
    BY <1>2, <1>3, <1>5, <1>6, <1>7, <1>8 DEF ChainInv

\* What is fetched is mapped, and behind a jump nothing is fetched.
LEMMA AdvanceFetch ==
    ASSUME Inv, ~world.remote, NEW in \in Inputs, Advance(in)
    PROVE  FetchInv'
<1>1. /\ pc' = NextPc(in) /\ valid' = (~Stops(in)) /\ decode' = NextDecode(in)
      /\ ex' = NextExecute(in) /\ mem'.at = ex.at /\ code' = code /\ world' = world
    BY AdvanceStages
<1>2. buffer' \notin world.unmapped /\ Nowhere \notin world.unmapped
    BY BufferMapped, Slots DEF Advance, Move, Inv, TypeOK, World
<1>3. Fetches(in) => pc = buffer
    BY DEF Fetches, FetchValid
<1>4. \A p \in {buffer, decode, ex.at, mem.at} : p \notin world.unmapped
    BY DEF Inv, FetchInv
<1>5. decode' \notin world.unmapped /\ ex'.at \notin world.unmapped
    BY <1>2, <1>3, <1>4, Entering
<1>6. SUFFICES ASSUME pc' \in world.unmapped
               PROVE  \/ decode' = Nowhere /\ ex'.at = Nowhere
                      \/ ~valid' /\ (Doing(decode)' = "jump" \/ Executing' = "jump")
    BY <1>1, <1>2, <1>4, <1>5 DEF FetchInv
<1>7. CASE Taken(in)
    BY <1>7, Redirected
<1>8. CASE ~Taken(in) /\ Fetches(in)
  <2>1. pc' = Follow(pc) /\ decode' = pc
      BY <1>1, <1>8 DEF NextPc, NextDecode, Fetches
  <2>2. code[pc] = "jump"
      BY <1>6, <2>1 DEF Inv, Redirecting, TypeOK
  <2>3. Doing(decode)' = "jump"
      BY <1>1, <2>1, <2>2, Slots DEF Doing, Inv, TypeOK
  <2> QED
      BY <1>1, <1>8, <2>2, <2>3 DEF Stops
<1>9. CASE ~Taken(in) /\ ~Fetches(in)
  <2>1. pc' = pc
      BY <1>1, <1>9 DEF NextPc
  <2>2. CASE decode = Nowhere /\ ex.at = Nowhere
    <3>1. ~Hazard
        BY <2>2 DEF Hazard
    <3>2. decode' = Nowhere
        BY <1>1, <1>9, <3>1 DEF NextDecode
    <3>3. ex'.at = Nowhere
        BY <2>2, Entering
    <3> QED
        BY <3>2, <3>3
  <2>3. CASE ~valid /\ (Doing(decode) = "jump" \/ Executing = "jump")
    <3>1. Doing(decode) = "jump"
        BY <1>9, <2>3 DEF Taken
    <3>2. ~valid' /\ ~Hazard /\ decode # Nowhere
        BY <1>1, <3>1 DEF Stops, Hazard, Reads, Doing
    <3>3. ex'.at = decode
        BY <1>1, <1>9, <3>2 DEF NextExecute, Decoded, Bubble
    <3>4. Executing' = "jump"
        BY <3>1, <3>2, <3>3, Entering
    <3> QED
        BY <3>2, <3>4
  <2> QED
      BY <1>6, <2>1, <2>2, <2>3 DEF Inv, FetchInv
<1> QED
    BY <1>7, <1>8, <1>9

\* An advancing pipeline takes each operand from its last writer.
LEMMA AdvanceValue ==
    ASSUME Inv, NEW in \in Inputs, Advance(in)
    PROVE  mem'.xlat # "bad" /\ (accept' => Settled') /\ ValueInv' /\ OperandsCurrent'
<1>1. /\ ex' = NextExecute(in) /\ mem' = ExecuteMoved(in)
      /\ writer' = IF Writes(Executing) THEN ex.at ELSE writer
      /\ code' = code /\ WriteBack /\ AcceptEdge(in)
    BY DEF Advance, Move, Edge, Executed
<1>2. ex \in Execute /\ mem \in Memory /\ decode \in Slot
    BY DEF Inv, TypeOK
<1>3. ~RetireWait(in) /\ ~Capture(in)
    BY DEF Advance, MemoryWait
<1>4. Settled /\ (accept' => ex.at = Nowhere)
    BY <1>1, <1>3, RetiredSettled, AcceptOnce
<1>5. reg' = writer
    BY <1>1, <1>4, WrittenBack DEF Inv
<1>6. mem'.at = ex.at /\ mem'.xlat = "new" /\ mem'.data = "none"
    BY <1>1, <1>2 DEF ExecuteMoved, NoMemory, Execute
<1>7. Accessing' = Executing
    BY <1>1, <1>6 DEF Accessing, Executing, Doing
<1>8. ValueInv'
    BY <1>1, <1>5, <1>6, <1>7 DEF ValueInv
<1>9. OperandsCurrent'
  <2>1. SUFFICES ASSUME Reads(Executing)' PROVE ex'.operand = writer'
      BY DEF OperandsCurrent
  <2>2. ex' = Decoded /\ ~Hazard
      BY <1>1, <2>1 DEF NextExecute, Bubble, Executing, Doing, Reads
  <2>3. decode # Nowhere /\ ex'.at = decode
      BY <2>1, <2>2 DEF Decoded, Bubble, Executing, Doing, Reads
  <2>4. Reads(Doing(decode))
      BY <1>1, <2>1, <2>3 DEF Executing, Doing, Reads
  <2>5. ex'.operand = Operand
      BY <2>2, <2>3, <2>4 DEF Decoded, Bubble
  <2>6. Executing \notin {"alu", "mul", "load", "fault", "csr"}
      BY <2>2, <2>3, <2>4 DEF Hazard
  <2>7. CASE Executing = "jump"
      BY <1>1, <2>5, <2>7 DEF Operand, Writes
  <2>8. CASE Executing # "jump"
    <3>1. writer' = writer
        BY <1>1, <2>6, <2>8 DEF Writes
    <3>2. CASE LoadReady \/ (Writes(Accessing) /\ Accessing # "load")
      <4>1. Operand = mem.at
          BY <2>8, <3>2 DEF Operand
      <4>2. Writes(Accessing)
          BY <3>2 DEF LoadReady, Writes
      <4> QED
          BY <2>5, <3>1, <4>1, <4>2 DEF Inv, ValueInv
    <3>3. CASE ~(LoadReady \/ (Writes(Accessing) /\ Accessing # "load"))
      <4>1. Operand = reg
          BY <2>8, <3>3 DEF Operand
      <4>2. ~Writes(Accessing) \/ (Accessing = "load" /\ mem.data = "late")
          BY <1>4, <3>3 DEF LoadReady, Settled
      <4> QED
          BY <2>5, <3>1, <4>1, <4>2 DEF Inv, ValueInv
    <3> QED
        BY <3>2, <3>3
  <2> QED
      BY <2>7, <2>8
<1>10. accept' => Settled'
    BY <1>4, <1>7, Busy DEF Settled, Executing
<1> QED
    BY <1>6, <1>8, <1>9, <1>10

-----------------------------------------------------------------------------
(* The invariant. *)

\* Every edge keeps the invariant.
LEMMA ClockInv ==
    ASSUME Inv, NEW in \in Inputs, Clock(in)
    PROVE  Inv'
<1>1. TypeOK' /\ code' = code /\ world' = world
    BY ClockType, EdgeType
       DEF Inv, Clock, Return, Trap, Drain, PageFault, Hold, Advance
<1>2. Redirecting(code, world)'
    BY <1>1 DEF Inv, Redirecting
<1>3. world.remote => FetchInv'
  <2>1. world.remote => world.unmapped = {}
      BY DEF Inv, Redirecting
  <2> QED
      BY <1>1, <2>1 DEF FetchInv
<1>4. SUFFICES Kept'
    BY <1>1, <1>2 DEF Inv, Kept
<1>5. CASE Return(in)
    BY <1>5, FlushKept, RetiredSettled DEF Return, ReturnNow
<1>6. CASE Trap(in)
  <2>1. Settled
      BY <1>6, RetiredSettled DEF Trap, TrapNow, Accept, Inv
  <2> QED
      BY <1>6, <2>1, FlushKept DEF Trap
<1>7. CASE Drain(in)
    BY <1>7, DrainKept
<1>8. CASE PageFault(in)
  <2>1. Settled
      BY <1>8, FaultSeen DEF PageFault, Settled
  <2> QED
      BY <1>8, <2>1, FlushKept DEF PageFault
<1>9. CASE Hold(in)
    BY <1>1, <1>3, <1>9, HoldChain, HoldValue DEF Kept
<1>10. CASE Advance(in)
    BY <1>1, <1>3, <1>10, AdvanceChain, AdvanceFetch, AdvanceValue DEF Kept
<1> QED
    BY <1>5, <1>6, <1>7, <1>8, <1>9, <1>10 DEF Clock

\* The invariant holds where a fetch that faults has nothing ahead of it to lose.
LEMMA InvariantHolds == ASSUME Fetchable PROVE Spec => []Inv
<1>1. Init => Inv
  <2> SUFFICES ASSUME Init PROVE Inv
      OBVIOUS
  <2>1. TypeOK
      BY InitType
  <2>2. Redirecting(code, world)
    <3>1. PICK case \in Cases : code = case.code /\ world = case.world
        BY DEF Init
    <3> QED
        BY <3>1 DEF Fetchable
  <2>3. /\ ex.at = Nowhere /\ mem.at = Nowhere /\ mem.xlat = "new" /\ decode = Nowhere
        /\ buffer = Nowhere /\ reg = writer /\ ~accept
      BY DEF Init, Bubble, NoMemory
  <2>4. Executing = "none" /\ Accessing = "none" /\ Doing(decode) = "none"
      BY <2>3 DEF Executing, Accessing, Doing
  <2>5. Nowhere \notin world.unmapped
      BY <2>1, Slots DEF TypeOK, World
  <2>6. ChainInv /\ FetchInv
      BY <2>3, <2>4, <2>5 DEF ChainInv, FetchInv
  <2>7. ValueInv /\ OperandsCurrent
      BY <2>3, <2>4 DEF ValueInv, OperandsCurrent, Writes, Reads
  <2> QED
      BY <2>1, <2>2, <2>3, <2>6, <2>7 DEF Inv
<1>2. Inv /\ [Next]_vars => Inv'
  <2> SUFFICES ASSUME Inv, [Next]_vars PROVE Inv'
      OBVIOUS
  <2>1. CASE Next
      BY <2>1, ClockInv DEF Next
  <2>2. CASE UNCHANGED vars
    <3>1. /\ UNCHANGED <<code, world, pc, valid, immu, buffer, decode, ex, mem, reg, commit>>
          /\ UNCHANGED <<writing, accept, fenced, epc, enabled, effects, writer>>
        BY <2>2 DEF vars, front, back
    <3>2. TypeOK' /\ Redirecting(code, world)'
        BY <3>1 DEF Inv, TypeOK, Redirecting
    <3>3. /\ Executing' = Executing /\ Accessing' = Accessing /\ Younger' = Younger
          /\ Front' = Front /\ Doing(decode)' = Doing(decode)
        BY <3>1 DEF Executing, Accessing, Younger, Front, Doing
    <3>4. ChainInv => ChainInv'
        BY <3>1, <3>3 DEF ChainInv, Behind
    <3>5. FetchInv'
        BY <3>1, <3>3 DEF Inv, FetchInv
    <3>6. ValueInv' /\ OperandsCurrent' /\ (accept' => Settled')
        BY <3>1, <3>3 DEF Inv, ValueInv, OperandsCurrent, Settled
    <3> QED
        BY <3>1, <3>2, <3>3, <3>4, <3>5, <3>6 DEF Inv
  <2> QED
      BY <2>1, <2>2
<1> QED
    BY <1>1, <1>2, PTL DEF Spec

\* An operand is the result of its last older writer on every edge of any program,
\* however long caches, MMUs and multiplier take, whatever data access faults and
\* whenever interrupts come; also with requests of other harts, where no fetch faults, and
\* with fetches that fault behind a jump.
THEOREM OperandsCurrentHolds ==
    ASSUME Fetchable PROVE Spec => []OperandsCurrent
<1>1. Inv => OperandsCurrent
    BY DEF Inv
<1> QED
    BY <1>1, InvariantHolds, PTL

-----------------------------------------------------------------------------
(* Program order, in the surroundings in which the code keeps it. *)

\* Programs and surroundings without a FENCE.I of another hart, in which an unmapped word
\* is reached by a redirect only.  A CSR instruction is not right behind another one
\* and meets neither an interrupt, nor a walk, nor a cache that is busy by itself; nor does
\* a store with a trap, FENCE.I or a return right behind it meet the last.  An access that
\* faults meets neither that nor an interrupt, and no multiplication, FENCE.I or return is
\* right behind it.
Ordered(program, around) ==
    /\ Redirecting(program, around)
    /\ ~around.remote
    /\ \A p \in Word :
        /\ program[p] = "csr" =>
            /\ ~around.interrupts /\ ~around.walks /\ ~around.snoops
            /\ program[Follow(p)] # "csr"
        /\ program[p] = "store" =>
            ~around.snoops \/ program[Follow(p)] \notin {"trap", "fencei", "xret"}
        /\ program[p] = "fault" =>
            /\ ~around.interrupts /\ ~around.snoops
            /\ program[Follow(p)] \notin {"mul", "fencei", "xret"}

Orderly == \A case \in Cases : Ordered(case.code, case.world)

\* FENCE.I that has invalidated has nothing behind it until it leaves.
FenceInv == fenced => decode = Nowhere /\ (ex.at = Nowhere \/ (Executing = "fencei" /\ ~valid))

\* What was performed by whom, and data only for a load that was translated.
EffectInv ==
    /\ ex.done => Executing = "csr"
    /\ mem.done => Accessing \in {"csr", "store"}
    /\ Accessing = "csr" => mem.done
    /\ mem.data # "none" => Accessing = "load" /\ mem.xlat = "ok"

\* A CSR instruction whose record was captured in execute leaves when the record is
\* released; one that was not captured does not find another record in its way, nor
\* does a page fault.
RecordInv ==
    /\ commit.fire => ~commit.serialized
    /\ ex.done => Serializing /\ (valid => Match) /\ ~Accesses(Accessing)
    /\ Executing = "csr" /\ Serializing => ex.done
    /\ Accessing = "fault" \/ (valid /\ pc \in world.unmapped) => ~Serializing /\ ~writing

\* An accepted interrupt finds no access ahead of it and an instruction to replace.
EntryInv ==
    accept =>
        /\ ex.at # Nowhere /\ Executing \notin {"trap", "xret"}
        /\ Accessing # "store"
        /\ Accessing = "load" => mem.xlat = "ok" /\ mem.data \in {"retire", "late"}
        /\ Executing = "fencei" => fenced
        /\ enabled /\ world.interrupts

OrderInv ==
    /\ Ordered(code, world)
    /\ FenceInv /\ EffectInv /\ RecordInv /\ EntryInv

-----------------------------------------------------------------------------
(* The mapping. *)

\* What Order sees of the CSRs and of the effects.
OrderEpc == IF Recorded("trap") THEN commit.at ELSE epc
OrderEnabled == IF Recorded("trap") THEN FALSE ELSE IF Recorded("xret") THEN TRUE ELSE enabled
OrderEffects == (effects + 3 - Early) % 3

\* The effects when the instruction in the memory stage has left.
Counted == IF Accessing \in {"csr", "store"} THEN (OrderEffects + 1) % 3 ELSE OrderEffects

\* Where no fetch faults, Order runs the program itself.
LEMMA OrderCode ==
    ASSUME NEW p \in Word
    PROVE  LET program == [q \in Word |-> IF q \in world.unmapped THEN "trap" ELSE code[q]]
           IN  /\ p \notin world.unmapped => program[p] = code[p]
               /\ p \in world.unmapped => program[p] = "trap"
OBVIOUS

\* What follows an instruction.
LEMMA Successions ==
    ASSUME NEW p \in Word, p \notin world.unmapped, code[p] \notin {"trap", "fault", "xret"}
    PROVE  Order!Successors(p) = Behind(p)
<1>1. [q \in Word |-> IF q \in world.unmapped THEN "trap" ELSE code[q]][p] = code[p]
    BY OrderCode
<1>2. Order!Target(p) = Target(p) /\ Order!Follow(p) = Follow(p)
    BY DEF Order!Target, Order!Follow, Target, Follow
<1>3. Order!Excepting = {"trap", "fault"}
    BY DEF Order!Excepting
<1> QED
    BY <1>1, <1>2, <1>3 DEF Order!Successors, Behind

\* The effects in Order after an instruction.
LEMMA EffectsAfterIt ==
    ASSUME NEW p \in Word, p \notin world.unmapped
    PROVE  Order!EffectsAfter(p) =
             IF code[p] \in {"csr", "store"} THEN (OrderEffects + 1) % 3 ELSE OrderEffects
<1>1. [q \in Word |-> IF q \in world.unmapped THEN "trap" ELSE code[q]][p] = code[p]
    BY OrderCode
<1> QED
    BY <1>1 DEF Order!EffectsAfter, Order!Effectful, OrderEffects

\* The instruction in the memory stage, and what follows it.
LEMMA NextAfterIt ==
    ASSUME Inv, ~world.remote, mem.at # Nowhere, Accessing # "fault"
    PROVE  /\ Oldest = mem.at /\ Younger \in Order!Successors(mem.at)
           /\ Counted = Order!EffectsAfter(mem.at)
<1>1. Oldest = mem.at /\ mem.at \in Word /\ Accessing = code[mem.at]
    BY Slots DEF Oldest, Accessing, Doing, Inv, TypeOK, Memory
<1>2. mem.at \notin world.unmapped
    BY DEF Inv, FetchInv
<1>3. code[mem.at] \notin {"trap", "xret", "fault"} /\ Younger \in Behind(mem.at)
    BY <1>1 DEF Inv, ChainInv
<1> QED
    BY <1>1, <1>2, <1>3, Successions, EffectsAfterIt DEF Counted

\* Positions at which a trap or a return may take the place of an instruction.
LEMMA Position ==
    ASSUME Inv, ~world.remote, ex.at # Nowhere, Accessing # "fault", NEW e, e = Counted
    PROVE  [at |-> ex.at, effects |-> e] \in Order!After \cup {Order!Before}
<1>1. CASE mem.at = Nowhere
  <2>1. Oldest = ex.at
      BY <1>1 DEF Oldest
  <2>2. e = OrderEffects
      BY <1>1, Busy DEF Counted, Accessing
  <2> QED
      BY <2>1, <2>2 DEF Order!Before, OrderEffects
<1>2. CASE mem.at # Nowhere
  <2>1. Oldest = mem.at /\ ex.at \in Order!Successors(mem.at)
      BY <1>2, NextAfterIt DEF Younger
  <2>2. e = Order!EffectsAfter(mem.at)
      BY <1>2, NextAfterIt
  <2> QED
      BY <2>1, <2>2 DEF Order!After
<1> QED
    BY <1>1, <1>2

\* The oldest instruction leaves.
LEMMA Retirement ==
    ASSUME Inv, ~world.remote, mem.at # Nowhere, Accessing # "fault",
           Oldest' = Younger, OrderEffects' = Counted,
           OrderEpc' = OrderEpc, OrderEnabled' = OrderEnabled, code' = code, world' = world
    PROVE  Order!OrderNext
<1>1. /\ Oldest = mem.at /\ Younger \in Order!Successors(mem.at)
      /\ Counted = Order!EffectsAfter(mem.at)
    BY NextAfterIt
<1>2. [at |-> Oldest', effects |-> OrderEffects'] \in Order!After
    BY <1>1 DEF Order!After
<1>3. Order!Reach([at |-> Oldest', effects |-> OrderEffects'])
    BY DEF Order!Reach, OrderEffects
<1>4. Order!Retire
    BY <1>2, <1>3 DEF Order!Retire, OrderEpc, OrderEnabled
<1> QED
    BY <1>4 DEF Order!OrderNext

\* The instruction at s traps.
LEMMA Trapping ==
    ASSUME NEW s \in Order!After \cup {Order!Before}, NEW p \in Word, s.at = p,
           p \in world.unmapped \/ code[p] \in {"trap", "fault"},
           Oldest' = Vector, OrderEffects' = s.effects, OrderEpc' = p,
           OrderEnabled' = FALSE, code' = code, world' = world
    PROVE  Order!OrderNext
<1>1. [q \in Word |-> IF q \in world.unmapped THEN "trap" ELSE code[q]][s.at] \in {"trap", "fault"}
    BY OrderCode
<1>2. Order!Trap(s)
    BY DEF Order!Trap, OrderEpc, OrderEnabled, OrderEffects
<1>3. Order!Exception
    BY <1>1, <1>2 DEF Order!Exception, Order!Excepting
<1> QED
    BY <1>3 DEF Order!OrderNext

\* Nothing leaves.
LEMMA Stutter ==
    ASSUME Oldest' = Oldest, OrderEffects' = OrderEffects, OrderEpc' = OrderEpc,
           OrderEnabled' = OrderEnabled, code' = code, world' = world
    PROVE  UNCHANGED Order!orderVars
BY DEF Order!orderVars, OrderEffects, OrderEpc, OrderEnabled

-----------------------------------------------------------------------------
(* What an edge does that does not depend on where the instructions go. *)

\* What the surroundings may do where a CSR instruction, a store or an access that faults is
\* in flight.
LEMMA Surroundings ==
    ASSUME Inv, Ordered(code, world), NEW in \in Inputs
    PROVE  /\ ~world.remote /\ ~in.remote
           /\ Executing = "csr" \/ Accessing = "csr" =>
                ~world.interrupts /\ ~world.walks /\ ~world.snoops
           /\ Accessing = "store" /\ Executing \in {"trap", "fencei", "xret"} =>
                ~world.snoops
           /\ Accessing = "fault" =>
                /\ ~world.interrupts /\ ~world.snoops
                /\ Executing \notin {"mul", "fencei", "xret"}
           /\ in.irq => world.interrupts /\ enabled /\ ex.at # Nowhere
           /\ in.busy => world.snoops
           /\ ~world.walks /\ valid /\ ~Match => in.ihit
           /\ in.dhit => mem.xlat = "new"
           /\ in.data => Accessing = "load" /\ mem.xlat = "ok"
<1>1. ~world.remote /\ ChainInv
    BY DEF Ordered, Inv
<1>2. ex.at \in Slot /\ mem.at \in Slot
    BY DEF Inv, TypeOK, Execute, Memory
<1>3. /\ Executing # "none" => ex.at \in Word /\ Executing = code[ex.at]
      /\ Accessing # "none" => mem.at \in Word /\ mem.at # Nowhere /\ Accessing = code[mem.at]
    BY <1>2, Slots DEF Executing, Accessing, Doing
<1>4. ASSUME Accessing = "fault" PROVE Executing \notin {"mul", "fencei", "xret"}
  <2>1. SUFFICES ASSUME Executing # "none" PROVE Executing \notin {"mul", "fencei", "xret"}
      OBVIOUS
  <2>2. ex.at \in Behind(mem.at)
      BY <1>1, <1>3, <1>4, <2>1, Busy DEF ChainInv, Younger, Executing
  <2>3. ex.at = Follow(mem.at)
      BY <1>3, <1>4, <2>2 DEF Behind
  <2> QED
      BY <1>3, <1>4, <2>1, <2>3 DEF Ordered
<1>5. ASSUME Accessing = "store", Executing \in {"trap", "fencei", "xret"}
      PROVE  ~world.snoops
  <2>1. ex.at \in Behind(mem.at)
      BY <1>1, <1>3, <1>5, Busy DEF ChainInv, Younger, Executing
  <2>2. ex.at = Follow(mem.at)
      BY <1>3, <1>5, <2>1 DEF Behind
  <2> QED
      BY <1>3, <1>5, <2>2 DEF Ordered
<1>6. /\ in.irq => world.interrupts /\ enabled /\ ex.at # Nowhere
      /\ in.busy => world.snoops
      /\ ~world.walks /\ valid /\ ~Match => in.ihit
      /\ in.dhit => mem.xlat = "new"
      /\ in.data => Accessing = "load" /\ mem.xlat = "ok"
    BY DEF Inputs, Any, Walk
<1> QED
    BY <1>1, <1>3, <1>4, <1>5, <1>6, NoRequest DEF Ordered

\* Between two records no trap and no return is on its way to the CSRs.
LEMMA Calm ==
    ASSUME Inv, RecordInv, ~CommitWait
    PROVE  ~Recorded("trap") /\ ~Recorded("xret") /\ ~Recorded("csr")
BY Slots DEF Inv, TypeOK, RecordInv, CommitWait, Serializing, Recorded

\* The record that an edge without a page fault may capture.
LEMMA RecordOf ==
    ASSUME Inv, NEW in \in Inputs, ~DataFault, ~FetchFault \/ mem.at # Nowhere
    PROVE  CsrState(in) =
             IF ex.at # Nowhere /\ (RetireWait(in) => Accept)
             THEN [at |-> ex.at, kind |-> IF Accept THEN "trap" ELSE KindOf(Executing)]
             ELSE NoRecord
BY FaultSeen DEF CsrState

\* What the record of an instruction says of it.
LEMMA Kinds ==
    /\ \A op : KindOf(op) \in {"csr", "fencei", "trap", "xret"} => op = KindOf(op)
    /\ \A op : op \in {"csr", "fencei", "trap", "xret"} => KindOf(op) = op
BY DEF KindOf

\* A CSR instruction writes when it leaves execute, and has not written before.
LEMMA CsrWrites ==
    ASSUME Inv, RecordInv, EffectInv, NEW in \in Inputs, CsrDone(in)
    PROVE  /\ Executing = "csr" /\ ~ex.done /\ ~RetireWait(in) /\ ~CommitWait
           /\ ~Serializing /\ CsrState(in) = [at |-> ex.at, kind |-> "csr"]
<1>1. CsrState(in).kind = "csr" /\ Records(in)
    BY DEF CsrDone
<1>2. ~DataFault /\ (~FetchFault \/ mem.at # Nowhere)
    BY <1>1, FaultSeen DEF CsrState
<1>3. ex.at # Nowhere /\ (RetireWait(in) => Accept) /\ ~Accept /\ KindOf(Executing) = "csr"
    BY <1>1, <1>2, RecordOf DEF NoRecord
<1>4. Executing = "csr"
    BY <1>3, Kinds
<1>5. ~ReturnNow(in) /\ ~TrapNow(in)
    BY <1>3, <1>4 DEF ReturnNow, TrapNow
<1>6. ~CommitWait /\ ~Serializing
    BY <1>1, <1>5 DEF Records
<1>7. ~ex.done
    BY <1>6 DEF RecordInv
<1> QED
    BY <1>2, <1>3, <1>4, <1>6, <1>7, RecordOf

\* A record that fires is captured on that edge, and has not been serialized.
LEMMA Fires ==
    ASSUME Inv, NEW in \in Inputs, CommitEdge(in)
    PROVE  commit'.fire => /\ ~commit'.serialized
                           /\ Records(in) /\ CsrState(in).at # Nowhere
                           /\ commit'.at = CsrState(in).at /\ commit'.kind = CsrState(in).kind
BY DEF CommitEdge, Captured, NoCommit, Inv, TypeOK, Commit

\* Where nothing is trapped and nothing returns, no trap and no return is recorded.
LEMMA Uneventful ==
    ASSUME Inv, RecordInv, NEW in \in Inputs, Edge(in), ~ReturnNow(in), ~TrapNow(in),
           ~DataFault, ~FetchFault \/ mem.at # Nowhere
    PROVE  OrderEpc' = OrderEpc /\ OrderEnabled' = OrderEnabled
<1>1. CommitEdge(in)
    BY DEF Edge
<1>2. ~Recorded("trap")' /\ ~Recorded("xret")'
  <2>1. SUFFICES ASSUME commit'.fire, commit'.kind \in {"trap", "xret"} PROVE FALSE
      BY DEF Recorded
  <2>2. Records(in) /\ CsrState(in).kind \in {"trap", "xret"}
      BY <1>1, <2>1, Fires
  <2>3. ~CommitWait
      BY <2>2 DEF Records
  <2>4. /\ ex.at # Nowhere /\ (RetireWait(in) => Accept)
        /\ Accept \/ KindOf(Executing) \in {"trap", "xret"}
      BY <2>2, RecordOf DEF NoRecord
  <2>5. Accept \/ Executing \in {"trap", "xret"}
      BY <2>4, Kinds
  <2> QED
      BY <2>3, <2>4, <2>5 DEF ReturnNow, TrapNow
<1> QED
    BY <1>1, <1>2 DEF CommitEdge, OrderEpc, OrderEnabled, Recorded

\* A store that does not wait has been accepted, or is on this edge.
LEMMA StoreLeaves ==
    ASSUME Inv, NEW in \in Inputs, Accessing = "store", ~RetireWait(in), ~in.busy
    PROVE  mem.done \/ StoreDone(in)
<1>1. mem.xlat \in {"new", "ok"}
    BY DEF Inv, TypeOK, Memory
<1> QED
    BY <1>1, FaultSeen DEF RetireWait, TransportWait, StoreDone, Accesses

-----------------------------------------------------------------------------
(* The effects. *)

\* Counting modulo 3, with what is performed on an edge taken off again.
LEMMA Performed ==
    \A e, k, n \in 0 .. 2 : k + n <= 2 => (((e + n) % 3) + 3 - (k + n)) % 3 = (e + 3 - k) % 3
<1> SUFFICES ASSUME NEW e \in 0 .. 2, NEW k \in 0 .. 2, NEW n \in 0 .. 2, k + n <= 2
             PROVE  (((e + n) % 3) + 3 - (k + n)) % 3 = (e + 3 - k) % 3
    OBVIOUS
<1>1. e \in {0, 1, 2} /\ k \in {0, 1, 2} /\ n \in {0, 1, 2}
    OBVIOUS
<1>2. 0 % 3 = 0 /\ 1 % 3 = 1 /\ 2 % 3 = 2 /\ 3 % 3 = 0 /\ 4 % 3 = 1 /\ 5 % 3 = 2
    OBVIOUS
<1> QED
    BY <1>1, <1>2

\* Counting modulo 3, with one effect that had been taken off, or comes now, and stays.
LEMMA Leaving ==
    \A e \in 0 .. 2, k, n, c, m, q \in 0 .. 1 :
        m + n = q => (((e + c + n) % 3) + 3 - (k + c)) % 3 = (((e + 3 - (k + m)) % 3) + q) % 3
<1> SUFFICES ASSUME NEW e \in 0 .. 2, NEW k \in 0 .. 1, NEW n \in 0 .. 1, NEW c \in 0 .. 1,
                    NEW m \in 0 .. 1, NEW q \in 0 .. 1, m + n = q
             PROVE  (((e + c + n) % 3) + 3 - (k + c)) % 3
                        = (((e + 3 - (k + m)) % 3) + q) % 3
    OBVIOUS
<1>1. /\ e \in {0, 1, 2} /\ k \in {0, 1} /\ n \in {0, 1} /\ c \in {0, 1}
      /\ m \in {0, 1} /\ q \in {0, 1}
    OBVIOUS
<1>2. 0 % 3 = 0 /\ 1 % 3 = 1 /\ 2 % 3 = 2 /\ 3 % 3 = 0 /\ 4 % 3 = 1 /\ 5 % 3 = 2
    OBVIOUS
<1> QED
    BY <1>1, <1>2

\* What is performed while nothing leaves is not yet an effect in Order.
LEMMA EffectsWait ==
    ASSUME Inv, RecordInv, EffectInv, NEW in \in Inputs, Edge(in),
           ex'.done = (ex.done \/ CsrDone(in)), mem'.done = (mem.done \/ StoreDone(in))
    PROVE  OrderEffects' = OrderEffects
<1> DEFINE k == Early
           n == (IF CsrDone(in) THEN 1 ELSE 0) + (IF StoreDone(in) THEN 1 ELSE 0)
<1>1. effects' = (effects + n) % 3
    BY DEF Edge, CommitEdge, Inv, TypeOK
<1>2. CsrDone(in) => ~ex.done
    BY CsrWrites
<1>3. StoreDone(in) => ~mem.done
    BY DEF StoreDone
<1>4. Early' = k + n /\ k \in 0 .. 2 /\ n \in 0 .. 2 /\ k + n <= 2
  <2>1. Early' = (IF ex.done \/ CsrDone(in) THEN 1 ELSE 0)
                    + (IF mem.done \/ StoreDone(in) THEN 1 ELSE 0)
      BY DEF Early
  <2>2. (IF ex.done \/ CsrDone(in) THEN 1 ELSE 0)
            = (IF ex.done THEN 1 ELSE 0) + (IF CsrDone(in) THEN 1 ELSE 0)
      BY <1>2
  <2>3. (IF mem.done \/ StoreDone(in) THEN 1 ELSE 0)
            = (IF mem.done THEN 1 ELSE 0) + (IF StoreDone(in) THEN 1 ELSE 0)
      BY <1>3
  <2> QED
      BY <1>2, <1>3, <2>1, <2>2, <2>3 DEF Early
<1>5. effects \in 0 .. 2
    BY DEF Inv, TypeOK
<1>6. OrderEffects' = (((effects + n) % 3) + 3 - (k + n)) % 3
    BY <1>1, <1>4 DEF OrderEffects
<1>7. OrderEffects = (effects + 3 - k) % 3
    BY DEF OrderEffects
<1> HIDE DEF k, n
<1> QED
    BY <1>4, <1>5, <1>6, <1>7, Performed

\* When the memory stage is left, its effect is performed and counted, and what execute
\* has performed goes with it or is none.
LEMMA EffectsLeave ==
    ASSUME Inv, RecordInv, EffectInv, NEW in \in Inputs, Edge(in),
           ~RetireWait(in) \/ Accessing \notin {"csr", "store"},
           Accessing = "store" => ~in.busy,
           Early' = IF ex.done \/ CsrDone(in) THEN 1 ELSE 0
    PROVE  OrderEffects' = Counted
<1> DEFINE k == IF ex.done THEN 1 ELSE 0
           c == IF CsrDone(in) THEN 1 ELSE 0
           m == IF mem.done THEN 1 ELSE 0
           n == IF StoreDone(in) THEN 1 ELSE 0
           q == IF Accessing \in {"csr", "store"} THEN 1 ELSE 0
<1>1. effects' = (effects + c + n) % 3
    BY DEF Edge, CommitEdge
<1>2. Early' = k + c
    BY CsrWrites
<1>3. Early = k + m
    BY DEF Early
<1>4. m + n = q
  <2>1. CASE Accessing = "store"
      BY <2>1, StoreLeaves DEF StoreDone
  <2>2. CASE Accessing = "csr"
      BY <2>2 DEF StoreDone, EffectInv
  <2>3. CASE Accessing \notin {"csr", "store"}
      BY <2>3 DEF StoreDone, EffectInv
  <2> QED
      BY <2>1, <2>2, <2>3
<1>5. /\ effects \in 0 .. 2 /\ k \in 0 .. 1 /\ c \in 0 .. 1
      /\ m \in 0 .. 1 /\ n \in 0 .. 1 /\ q \in 0 .. 1
    BY DEF Inv, TypeOK
<1>6. OrderEffects' = (((effects + c + n) % 3) + 3 - (k + c)) % 3
    BY <1>1, <1>2 DEF OrderEffects
<1>7. OrderEffects = (effects + 3 - (k + m)) % 3
    BY <1>3 DEF OrderEffects
<1>8. OrderEffects \in 0 .. 2
  <2>1. effects + 3 - (k + m) \in Nat
      BY <1>5
  <2> HIDE DEF k, m
  <2> QED
      BY <1>7, <2>1
<1>9. Counted = (OrderEffects + q) % 3
  <2>1. CASE q = 1
      BY <2>1 DEF Counted
  <2>2. CASE q = 0
    <3>1. Counted = OrderEffects
        BY <2>2 DEF Counted
    <3>2. OrderEffects % 3 = OrderEffects
        BY <1>8
    <3> QED
        BY <1>8, <2>2, <3>1, <3>2
  <2> QED
      BY <2>1, <2>2
<1> HIDE DEF k, c, m, n, q
<1> QED
    BY <1>4, <1>5, <1>6, <1>7, <1>9, Leaving

-----------------------------------------------------------------------------
(* The order of a held pipeline. *)

\* FENCE.I keeps what it has done; what is performed is remembered, and data come where
\* they are waited for.
LEMMA HoldEffects ==
    ASSUME Inv, OrderInv, NEW in \in Inputs, Hold(in)
    PROVE  FenceInv' /\ EffectInv'
<1>1. FenceInv /\ EffectInv /\ RecordInv /\ Ordered(code, world) /\ ~world.remote
    BY DEF OrderInv, Ordered
<1>2. FenceInv'
    BY <1>1, HoldStages DEF FenceInv
<1>3. ex'.done => Executing' = "csr"
    BY <1>1, HoldStages, CsrWrites DEF EffectInv
<1>4. CASE mem' = NoMemory /\ Accessing' = "none"
    BY <1>2, <1>3, <1>4 DEF EffectInv, NoMemory
<1>5. CASE /\ mem' = MemoryHeld(in) /\ Accessing' = Accessing
           /\ mem'.done = (mem.done \/ StoreDone(in))
  <2>1. mem'.done => Accessing' \in {"csr", "store"}
      BY <1>1, <1>5 DEF EffectInv, StoreDone
  <2>2. Accessing' = "csr" => mem'.done
      BY <1>1, <1>5 DEF EffectInv
  <2>3. mem \in Memory
      BY DEF Inv, TypeOK
  <2>4. mem'.data # "none" => mem.data # "none" \/ in.data
      BY <1>5, <2>3 DEF MemoryHeld, Memory
  <2>5. mem.xlat = "ok" => mem'.xlat = "ok"
      BY <1>1, <1>5, <2>3, Surroundings DEF MemoryHeld, Memory
  <2>6. mem'.data # "none" => Accessing' = "load" /\ mem'.xlat = "ok"
      BY <1>1, <1>5, <2>4, <2>5, Surroundings DEF EffectInv
  <2> QED
      BY <1>2, <1>3, <2>1, <2>2, <2>6 DEF EffectInv
<1> QED
    BY <1>1, <1>4, <1>5, HoldStages

\* The record of a CSR instruction in execute stays until the instruction can leave.
LEMMA HoldRecord ==
    ASSUME Inv, OrderInv, NEW in \in Inputs, Hold(in)
    PROVE  RecordInv'
<1>1. /\ EffectInv /\ RecordInv /\ EntryInv
      /\ Ordered(code, world) /\ ~world.remote /\ ~in.remote
    BY Surroundings DEF OrderInv, Ordered
<1>2. /\ CommitEdge(in) /\ TranslationEdge(in)
      /\ MemoryWait(in) /\ ~ReturnNow(in) /\ ~TrapNow(in) /\ ~DataFault /\ ~FetchFault
    BY DEF Hold, Edge, Flows
<1>3. commit'.fire => ~commit'.serialized
    BY <1>2, Fires
<1>4. ASSUME ex'.done
      PROVE  Serializing' /\ (valid' => Match') /\ ~Accesses(Accessing')
  <2>1. Executing = "csr" /\ (ex.done \/ CsrDone(in))
      BY <1>1, <1>4, HoldStages, CsrWrites DEF EffectInv
  <2>2. /\ ~world.interrupts /\ ~world.walks /\ ~world.snoops
        /\ ~in.irq /\ ~in.busy
      BY <1>1, <2>1, Surroundings
  <2>3. pc' = pc /\ valid' = valid /\ Accessing' = Accessing
      BY <1>1, <2>1, HoldStages
  <2>4. CASE CsrDone(in)
    <3>1. /\ ~RetireWait(in) /\ ~CommitWait /\ ~Serializing
          /\ CsrState(in) = [at |-> ex.at, kind |-> "csr"]
        BY <1>1, <2>4, CsrWrites
    <3>2. commit' = Captured(in)
        BY <1>2, <2>4 DEF CommitEdge, CsrDone
    <3>3. ex.at # Nowhere
        BY <2>1, Busy DEF Executing
    <3>4. Serializing'
        BY <3>1, <3>2, <3>3 DEF Captured, Serializing
    <3>5. valid /\ ~Match /\ ~Accesses(Accessing)
        BY <1>2, <2>1, <2>2, <3>1 DEF MemoryWait, Capture, Accesses
    <3>6. immu' = pc
        BY <1>1, <1>2, <2>2, <3>5, Surroundings DEF TranslationEdge
    <3> QED
        BY <2>3, <3>4, <3>5, <3>6 DEF Match
  <2>5. CASE ~CsrDone(in)
    <3>1. ex.done /\ Serializing /\ (valid => Match) /\ ~Accesses(Accessing)
        BY <1>1, <2>1, <2>5 DEF RecordInv
    <3>2. ~RetireWait(in)
        BY <3>1 DEF RetireWait, TransportWait, Loads, Accesses
    <3>3. CommitWait
        BY <1>2, <2>1, <2>2, <3>1, <3>2 DEF MemoryWait, Capture, Accesses
    <3>4. ~Records(in)
        BY <1>2, <3>1 DEF Records
    <3>5. commit' = [commit EXCEPT !.fire = FALSE, !.serialized = TRUE]
        BY <1>2, <3>3, <3>4 DEF CommitEdge
    <3>6. Serializing'
        BY <3>1, <3>5 DEF Serializing, Inv, TypeOK, Commit
    <3>7. valid' => Match'
        BY <1>2, <2>3, <3>1 DEF Match, TranslationEdge
    <3> QED
        BY <2>3, <3>1, <3>6, <3>7
  <2> QED
      BY <2>4, <2>5
<1>5. ASSUME ~Serializing, Serializing'
      PROVE  /\ Records(in) /\ ex.at # Nowhere /\ (RetireWait(in) => Accept)
             /\ CsrState(in).kind # "plain"
  <2>1. CASE Records(in)
    <3>1. commit' = Captured(in)
        BY <1>2, <2>1 DEF CommitEdge
    <3>2. CsrState(in).kind # "plain"
        BY <1>5, <3>1 DEF Captured, Serializing
    <3> QED
        BY <1>2, <2>1, <3>2, RecordOf DEF NoRecord
  <2>2. CASE ~Records(in)
    <3>1. commit'.at = commit.at /\ commit'.kind = commit.kind
        BY <1>2, <1>5, <2>2 DEF CommitEdge, Inv, TypeOK, Commit
    <3> QED
        BY <1>5, <3>1 DEF Serializing
  <2> QED
      BY <2>1, <2>2
<1>6. ASSUME Executing' = "csr", Serializing' PROVE ex'.done
  <2>1. SUFFICES ASSUME ~ex.done, ~CsrDone(in) PROVE FALSE
      BY <1>1, HoldStages
  <2>2. Executing = "csr" /\ ~Serializing
      BY <1>1, <1>6, <2>1, HoldStages DEF RecordInv
  <2>3. ~accept
      BY <1>1, <2>2, Surroundings DEF EntryInv
  <2>4. Records(in) /\ ex.at # Nowhere /\ (RetireWait(in) => Accept)
      BY <1>5, <1>6, <2>2
  <2>5. CsrState(in).kind = "csr"
      BY <1>2, <2>2, <2>3, <2>4, RecordOf, Kinds DEF Accept
  <2> QED
      BY <2>1, <2>4, <2>5 DEF CsrDone
<1>7. ASSUME Accessing' = "fault" \/ (valid' /\ pc' \in world'.unmapped)
      PROVE  ~Serializing' /\ ~writing'
  <2>1. Accessing = "fault" \/ (valid /\ pc \in world.unmapped)
      BY <1>1, <1>7, HoldStages
  <2>2. ~Serializing /\ ~writing
      BY <1>1, <2>1 DEF RecordInv
  <2>3. ~writing'
      BY <1>1, <1>2, <2>2, Calm DEF CommitEdge, CommitWait, Recorded
  <2>4. ex.at # Nowhere => RetireWait(in) /\ ~Accept
    <3>1. CASE Accessing = "fault"
      <4>1. mem.xlat \in {"new", "ok"} /\ mem.data = "none"
          BY <1>1, <1>2, <3>1 DEF EffectInv, DataFault, Accesses, Inv, TypeOK, Memory
      <4>2. ~accept
          BY <1>1, <3>1, Surroundings DEF EntryInv
      <4> QED
          BY <1>2, <3>1, <4>1, <4>2 DEF RetireWait, Loads, Accept
    <3>2. CASE valid /\ pc \in world.unmapped
        BY <3>2 DEF Inv, FetchInv
    <3> QED
        BY <2>1, <3>1, <3>2
  <2> QED
      BY <1>5, <2>2, <2>3, <2>4
<1> QED
    BY <1>3, <1>4, <1>6, <1>7 DEF RecordInv

\* An interrupt is accepted where the access ahead of it is over.
LEMMA HoldEntry ==
    ASSUME Inv, OrderInv, NEW in \in Inputs, Hold(in)
    PROVE  EntryInv'
<1>1. SUFFICES ASSUME accept'
               PROVE  /\ ex'.at # Nowhere /\ Executing' \notin {"trap", "xret"}
                      /\ Accessing' # "store"
                      /\ Accessing' = "load" =>
                            mem'.xlat = "ok" /\ mem'.data \in {"retire", "late"}
                      /\ Executing' = "fencei" => fenced'
                      /\ enabled' /\ world'.interrupts
    BY DEF EntryInv
<1>2. /\ EffectInv /\ RecordInv /\ EntryInv /\ AcceptEdge(in) /\ CommitEdge(in)
      /\ Ordered(code, world) /\ ~world.remote
    BY DEF OrderInv, Hold, Edge, Ordered
<1>3. Capture(in)
    BY <1>1, <1>2, AcceptOnce DEF EntryInv
<1>4. /\ in.irq /\ Executing \notin {"trap", "xret"}
      /\ ~RetireWait(in) /\ Accessing # "store" /\ ~CommitWait
    BY <1>3 DEF Capture, EntryWait
<1>5. world.interrupts /\ enabled /\ ex.at # Nowhere
    BY <1>2, <1>4, Surroundings
<1>6. enabled' = enabled
    BY <1>2, <1>4, Calm DEF CommitEdge, Recorded
<1>7. Executing' = "fencei" => fenced'
    BY <1>2, <1>4, HoldStages DEF Invalidate, FenceBehindStore
<1>8. mem' = MemoryHeld(in) /\ Accessing' = Accessing
    BY <1>2, <1>4, HoldStages
<1>9. Accessing = "load" => mem'.xlat = "ok" /\ mem'.data \in {"retire", "late"}
  <2>1. SUFFICES ASSUME Accessing = "load"
                 PROVE  mem'.xlat = "ok" /\ mem'.data \in {"retire", "late"}
      OBVIOUS
  <2>2. mem.data \in {"retire", "late"}
      BY <1>4, <2>1, RetiredSettled DEF Settled
  <2>3. mem.xlat = "ok"
      BY <1>2, <2>2 DEF EffectInv
  <2>4. ~in.dhit
      BY <1>2, <2>3, Surroundings DEF Inputs, Any, Walk
  <2> QED
      BY <1>8, <2>2, <2>3, <2>4 DEF MemoryHeld, Inv, TypeOK, Memory
<1> QED
    BY <1>2, <1>4, <1>5, <1>6, <1>7, <1>8, <1>9, HoldStages

\* A held pipeline retires nothing but a store that FENCE.I waits for.
LEMMA HoldStep ==
    ASSUME Inv, OrderInv, NEW in \in Inputs, Hold(in)
    PROVE  Order!OrderNext \/ UNCHANGED Order!orderVars
<1>1. EffectInv /\ RecordInv /\ Ordered(code, world) /\ ~world.remote
    BY DEF OrderInv, Ordered
<1>2. /\ Edge(in) /\ ~ReturnNow(in) /\ ~TrapNow(in) /\ ~DataFault /\ ~FetchFault
      /\ code' = code /\ world' = world
    BY DEF Hold, Flows, Edge
<1>3. OrderEpc' = OrderEpc /\ OrderEnabled' = OrderEnabled
    BY <1>1, <1>2, Uneventful
<1>4. CASE mem' = NoMemory /\ Accessing = "store" /\ Executing = "fencei" /\ ~RetireWait(in)
  <2>1. mem.at # Nowhere /\ ex.at # Nowhere
      BY <1>4, Busy DEF Accessing, Executing
  <2>2. mem'.at = Nowhere /\ ~mem'.done /\ ex'.at = ex.at
      BY <1>1, <1>4, HoldStages DEF NoMemory
  <2>3. Oldest' = Younger
      BY <2>1, <2>2 DEF Oldest, Younger
  <2>4. Early' = IF ex.done \/ CsrDone(in) THEN 1 ELSE 0
    <3>1. ex'.done <=> ex.done \/ CsrDone(in)
        BY <1>1, HoldStages
    <3> QED
        BY <2>2, <3>1 DEF Early
  <2>5. OrderEffects' = Counted
      BY <1>1, <1>2, <1>4, <2>4, EffectsLeave, Surroundings
  <2> QED
      BY <1>1, <1>2, <1>3, <1>4, <2>1, <2>3, <2>5, Retirement
<1>5. CASE mem'.at = mem.at /\ mem'.done = (mem.done \/ StoreDone(in))
  <2>1. OrderEffects' = OrderEffects
      BY <1>1, <1>2, <1>5, HoldStages, EffectsWait
  <2>2. Oldest' = Oldest
      BY <1>1, <1>5, HoldStages DEF Oldest
  <2> QED
      BY <1>2, <1>3, <2>1, <2>2, Stutter
<1> QED
    BY <1>1, <1>4, <1>5, HoldStages

-----------------------------------------------------------------------------
(* The order of an advancing pipeline. *)

\* FENCE.I leaves alone, and a CSR instruction has written when it leaves execute.
LEMMA AdvanceEffects ==
    ASSUME Inv, OrderInv, NEW in \in Inputs, Advance(in)
    PROVE  FenceInv' /\ EffectInv'
<1>1. FenceInv /\ EffectInv /\ RecordInv /\ Ordered(code, world) /\ ~world.remote
    BY DEF OrderInv, Ordered
<1>2. /\ ~CommitWait /\ ~RetireWait(in) /\ ~Accept /\ ~MemoryWait(in)
      /\ ~DataFault /\ ~FetchFault
      /\ decode' = NextDecode(in) /\ ex' = NextExecute(in)
      /\ fenced' = (fenced /\ Executing = "fencei")
      /\ Accessing' = Executing /\ mem'.data = "none"
      /\ ex.at # Nowhere => mem'.done = (ex.done \/ CsrDone(in))
      /\ ex.at = Nowhere => ~mem'.done
    BY <1>1, AdvanceStages DEF Advance
<1>3. FenceInv'
  <2>1. SUFFICES ASSUME fenced' PROVE decode' = Nowhere /\ ex'.at = Nowhere
      BY DEF FenceInv
  <2>2. fenced /\ Executing = "fencei"
      BY <1>2, <2>1
  <2>3. decode = Nowhere /\ ~valid
      BY <1>1, <2>2, Busy DEF FenceInv, Executing
  <2>4. ~Fetches(in) /\ ~Hazard
      BY <2>3 DEF Fetches, FetchValid, Hazard
  <2>5. decode' = Nowhere
      BY <1>2, <2>4 DEF NextDecode
  <2>6. ex'.at = Nowhere
      BY <1>1, <2>3, Entering
  <2> QED
      BY <2>5, <2>6
<1>4. ~ex'.done
    BY <1>2 DEF NextExecute, Decoded, Bubble
<1>5. mem'.done => Accessing' = "csr"
    BY <1>1, <1>2, CsrWrites DEF EffectInv
<1>6. ASSUME Executing = "csr" PROVE mem'.done
  <2>1. ex.at # Nowhere
      BY <1>6, Busy DEF Executing
  <2>2. SUFFICES ASSUME ~ex.done PROVE CsrDone(in)
      BY <1>2, <2>1
  <2>3. ~Serializing
      BY <1>1, <1>6, <2>2 DEF RecordInv
  <2>4. Records(in)
      BY <1>2, <2>3 DEF Records
  <2>5. CsrState(in) = [at |-> ex.at, kind |-> "csr"]
      BY <1>2, <1>6, <2>1, RecordOf, Kinds
  <2> QED
      BY <2>4, <2>5 DEF CsrDone
<1> QED
    BY <1>2, <1>3, <1>4, <1>5, <1>6 DEF EffectInv

\* No record is in the way of what comes next: of a CSR instruction that enters execute,
\* of a data access in the memory stage, of a fetch behind a jump.
LEMMA AdvanceRecord ==
    ASSUME Inv, OrderInv, NEW in \in Inputs, Advance(in)
    PROVE  RecordInv' /\ EntryInv'
<1>1. /\ EffectInv /\ RecordInv /\ EntryInv /\ FenceInv /\ ChainInv
      /\ Ordered(code, world) /\ ~world.remote
    BY DEF OrderInv, Ordered, Inv
<1>2. /\ CommitEdge(in) /\ AcceptEdge(in)
      /\ ~CommitWait /\ ~RetireWait(in) /\ ~Capture(in) /\ ~Accept /\ ~MemoryWait(in)
      /\ ~ReturnNow(in) /\ ~TrapNow(in) /\ ~DataFault /\ ~FetchFault
      /\ Executing \notin {"trap", "xret"} /\ (Executing = "fencei" => fenced)
      /\ Accessing' = Executing /\ ex' = NextExecute(in) /\ decode' = NextDecode(in)
      /\ valid' = (~Stops(in)) /\ code' = code /\ world' = world
    BY <1>1, AdvanceStages DEF Advance, Edge
<1>3. ~ex'.done
    BY <1>2 DEF NextExecute, Decoded, Bubble
<1>4. commit'.fire => ~commit'.serialized
    BY <1>2, Fires
<1>5. ASSUME Serializing'
      PROVE  Executing \in {"csr", "fencei"} /\ ex.at \in Word /\ code[ex.at] = Executing
  <2>1. Records(in) /\ commit' = Captured(in)
    <3>1. CASE Serializing
      <4>1. ~Records(in)
          BY <1>2, <3>1 DEF Records
      <4>2. commit' = NoCommit
          BY <1>2, <3>1, <4>1 DEF CommitEdge
      <4> QED
          BY <1>5, <4>2 DEF Serializing, NoCommit
    <3>2. CASE ~Serializing
      <4>1. Records(in)
          BY <1>2, <3>2 DEF Records
      <4> QED
          BY <1>2, <4>1 DEF CommitEdge
    <3> QED
        BY <3>1, <3>2
  <2>2. CsrState(in).at # Nowhere /\ CsrState(in).kind # "plain"
      BY <1>5, <2>1 DEF Captured, Serializing
  <2>3. ex.at # Nowhere /\ KindOf(Executing) # "plain"
      BY <1>2, <2>2, RecordOf DEF NoRecord
  <2>4. Executing \in {"csr", "fencei"}
      BY <1>2, <2>3 DEF KindOf
  <2> QED
      BY <2>3, <2>4, Slots DEF Executing, Doing, Inv, TypeOK, Execute
<1>6. ASSUME Executing' = "csr", Serializing' PROVE FALSE
  <2>1. ex'.at # Nowhere
      BY <1>6 DEF Executing, Doing
  <2>2. decode # Nowhere /\ Doing(decode) = "csr"
      BY <1>1, <1>6, <2>1, Entering
  <2>3. Executing = "csr" /\ ex.at \in Word /\ code[ex.at] = "csr"
      BY <1>1, <1>2, <1>6, <1>5, <2>2 DEF FenceInv
  <2>4. Front = Follow(ex.at) /\ Front = decode
      BY <1>1, <2>2, <2>3, Slots DEF ChainInv, Front
  <2>5. code[decode] = "csr"
      BY <2>2 DEF Doing
  <2> QED
      BY <1>1, <2>3, <2>4, <2>5 DEF Ordered
<1>7. ASSUME Accessing' = "fault" \/ (valid' /\ pc' \in world'.unmapped)
      PROVE  ~Serializing' /\ ~writing'
  <2>1. ~writing'
      BY <1>1, <1>2, Calm DEF CommitEdge, Recorded
  <2>2. CASE Accessing' = "fault"
      BY <1>2, <1>5, <2>1, <2>2
  <2>3. CASE valid' /\ pc' \in world'.unmapped
    <3>1. decode' = Nowhere /\ ex'.at = Nowhere
        BY <1>1, <2>3, AdvanceFetch DEF FetchInv
    <3>2. Younger' = pc'
        BY <3>1 DEF Younger, Front
    <3>3. SUFFICES ASSUME Serializing' PROVE FALSE
        BY <2>1
    <3>4. Executing \in {"csr", "fencei"} /\ ex.at \in Word /\ code[ex.at] = Executing
        BY <1>5, <3>3
    <3>5. pc' \in Behind(ex.at)
        BY <1>1, <3>2, <3>4, MovedChain, Slots
    <3>6. pc' = Follow(ex.at)
        BY <3>4, <3>5 DEF Behind
    <3> QED
        BY <1>1, <1>2, <2>3, <3>4, <3>6 DEF Ordered, Redirecting
  <2> QED
      BY <1>7, <2>2, <2>3
<1>8. ~accept'
    BY <1>1, <1>2, AcceptOnce DEF EntryInv
<1> QED
    BY <1>3, <1>4, <1>6, <1>7, <1>8 DEF RecordInv, EntryInv

\* What is in the memory stage retires.
LEMMA AdvanceStep ==
    ASSUME Inv, OrderInv, NEW in \in Inputs, Advance(in)
    PROVE  Order!OrderNext \/ UNCHANGED Order!orderVars
<1>1. EffectInv /\ RecordInv /\ Ordered(code, world) /\ ~world.remote
    BY DEF OrderInv, Ordered
<1>2. /\ Edge(in) /\ ~ReturnNow(in) /\ ~TrapNow(in) /\ ~RetireWait(in) /\ ~MemoryWait(in)
      /\ ~DataFault /\ ~FetchFault
      /\ code' = code /\ world' = world /\ ex' = NextExecute(in) /\ mem'.at = ex.at
      /\ ex.at # Nowhere => mem'.done = (ex.done \/ CsrDone(in))
      /\ ex.at = Nowhere => ~mem'.done
    BY <1>1, AdvanceStages DEF Advance
<1>3. OrderEpc' = OrderEpc /\ OrderEnabled' = OrderEnabled
    BY <1>1, <1>2, Uneventful
<1>4. Oldest' = Younger
  <2>1. CASE ex.at # Nowhere
      BY <1>2, <2>1 DEF Oldest, Younger
  <2>2. CASE ex.at = Nowhere
    <3>1. ~Taken(in)
        BY <1>1, <2>2, Redirected
    <3>2. Younger' = Front
        BY <1>1, <3>1, InSequence
    <3>3. Oldest' = Younger'
        BY <1>2, <2>2 DEF Oldest, Younger, Front
    <3> QED
        BY <2>2, <3>2, <3>3 DEF Younger
  <2> QED
      BY <2>1, <2>2
<1>5. Early' = IF ex.done \/ CsrDone(in) THEN 1 ELSE 0
  <2>1. ~ex'.done
      BY <1>2 DEF NextExecute, Decoded, Bubble
  <2>2. ex.done \/ CsrDone(in) => ex.at # Nowhere
      BY <1>1, Busy, CsrWrites DEF EffectInv, Executing
  <2>3. mem'.done <=> ex.done \/ CsrDone(in)
      BY <1>2, <2>2
  <2> QED
      BY <2>1, <2>3 DEF Early
<1>6. OrderEffects' = Counted
  <2>1. Accessing = "store" => ~in.busy
      BY <1>2 DEF MemoryWait, Accesses
  <2> QED
      BY <1>1, <1>2, <1>5, <2>1, EffectsLeave
<1>7. CASE mem.at # Nowhere
  <2>1. Accessing # "fault"
      BY <1>1, <1>2 DEF RetireWait, Loads, EffectInv
  <2> QED
      BY <1>1, <1>2, <1>3, <1>4, <1>6, <1>7, <2>1, Retirement
<1>8. CASE mem.at = Nowhere
  <2>1. Accessing = "none"
      BY <1>8, Busy DEF Accessing
  <2>2. OrderEffects' = OrderEffects
      BY <1>6, <2>1 DEF Counted
  <2>3. Oldest' = Oldest
      BY <1>4, <1>8 DEF Oldest, Younger, Front
  <2> QED
      BY <1>2, <1>3, <2>2, <2>3, Stutter
<1> QED
    BY <1>7, <1>8

-----------------------------------------------------------------------------
(* Traps, interrupts, returns and page faults. *)

\* Emptied stages have nothing left to keep in order.
LEMMA EmptiedOrder ==
    ASSUME Inv, OrderInv, NEW in \in Inputs, Edge(in), ~Capture(in),
           ex' = Bubble, mem' = NoMemory, decode' = Nowhere, ex.at = Nowhere => ~accept,
           valid' /\ pc' \in world'.unmapped => ~Serializing' /\ ~writing'
    PROVE  FenceInv' /\ EffectInv' /\ RecordInv' /\ EntryInv'
<1>1. /\ ex'.at = Nowhere /\ ~ex'.done
      /\ mem'.at = Nowhere /\ ~mem'.done /\ mem'.data = "none"
    BY DEF Bubble, NoMemory
<1>2. Executing' = "none" /\ Accessing' = "none"
    BY <1>1 DEF Executing, Accessing, Doing
<1>3. FenceInv' /\ EffectInv'
    BY <1>1, <1>2 DEF FenceInv, EffectInv
<1>4. commit'.fire => ~commit'.serialized
    BY Fires DEF Edge
<1>5. RecordInv'
    BY <1>1, <1>2, <1>4 DEF RecordInv
<1>6. EntryInv'
    BY AcceptOnce DEF Edge, EntryInv
<1> QED
    BY <1>3, <1>5, <1>6

\* A flush continues where it is told to.
LEMMA FlushStages ==
    ASSUME Inv, OrderInv, NEW in \in Inputs, NEW target, Flush(in, target), Edge(in),
           Executing = "fencei" => fenced, ~Capture(in)
    PROVE  /\ code' = code /\ world' = world
           /\ Oldest' = target /\ Early' = 0
           /\ FenceInv' /\ EffectInv' /\ RecordInv' /\ EntryInv'
<1>1. ~Invalidate(in) /\ ~in.remote
    BY Surroundings DEF OrderInv, Invalidate
<1>2. /\ pc' = target /\ ~valid' /\ decode' = Nowhere /\ ex' = Bubble /\ mem' = NoMemory
      /\ code' = code /\ world' = world
    BY <1>1 DEF Flush, Move, Edge
<1>3. ex'.at = Nowhere /\ ~ex'.done /\ mem'.at = Nowhere /\ ~mem'.done
    BY <1>2 DEF Bubble, NoMemory
<1>4. Oldest' = target /\ Early' = 0
    BY <1>2, <1>3 DEF Oldest, Early
<1>5. ex.at = Nowhere => ~accept
    BY DEF OrderInv, EntryInv
<1> QED
    BY <1>2, <1>4, <1>5, EmptiedOrder

\* A page fault takes the place of the oldest instruction, and epc will name it.
LEMMA FaultStep ==
    ASSUME Inv, OrderInv, NEW in \in Inputs, Flush(in, Vector), Edge(in), Records(in),
           Executing = "fencei" => fenced, ~Capture(in),
           DataFault \/ (FetchFault /\ mem.at = Nowhere)
    PROVE  Order!OrderNext
<1>1. EffectInv /\ RecordInv /\ Ordered(code, world)
    BY DEF OrderInv
<1>2. code' = code /\ world' = world /\ Oldest' = Vector /\ Early' = 0
    BY FlushStages
<1>3. PICK p \in Word : /\ CsrState(in) = [at |-> p, kind |-> "trap"]
                        /\ Oldest = p
                        /\ p \in world.unmapped \/ code[p] \in {"trap", "fault"}
  <2>1. CASE DataFault
    <3>1. Accessing = "fault"
        BY <2>1, FaultSeen
    <3>2. mem.at \in Word /\ code[mem.at] = "fault"
        BY <3>1, Slots DEF Accessing, Doing, Inv, TypeOK, Memory
    <3>3. Oldest = mem.at
        BY <3>2, Slots DEF Oldest
    <3> QED
        BY <2>1, <3>2, <3>3 DEF CsrState
  <2>2. CASE ~DataFault
    <3>1. FetchFault /\ mem.at = Nowhere /\ ex.at = Nowhere /\ decode = Nowhere
        BY <2>2, FaultSeen
    <3>2. Oldest = pc /\ pc \in Word /\ pc \in world.unmapped
        BY <3>1 DEF Oldest, FetchFault, Inv, TypeOK
    <3> QED
        BY <2>2, <3>1, <3>2 DEF CsrState
  <2> QED
      BY <2>1, <2>2
<1>4. ~CsrDone(in)
    BY <1>3 DEF CsrDone
<1>5. Accessing \notin {"csr", "store"}
    BY FaultSeen, Busy DEF Accessing
<1>6. ~ex.done
  <2>1. CASE DataFault
      BY <1>1, <2>1 DEF RecordInv, DataFault
  <2>2. CASE FetchFault
      BY <1>1, <2>2, FaultSeen DEF EffectInv
  <2> QED
      BY <2>1, <2>2
<1>7. OrderEffects' = OrderEffects
  <2>1. Early' = IF ex.done \/ CsrDone(in) THEN 1 ELSE 0
      BY <1>2, <1>4, <1>6
  <2>2. OrderEffects' = Counted
      BY <1>1, <1>5, <2>1, EffectsLeave
  <2> QED
      BY <1>5, <2>2 DEF Counted
<1>8. commit'.fire /\ commit'.kind = "trap" /\ commit'.at = p
  <2>1. commit' = Captured(in)
      BY DEF Edge, CommitEdge
  <2>2. CsrState(in).at = p /\ CsrState(in).kind = "trap" /\ p # Nowhere
      BY <1>3, Slots
  <2> QED
      BY <2>1, <2>2 DEF Captured
<1>9. OrderEpc' = p /\ OrderEnabled' = FALSE
    BY <1>8 DEF OrderEpc, OrderEnabled, Recorded
<1>10. PICK s : s = [at |-> Oldest, effects |-> OrderEffects]
    OBVIOUS
<1>11. s \in Order!After \cup {Order!Before} /\ s.at = p /\ s.effects = OrderEffects
    BY <1>3, <1>10 DEF Order!Before, OrderEffects
<1> QED
    BY <1>2, <1>3, <1>7, <1>9, <1>11, Trapping

\* What a trap without a page fault finds: an instruction that traps with the access ahead
\* of it over, or an accepted interrupt.
LEMMA TrapStages ==
    ASSUME Inv, OrderInv, NEW in \in Inputs, Trap(in)
    PROVE  /\ Flush(in, Vector) /\ Edge(in) /\ ~Capture(in)
           /\ ex.at # Nowhere /\ ~CommitWait /\ Records(in)
           /\ Executing = "fencei" => fenced
           /\ Accessing = "store" => ~in.busy
           /\ ~DataFault =>
                /\ ~RetireWait(in) \/ Accessing \notin {"csr", "store"}
                /\ ~ex.done /\ Accessing # "fault"
                /\ CsrState(in) = [at |-> ex.at, kind |-> "trap"]
                /\ \/ Accept /\ enabled
                   \/ code[ex.at] = "trap"
<1>1. Flush(in, Vector) /\ Edge(in) /\ TrapNow(in)
    BY DEF Trap
<1>2. /\ ex.at # Nowhere /\ ~CommitWait
      /\ ~RetireWait(in) \/ Accept
      /\ Accept \/ Executing = "trap"
    BY <1>1 DEF TrapNow
<1>3. Records(in) /\ ~FetchFault
    BY <1>1, <1>2, FaultSeen DEF Records
<1>4. EffectInv /\ EntryInv /\ Ordered(code, world)
    BY DEF OrderInv
<1>5. CASE Accept
  <2>1. /\ accept /\ enabled /\ world.interrupts /\ Accessing # "store"
        /\ Executing = "fencei" => fenced
      BY <1>4, <1>5 DEF Accept, EntryInv
  <2>2. Executing # "csr" /\ Accessing \notin {"csr", "fault"}
      BY <1>4, <2>1, Surroundings
  <2>3. ~ex.done /\ ~Capture(in)
      BY <1>4, <2>1, <2>2 DEF EffectInv, Capture
  <2>4. ~DataFault => CsrState(in) = [at |-> ex.at, kind |-> "trap"]
      BY <1>2, <1>3, <1>5, RecordOf
  <2> QED
      BY <1>1, <1>2, <1>3, <1>5, <2>1, <2>2, <2>3, <2>4
<1>6. CASE ~Accept
  <2>1. Executing = "trap" /\ ~RetireWait(in)
      BY <1>2, <1>6
  <2>2. ~ex.done /\ ~Capture(in)
      BY <1>4, <2>1 DEF EffectInv, Capture
  <2>3. ~DataFault => CsrState(in) = [at |-> ex.at, kind |-> "trap"]
      BY <1>2, <1>3, <1>6, <2>1, RecordOf, Kinds
  <2>4. code[ex.at] = "trap"
      BY <1>2, <2>1 DEF Executing, Doing
  <2>5. ~DataFault => Accessing # "fault"
      BY <1>4, <2>1 DEF RetireWait, Loads, EffectInv
  <2>6. Accessing = "store" => ~in.busy
      BY <1>4, <2>1, Surroundings
  <2> QED
      BY <1>1, <1>2, <1>3, <2>1, <2>2, <2>3, <2>4, <2>5, <2>6
<1> QED
    BY <1>5, <1>6

\* A trap takes the place of the instruction in execute, and epc will name it; with an
\* access that faults in the memory stage it takes the place of that.
LEMMA TrapStep ==
    ASSUME Inv, OrderInv, NEW in \in Inputs, Trap(in)
    PROVE  Order!OrderNext
<1>1. /\ Flush(in, Vector) /\ Edge(in) /\ ~Capture(in) /\ ex.at # Nowhere /\ ~CommitWait
      /\ Records(in) /\ (Executing = "fencei" => fenced)
    BY TrapStages
<1>2. EffectInv /\ RecordInv /\ Ordered(code, world) /\ ~world.remote
    BY DEF OrderInv, Ordered
<1>3. CASE DataFault
    BY <1>1, <1>3, FaultStep
<1>4. CASE ~DataFault
  <2>1. /\ ~RetireWait(in) \/ Accessing \notin {"csr", "store"}
        /\ ~ex.done /\ Accessing # "fault" /\ CsrState(in) = [at |-> ex.at, kind |-> "trap"]
      BY <1>4, TrapStages
  <2>2. code' = code /\ world' = world /\ Oldest' = Vector /\ Early' = 0
      BY <1>1, FlushStages
  <2>3. ~CsrDone(in)
      BY <2>1 DEF CsrDone
  <2>4. OrderEffects' = Counted
    <3>1. Early' = IF ex.done \/ CsrDone(in) THEN 1 ELSE 0
        BY <2>1, <2>2, <2>3
    <3> QED
        BY <1>1, <1>2, <2>1, <3>1, EffectsLeave, TrapStages
  <2>5. commit'.fire /\ commit'.kind = "trap" /\ commit'.at = ex.at
    <3>1. commit' = Captured(in)
        BY <1>1 DEF Edge, CommitEdge
    <3>2. CsrState(in).at = ex.at /\ CsrState(in).kind = "trap"
        BY <2>1
    <3> QED
        BY <1>1, <3>1, <3>2 DEF Captured
  <2>6. OrderEpc' = ex.at /\ OrderEnabled' = FALSE
      BY <2>5 DEF OrderEpc, OrderEnabled, Recorded
  <2>7. PICK s : s = [at |-> ex.at, effects |-> Counted]
      OBVIOUS
  <2>8. s \in Order!After \cup {Order!Before} /\ s.at = ex.at /\ s.effects = Counted
      BY <1>1, <1>2, <2>1, <2>7, Position
  <2>9. ex.at \in Word
      BY <1>1, Slots DEF Inv, TypeOK, Execute
  <2>10. CASE Accept /\ enabled
    <3>1. OrderEnabled
        BY <1>1, <1>2, <2>10, Calm DEF OrderEnabled
    <3>2. Order!Trap(s)
        BY <2>2, <2>4, <2>6, <2>8 DEF Order!Trap, OrderEpc, OrderEnabled, OrderEffects
    <3>3. Order!Interrupt
        BY <2>8, <3>1, <3>2 DEF Order!Interrupt, OrderEnabled
    <3> QED
        BY <3>3 DEF Order!OrderNext
  <2>11. CASE code[ex.at] = "trap"
      BY <2>2, <2>4, <2>6, <2>8, <2>9, <2>11, Trapping
  <2> QED
      BY <1>4, <2>10, <2>11, TrapStages
<1> QED
    BY <1>3, <1>4

\* A return takes the place of the instruction in execute and goes where epc says.
LEMMA ReturnStep ==
    ASSUME Inv, OrderInv, NEW in \in Inputs, Return(in)
    PROVE  Order!OrderNext
<1>1. /\ Flush(in, epc) /\ Edge(in)
      /\ Executing = "xret" /\ ~RetireWait(in) /\ ~CommitWait /\ Records(in)
    BY DEF Return, ReturnNow, Records
<1>2. EffectInv /\ RecordInv /\ Ordered(code, world) /\ ~world.remote /\ EntryInv
    BY DEF OrderInv, Ordered
<1>3. ~Capture(in) /\ ~ex.done /\ ~Accept /\ ex.at # Nowhere
    BY <1>1, <1>2, Busy DEF Capture, EffectInv, Accept, EntryInv, Executing
<1>4. Accessing # "fault" /\ ~DataFault /\ ~FetchFault
    BY <1>1, <1>2, <1>3, FaultSeen, Surroundings
<1>5. code' = code /\ world' = world /\ Oldest' = epc /\ Early' = 0
    BY <1>1, <1>3, FlushStages
<1>6. CsrState(in) = [at |-> ex.at, kind |-> "xret"]
    BY <1>1, <1>3, <1>4, RecordOf, Kinds
<1>7. ~CsrDone(in)
    BY <1>6 DEF CsrDone
<1>8. OrderEffects' = Counted
  <2>1. Early' = IF ex.done \/ CsrDone(in) THEN 1 ELSE 0
      BY <1>3, <1>5, <1>7
  <2> QED
      BY <1>1, <1>2, <2>1, EffectsLeave, Surroundings
<1>9. commit'.fire /\ commit'.kind = "xret"
  <2>1. commit' = Captured(in)
      BY <1>1 DEF Edge, CommitEdge
  <2>2. CsrState(in).at = ex.at /\ CsrState(in).kind = "xret"
      BY <1>6
  <2> QED
      BY <1>3, <2>1, <2>2 DEF Captured
<1>10. OrderEpc = epc /\ OrderEpc' = epc /\ OrderEnabled' = TRUE
    BY <1>1, <1>2, <1>9, Calm DEF OrderEpc, OrderEnabled, Recorded, Edge, CommitEdge
<1>11. PICK s : s = [at |-> ex.at, effects |-> Counted]
    OBVIOUS
<1>12. s \in Order!After \cup {Order!Before}
    BY <1>2, <1>3, <1>4, <1>11, Position
<1>13. [q \in Word |-> IF q \in world.unmapped THEN "trap" ELSE code[q]][s.at] = "xret"
  <2>1. ex.at \in Word /\ ex.at \notin world.unmapped /\ code[ex.at] = "xret"
      BY <1>1, <1>3, Slots DEF Executing, Doing, Inv, FetchInv, TypeOK, Execute
  <2>2. s.at = ex.at
      BY <1>11
  <2> QED
      BY <2>1, <2>2, OrderCode
<1>14. Order!Return
    BY <1>5, <1>8, <1>10, <1>11, <1>12, <1>13
       DEF Order!Return, OrderEpc, OrderEnabled, OrderEffects
<1> QED
    BY <1>14 DEF Order!OrderNext

\* A page fault finds no record and no wait in its way: a data fault is not behind one, and a
\* fetch fault is the last in the pipeline.
LEMMA PageFaultStages ==
    ASSUME Inv, OrderInv, NEW in \in Inputs, PageFault(in)
    PROVE  /\ Flush(in, Vector) /\ Edge(in) /\ Records(in) /\ ~Capture(in)
           /\ Executing = "fencei" => fenced
           /\ DataFault \/ (FetchFault /\ mem.at = Nowhere)
<1>1. /\ Flush(in, Vector) /\ Edge(in) /\ (FetchFault \/ DataFault)
      /\ ~ReturnNow(in) /\ ~TrapNow(in) /\ ~Drains(in)
    BY DEF PageFault
<1>2. EffectInv /\ RecordInv /\ Ordered(code, world)
    BY DEF OrderInv
<1>3. ~CommitWait /\ ~Serializing
    BY <1>1, <1>2, FaultSeen DEF RecordInv, CommitWait, FetchFault, Match
<1>4. CASE DataFault
  <2>1. /\ Accessing = "fault" /\ ~in.irq /\ ~in.busy
        /\ Executing \notin {"mul", "fencei", "xret"}
      BY <1>2, <1>4, FaultSeen, Surroundings
  <2>2. ~RetireWait(in)
      BY <1>4 DEF RetireWait, TransportWait
  <2>3. ~MemoryWait(in)
      BY <1>3, <2>1, <2>2 DEF MemoryWait, Capture, Accesses
  <2> QED
      BY <1>1, <1>3, <1>4, <2>1, <2>3 DEF Records, Capture
<1>5. CASE ~DataFault
  <2>1. /\ FetchFault /\ ex.at = Nowhere /\ Executing = "none"
        /\ Accessing \in {"none", "branch", "jump"}
      BY <1>1, <1>5, FaultSeen
  <2>2. ~in.irq /\ Match
      BY <2>1, InputFacts DEF FetchFault
  <2>3. ~MemoryWait(in)
      BY <1>3, <2>1, <2>2
         DEF MemoryWait, Capture, RetireWait, TransportWait, Loads, Accesses
  <2>4. mem.at = Nowhere
      BY <1>1, <1>5, <2>1, <2>3 DEF Drains
  <2> QED
      BY <1>1, <1>3, <2>1, <2>2, <2>3, <2>4 DEF Records, Capture
<1> QED
    BY <1>4, <1>5

\* What a fetch fault finds in the memory stage leaves before the fault is taken.
LEMMA DrainStep ==
    ASSUME Inv, OrderInv, NEW in \in Inputs, Drain(in)
    PROVE  /\ FenceInv' /\ EffectInv' /\ RecordInv' /\ EntryInv'
           /\ Order!OrderNext
<1>1. /\ FetchFault /\ ~DataFault /\ Edge(in) /\ ~MemoryWait(in)
      /\ ~ReturnNow(in) /\ ~TrapNow(in) /\ (ex.at # Nowhere \/ mem.at # Nowhere)
    BY DEF Drain, Drains
<1>2. EffectInv /\ RecordInv /\ EntryInv /\ Ordered(code, world) /\ ~world.remote
    BY DEF OrderInv, Ordered
<1>3. /\ decode = Nowhere /\ ex.at = Nowhere /\ Executing = "none" /\ mem.at # Nowhere
      /\ Accessing \in {"none", "branch", "jump"}
    BY <1>1, FaultSeen
<1>4. ~Invalidate(in) /\ ~in.remote
    BY <1>2, <1>3, Surroundings DEF Invalidate
<1>5. Move(in, pc, TRUE, Nowhere, Bubble, NoMemory)
    BY <1>3 DEF Drain, ExecuteMoved
<1>6. /\ pc' = pc /\ decode' = Nowhere /\ ex' = Bubble /\ mem' = NoMemory
      /\ code' = code /\ world' = world
    BY <1>1, <1>4, <1>5 DEF Move, Edge
<1>7. ex'.at = Nowhere /\ ~ex'.done /\ mem'.at = Nowhere /\ ~mem'.done
    BY <1>6 DEF Bubble, NoMemory
<1>8. ~CommitWait /\ ~Capture(in) /\ ~RetireWait(in)
    BY <1>1 DEF MemoryWait
<1>9. ~Serializing /\ ~writing
    BY <1>1, <1>2 DEF RecordInv, FetchFault, Match
<1>10. ~Serializing'
  <2>1. commit' = Captured(in)
      BY <1>1, <1>8, <1>9 DEF Edge, CommitEdge, Records
  <2>2. CsrState(in) = NoRecord
      BY <1>1, <1>3, RecordOf
  <2> QED
      BY <2>1, <2>2 DEF Captured, NoRecord, Serializing
<1>11. ~writing'
    BY <1>1, <1>2, <1>8, Calm DEF Edge, CommitEdge, Recorded
<1>12. ex.at = Nowhere => ~accept
    BY <1>2 DEF EntryInv
<1>13. FenceInv' /\ EffectInv' /\ RecordInv' /\ EntryInv'
    BY <1>1, <1>6, <1>8, <1>10, <1>11, <1>12, EmptiedOrder
<1>14. Oldest' = Younger
    BY <1>3, <1>6, <1>7 DEF Oldest, Younger, Front
<1>15. OrderEffects' = Counted
  <2>1. ~ex.done /\ ~CsrDone(in)
      BY <1>2, <1>3, CsrWrites DEF EffectInv
  <2>2. Early' = IF ex.done \/ CsrDone(in) THEN 1 ELSE 0
      BY <1>7, <2>1 DEF Early
  <2> QED
      BY <1>1, <1>2, <1>3, <2>2, EffectsLeave
<1>16. OrderEpc' = OrderEpc /\ OrderEnabled' = OrderEnabled
    BY <1>1, <1>2, <1>3, Uneventful
<1> QED
    BY <1>2, <1>3, <1>6, <1>13, <1>14, <1>15, <1>16, Retirement

-----------------------------------------------------------------------------
(* The refinement. *)

\* Every edge keeps the invariant and is a step of Order or none.
LEMMA ClockOrder ==
    ASSUME Inv, OrderInv, NEW in \in Inputs, Clock(in)
    PROVE  OrderInv' /\ (Order!OrderNext \/ UNCHANGED Order!orderVars)
<1>1. code' = code /\ world' = world
    BY DEF Clock, Return, Trap, Drain, PageFault, Hold, Advance, Edge
<1>2. Ordered(code, world)'
    BY <1>1 DEF OrderInv, Ordered, Redirecting
<1>3. CASE Return(in)
  <2>1. Flush(in, epc) /\ Edge(in) /\ Executing = "xret" /\ ~Capture(in)
      BY <1>3 DEF Return, ReturnNow, Capture
  <2> QED
      BY <1>2, <1>3, <2>1, FlushStages, ReturnStep DEF OrderInv
<1>4. CASE Trap(in)
  <2>1. Flush(in, Vector) /\ Edge(in) /\ ~Capture(in) /\ (Executing = "fencei" => fenced)
      BY <1>4, TrapStages
  <2> QED
      BY <1>2, <1>4, <2>1, FlushStages, TrapStep DEF OrderInv
<1>5. CASE Drain(in)
    BY <1>2, <1>5, DrainStep DEF OrderInv
<1>6. CASE PageFault(in)
  <2>1. /\ Flush(in, Vector) /\ Edge(in) /\ Records(in) /\ ~Capture(in)
        /\ Executing = "fencei" => fenced
        /\ DataFault \/ (FetchFault /\ mem.at = Nowhere)
      BY <1>6, PageFaultStages
  <2> QED
      BY <1>2, <2>1, FlushStages, FaultStep DEF OrderInv
<1>7. CASE Hold(in)
    BY <1>2, <1>7, HoldEffects, HoldRecord, HoldEntry, HoldStep DEF OrderInv
<1>8. CASE Advance(in)
    BY <1>2, <1>8, AdvanceEffects, AdvanceRecord, AdvanceStep DEF OrderInv
<1> QED
    BY <1>3, <1>4, <1>5, <1>6, <1>7, <1>8 DEF Clock

\* The pipeline starts empty, where Order starts.
LEMMA InitOrder ==
    ASSUME Orderly, Init PROVE OrderInv /\ Order!OrderInit
<1>1. Ordered(code, world)
  <2>1. PICK case \in Cases : code = case.code /\ world = case.world
      BY DEF Init
  <2> QED
      BY <2>1 DEF Orderly
<1>2. /\ ex = Bubble /\ mem = NoMemory /\ decode = Nowhere /\ pc = 0 /\ commit = NoCommit
      /\ ~accept /\ ~fenced /\ ~writing /\ epc = 0 /\ enabled = TRUE /\ effects = 0
    BY DEF Init
<1>3. ex.at = Nowhere /\ mem.at = Nowhere /\ ~ex.done /\ ~mem.done /\ mem.data = "none"
    BY <1>2 DEF Bubble, NoMemory
<1>4. Executing = "none" /\ Accessing = "none"
    BY <1>2, <1>3 DEF Executing, Accessing, Doing
<1>5. ~commit.fire /\ ~Serializing
    BY <1>2 DEF NoCommit, Serializing
<1>6. OrderInv
    BY <1>1, <1>2, <1>3, <1>4, <1>5 DEF OrderInv, FenceInv, EffectInv, RecordInv, EntryInv
<1>7. Oldest = 0 /\ OrderEpc = 0 /\ OrderEffects = 0 /\ OrderEnabled = TRUE
    BY <1>2, <1>3, <1>5 DEF Oldest, OrderEpc, OrderEnabled, Recorded, OrderEffects, Early
<1> QED
    BY <1>6, <1>7 DEF Order!OrderInit, OrderEpc, OrderEnabled, OrderEffects

\* Instructions leave in program order, each store and CSR write is performed exactly
\* once, and a trap, an interrupt, a page fault or a return takes the place of exactly one
\* instruction, which is the one epc names: for any memory and orderly programs of any
\* length, however long caches, MMUs and multiplier take.
THEOREM ProgramOrderHolds ==
    ASSUME Orderly PROVE Spec => ProgramOrder
<1>1. Fetchable
    BY DEF Orderly, Ordered, Fetchable
<1>2. Spec => []Inv
    BY <1>1, InvariantHolds
<1>3. Init => OrderInv /\ Order!OrderInit
    BY InitOrder
<1>4. Inv /\ OrderInv /\ [Next]_vars => OrderInv' /\ [Order!OrderNext]_(Order!orderVars)
  <2> SUFFICES ASSUME Inv, OrderInv, [Next]_vars
               PROVE  OrderInv' /\ [Order!OrderNext]_(Order!orderVars)
      OBVIOUS
  <2>1. CASE Next
      BY <2>1, ClockOrder DEF Next
  <2>2. CASE UNCHANGED vars
    <3>1. /\ UNCHANGED <<code, world, pc, valid, immu, buffer, decode, ex, mem, reg, commit>>
          /\ UNCHANGED <<writing, accept, fenced, epc, enabled, effects, writer>>
        BY <2>2 DEF vars, front, back
    <3>2. /\ Executing' = Executing /\ Accessing' = Accessing
          /\ Serializing' = Serializing /\ Match' = Match
          /\ OrderEpc' = OrderEpc /\ OrderEnabled' = OrderEnabled
          /\ OrderEffects' = OrderEffects /\ Oldest' = Oldest
        BY <3>1 DEF Executing, Accessing, Doing, Serializing, Match,
                    OrderEpc, OrderEnabled, OrderEffects, Oldest, Recorded, Early
    <3>3. Ordered(code, world)'
        BY <3>1 DEF OrderInv, Ordered, Redirecting
    <3>4. OrderInv'
        BY <3>1, <3>2, <3>3 DEF OrderInv, FenceInv, EffectInv, RecordInv, EntryInv
    <3>5. UNCHANGED Order!orderVars
        BY <3>1, <3>2, Stutter
    <3> QED
        BY <3>4, <3>5
  <2> QED
      BY <2>1, <2>2
<1> QED
    BY <1>2, <1>3, <1>4, PTL DEF Spec, ProgramOrder, Order!OrderSpec
=============================================================================
