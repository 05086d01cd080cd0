------------------------------ MODULE Fifo2clk ------------------------------
(***************************************************************************)
(* Fifo2clk (examples/cdc/Fifo2clk.h): a FIFO between two unrelated clocks. *)
(* Each domain sends its pointer to the other as a Gray code through two    *)
(* synchronizer registers; full and empty are decided from the synchronized *)
(* copies alone.                                                            *)
(*                                                                          *)
(* An edge of a clock is _work_<clock> followed by _strobe_<clock>;         *)
(* coincident edges are both works followed by both strobes.  The native    *)
(* simulation then samples the old value of the other domain's register,    *)
(* the generated hardware each bit of it either old or new: the coincident  *)
(* edge below allows every such word.                                       *)
(***************************************************************************)
EXTENDS Integers, Sequences

CONSTANTS
    Item,           \* the values of write_data_in
    NoItem,         \* a row of data_mem that was never written
    AddrBits        \* ADDR_BITS: 4 in the code

ASSUME AddrBitsAssumption == AddrBits \in Nat \ {0}
ASSUME NoItemAssumption == NoItem \notin Item

DEPTH == 2 ^ AddrBits
Row == 0 .. DEPTH - 1
Pointer == 0 .. 2 * DEPTH - 1       \* u<PTR_BITS>
Bit == 0 .. AddrBits
Word == [Bit -> BOOLEAN]            \* a Gray-coded u<PTR_BITS>

VARIABLES
    data_mem,
    write_bin, write_gray, read_gray_write1, read_gray_write2,
    read_bin, read_gray, write_gray_read1, write_gray_read2,
    taken,                      \* read_data_out of the last transfer
    fifoReset, writeCleared, readCleared    \* reset, and the edges seen in it

writeRegs == <<write_bin, write_gray, read_gray_write1, read_gray_write2>>
readRegs == <<read_bin, read_gray, write_gray_read1, write_gray_read2>>
fifoVars == <<data_mem, writeRegs, readRegs, taken, fifoReset, writeCleared, readCleared>>

BitOf(n, b) == (n \div 2 ^ b) % 2

\* Mutant of Gray: the pointer crosses in binary.
Binary(n) == [b \in Bit |-> BitOf(n, b) = 1]

\* next ^ (next >> 1)
Gray(n) == [b \in Bit |-> BitOf(n, b) # BitOf(n, b + 1)]

FifoInit ==
    /\ data_mem = [r \in Row |-> NoItem]
    /\ write_bin = 0 /\ read_bin = 0
    /\ write_gray = Gray(0) /\ read_gray = Gray(0)
    /\ read_gray_write1 = Gray(0) /\ read_gray_write2 = Gray(0)
    /\ write_gray_read1 = Gray(0) /\ write_gray_read2 = Gray(0)
    /\ taken = NoItem
    /\ fifoReset = FALSE /\ writeCleared = FALSE /\ readCleared = FALSE

\* Mutant of full_gray: only the top bit is inverted, as for a binary pointer.
full_binary == [read_gray_write2 EXCEPT ![AddrBits] = ~@]

\* read_gray_write2 with its top two bits inverted.
full_gray == [b \in Bit |-> IF b >= AddrBits - 1 THEN ~read_gray_write2[b]
                                                 ELSE read_gray_write2[b]]

write_ready_out == write_gray # full_gray
read_valid_out == read_gray # write_gray_read2
read_data_out == data_mem[read_bin % DEPTH]

Advance(p) == (p + 1) % (2 * DEPTH)

-----------------------------------------------------------------------------
(* _work_write_clk(reset) and its strobe; offer is what the producer drives  *)
(* on write_valid_in and write_data_in, sampled what the first synchronizer  *)
(* register sees of read_gray.                                               *)

WriteClear ==
    /\ write_bin' = 0
    /\ write_gray' = Gray(0)
    /\ read_gray_write1' = Gray(0)
    /\ read_gray_write2' = Gray(0)

Writes(offer) == offer # NoItem /\ write_ready_out

NextWriteBin(offer) == IF Writes(offer) THEN Advance(write_bin) ELSE write_bin

\* The row is written whether or not the registers are cleared by reset.
WriteRow(offer) ==
    data_mem' = IF Writes(offer)
                THEN [data_mem EXCEPT ![write_bin % DEPTH] = offer] ELSE data_mem

\* Mutant of WriteAdvance: the second synchronizer register is not loaded.
WriteAdvanceDeaf(offer, sampled) ==
    /\ read_gray_write1' = sampled
    /\ UNCHANGED read_gray_write2
    /\ write_bin' = NextWriteBin(offer)
    /\ write_gray' = IF Writes(offer) THEN Gray(NextWriteBin(offer)) ELSE write_gray

WriteAdvance(offer, sampled) ==
    /\ read_gray_write1' = sampled
    /\ read_gray_write2' = read_gray_write1
    /\ write_bin' = NextWriteBin(offer)
    /\ write_gray' = IF Writes(offer) THEN Gray(NextWriteBin(offer)) ELSE write_gray

WriteWork(offer, sampled) ==
    /\ WriteRow(offer)
    /\ IF fifoReset THEN WriteClear ELSE WriteAdvance(offer, sampled)
    /\ writeCleared' = fifoReset

(* _work_read_clk(reset) and its strobe. *)

Reads(ready) == ready /\ read_valid_out

NextReadBin(ready) == IF Reads(ready) THEN Advance(read_bin) ELSE read_bin

ReadClear ==
    /\ read_bin' = 0
    /\ read_gray' = Gray(0)
    /\ write_gray_read1' = Gray(0)
    /\ write_gray_read2' = Gray(0)
    /\ taken' = NoItem

\* Mutant of ReadAdvance: the second synchronizer register is not loaded.
ReadAdvanceDeaf(ready, sampled) ==
    /\ write_gray_read1' = sampled
    /\ UNCHANGED write_gray_read2
    /\ read_bin' = NextReadBin(ready)
    /\ read_gray' = IF Reads(ready) THEN Gray(NextReadBin(ready)) ELSE read_gray
    /\ taken' = IF Reads(ready) THEN read_data_out ELSE taken

ReadAdvance(ready, sampled) ==
    /\ write_gray_read1' = sampled
    /\ write_gray_read2' = write_gray_read1
    /\ read_bin' = NextReadBin(ready)
    /\ read_gray' = IF Reads(ready) THEN Gray(NextReadBin(ready)) ELSE read_gray
    /\ taken' = IF Reads(ready) THEN read_data_out ELSE taken

ReadWork(ready, sampled) ==
    /\ IF fifoReset THEN ReadClear ELSE ReadAdvance(ready, sampled)
    /\ readCleared' = fifoReset

-----------------------------------------------------------------------------
(* Clock edges and reset. *)

WriteEdge ==
    /\ \E offer \in Item \cup {NoItem} : WriteWork(offer, read_gray)
    /\ UNCHANGED <<readRegs, taken, fifoReset, readCleared>>

ReadEdge ==
    /\ \E ready \in BOOLEAN : ReadWork(ready, write_gray)
    /\ UNCHANGED <<data_mem, writeRegs, fifoReset, writeCleared>>

\* Each bit of the sample is the value before or after the edge.
Samples(old, new) == {w \in Word : \A b \in Bit : w[b] \in {old[b], new[b]}}

CoincidentEdge ==
    /\ \E offer \in Item \cup {NoItem}, ready \in BOOLEAN :
          /\ \E w \in Samples(read_gray, Gray(NextReadBin(ready))) : WriteWork(offer, w)
          /\ \E w \in Samples(write_gray, Gray(NextWriteBin(offer))) : ReadWork(ready, w)
    /\ UNCHANGED fifoReset

\* Reset is common to both sides and held until each has had an edge.
RaiseFifoReset ==
    /\ ~fifoReset
    /\ fifoReset' = TRUE
    /\ writeCleared' = FALSE /\ readCleared' = FALSE
    /\ UNCHANGED <<data_mem, writeRegs, readRegs, taken>>

LowerFifoReset ==
    /\ fifoReset /\ writeCleared /\ readCleared
    /\ fifoReset' = FALSE
    /\ writeCleared' = FALSE /\ readCleared' = FALSE
    /\ UNCHANGED <<data_mem, writeRegs, readRegs, taken>>

FifoNext == WriteEdge \/ ReadEdge \/ CoincidentEdge \/ RaiseFifoReset \/ LowerFifoReset

(***************************************************************************)
(* Both clocks run for ever; neither producer nor consumer need do          *)
(* anything, so an edge is asked for only where it has news to bring.       *)
(***************************************************************************)
WriteStale ==
    IF fifoReset THEN ~writeCleared
    ELSE ~(read_gray = read_gray_write1 /\ read_gray_write1 = read_gray_write2)

ReadStale ==
    IF fifoReset THEN ~readCleared
    ELSE ~(write_gray = write_gray_read1 /\ write_gray_read1 = write_gray_read2)

FifoFairness ==
    /\ WF_fifoVars(WriteStale /\ (WriteEdge \/ CoincidentEdge))
    /\ WF_fifoVars(ReadStale /\ (ReadEdge \/ CoincidentEdge))

FifoSpec == FifoInit /\ [][FifoNext]_fifoVars /\ FifoFairness

-----------------------------------------------------------------------------
(* Properties. *)

Fill == (write_bin - read_bin) % (2 * DEPTH)

\* Whatever the synchronizers hold is the code of a pointer the other side has
\* had since its reset, in order: the copies of read_bin lie between read_bin
\* and write_bin - DEPTH, those of write_bin between read_bin and write_bin, and
\* the second register is never ahead of the first.
DistanceTo(p, to) ==
    CHOOSE d \in 0 .. 2 * DEPTH - 1 : Gray((to - d) % (2 * DEPTH)) = p

SynchronizersLag ==
    ~fifoReset =>
        /\ DistanceTo(read_gray_write1, read_bin) <= DistanceTo(read_gray_write2, read_bin)
        /\ DistanceTo(read_gray_write2, read_bin) + Fill <= DEPTH
        /\ DistanceTo(write_gray_read1, write_bin) <= DistanceTo(write_gray_read2, write_bin)
        /\ DistanceTo(write_gray_read2, write_bin) <= Fill

\* The items accepted and not yet read come out once each and in order, no item
\* is accepted into a full buffer and none taken from an empty one.
Buffer == INSTANCE BoundedFifo WITH
    None <- NoItem,
    Capacity <- DEPTH,
    queue <- IF fifoReset THEN <<>>
             ELSE [i \in 1 .. Fill |-> data_mem[(read_bin + i - 1) % DEPTH]],
    got <- IF fifoReset THEN NoItem ELSE taken

BufferSpec == Buffer!Spec

\* An accepted item becomes visible to the reader, and a row that was read
\* becomes usable to the writer, unless reset intervenes.
ItemArrives == (Fill > 0 ~> read_valid_out \/ fifoReset)
RowReturns == (Fill < DEPTH ~> write_ready_out \/ fifoReset)
=============================================================================
