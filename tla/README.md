# Formal models of cpphdl's concurrent parts

cpphdl is a C++ library and tool set for hardware design: modules written in C++
are simulated natively (`include/`), converted to SystemVerilog (`cpphdl.cpp`,
`Module.cpp`, `Expr.cpp`, ...), imported from it (`hdlcpp/`), synthesized
(`synth/`, `hls/`) and used to build a RISC-V processor, Tribe (`tribe_cpu/`).
Most of it is sequential translation of text. This project models the parts
whose correctness depends on the order in which several actors act: the worker
threads that evaluate one graph in parallel, the hardware that crosses clock domains
or shares a bus, the caches that keep several cores on one memory, and the pipeline
of a core, where the actors are the instructions in flight.

## Inventory

| Part | State | Operations | Interacts with | Hard behaviour | What makes it correct |
|---|---|---|---|---|---|
| `graph_runtime::Threads` (`include/cpphdl_graph_threads.h`) | mutex, job metadata, `epoch_`, a command and a completion stamp per lane, a stamp per task, worker threads | constructor, `run` with a continuation, `runTasks`, `wait`, `complete`, destructor | generated evaluators (`cpphdl_graph_native.h`), `Batch`, shared by models | threads parking on atomics, exceptions on either side of a join, wrapping stamps, construction that fails half-way | each requested lane evaluated once with the job of the open transaction; nobody sleeps over a notification; no caller leaves before its lanes are idle |
| `Batch` (`include/cpphdl_graph_batch.h`) | counter of claimed jobs, first exception | `run`, static and dynamic | `Threads` or a `GraphExecutor` | racing claims, exceptions of several lanes | each job once; an exception reported exactly when a job threw, and it is the one that was caught first |
| `Fifo2clk` (`examples/cdc/Fifo2clk.h`) | rows, binary and Gray pointers, two synchronizers each way | write edge, read edge, reset | producer and consumer of unrelated clocks | sampling a pointer as it changes, pointers that wrap, full and empty from stale copies | a FIFO of `DEPTH` items |
| `L1MemFastToSlowCdc` (`tribe_cpu/cache/L1MemCdc.h`) | payload and toggles of each domain | `_work_clk`, `_work_l2_clock`, reset | L1 cache or MMU above, L2 below | withdrawal of a request under way, coincident edges, bundled data without a handshake of its own | each request performed once, its answer only to the requester that still holds it |
| AXI bridges (`tribe_cpu/common/Axi4Cdc.h`) | five toggle mailboxes each way, `aw_seen`/`ar_seen` | as above, per channel | memory and device buses | a master that keeps its address valid; channels with different latencies | no beat lost, repeated or overtaken |
| `Axi4RegionMux` (`tribe_cpu/common/Axi4RegionMux.h`) | target of the transfer under way | combinational routing | L2, devices | decode at acceptance, data and response later | a response comes from the slave that took the address |
| PLIC, CLINT (`tribe_cpu/devices/`) | gateways, priorities, claims; `mtime`, `mtimecmp` | register writes, claim, completion, tick | the bus, `InterruptController` | claim, completion and a new level in one cycle; 64-bit compare written in halves | one delivery per claim; a level is not lost |
| Buffers and memories (`lib/basic`, `lib/memory`, `include/cpphdl_memory.h`) | rows, pointers, output registers, pending writes | push, pop, clear; scheduled writes | every design | clear together with a write; several writes to a row in a cycle | a FIFO; a memory |
| Native plan, evaluator (`include/cpphdl_graph_native.h`) | lanes of nodes, dependencies between them | partition, code emission | `Threads` | waits between lanes pinned to threads | waits acyclic, every edge honoured |
| Pending events (`include/cpphdl_graph_events.h`) | bit sets per lane | merge, drain | the evaluator | an event raised as its set is drained | no event lost |
| L1 data cache (`tribe_cpu/cache/l1`) | tags with two epochs, lines, the selected line, the request under way, a beat counter | load, direct load, store, refill, snoop, invalidation, the walk that clears the tags | core above, mailbox below, announcements of the cluster | a peer's store in the middle of a lookup or a refill, epochs that wrap, a request withdrawn after it was performed | a load is not older than what was announced to the core, what it stored or what it loaded; every request is answered |
| L2 cache (`tribe_cpu/cache/l2`) | tags, lines, one request, its pipeline register, the slave's seen addresses, round robin | arbitration, lookup, eviction, refill, direct, outside and uncached accesses, the AXI slave side | mailboxes of all cores, a coherent AXI master, the region multiplexer below | write back against refill, a store into a miss, a line that is dirty under a direct access, a valid held after its handshake | one memory under all ports; each access performed once |
| Cluster (`tribe_cpu/TribeTestModule.h`) | the store of each core that was answered last | announcement of stores to the other cores, readiness for an invalidation from outside | every core, the devices that write memory | two stores at once, a device that writes while loads are under way | every store that another core may have cached is announced to it |
| Pipeline (`tribe_cpu/Tribe.h`, `CSR.h`, `WritebackMem.h`) | fetch address and buffer, stage registers, results of the MMUs, the retirement record, CSRs, a captured interrupt | one edge: hold, advance, trap, return, page fault, drain | caches and MMUs, the interrupt controller, other harts' FENCE.I | stalls, flushes, records and page faults on one edge; an interrupt while a load is under way | instructions one after another, each effect once, `epc` exact, operands current, no deadlock |
| MMU walks, predictor (`tribe_cpu/*.h`) | TLBs, a walk, counters | lookup, walk | caches | walks that share the data cache | translation |
| Devices (`tribe_cpu/devices/`: UART, SD, Ethernet) | registers, FIFOs, DMA rings | register access, line protocol | bus, PLIC | rings shared with software | no frame lost |
| Registers, modules, value types (`include/cpphdl_reg.h`, ...) | committed and next value | assignment, `strobe`, `clr` | everything | reads after `clr` | two-phase update |
| Converters, synthesis, HLS, analog | syntax trees, netlists, equations | translations | files | none concurrent | semantics preserved |

The components, with their files and whether they are modelled, are in
`PROJECT.json`; the places in the code where something can go wrong that a test
would hardly reach are its `hazards`.

## Modules

| Module | Kind | Code |
|---|---|---|
| `ForkJoin` | abstract transaction: open, evaluate each lane once, close | what `Threads::run` promises |
| `Threads` | the pool, one action per access to a shared location | `Threads`: constructor, `run`, `worker`, `stop`, destructor |
| `TaskPool` | extends `ForkJoin` with the lane functions that share out jobs | `Threads::runTasks`, `Batch::run` |
| `TaskSlots` | extends `ForkJoin` with waits between the lanes | `Threads::wait`, `Threads::complete` |
| `MemChannel` | abstract memory port, one request outstanding, withdrawal | what the mailbox promises |
| `L1MemCdc` | the mailbox, one action per combination of clock edges | `L1MemFastToSlowCdc` |
| `BoundedFifo` | abstract FIFO | what a FIFO promises |
| `Fifo2clk` | the two-clock FIFO, bit by bit where a pointer crosses | `Fifo2clk` |
| `ToggleMailbox` | operators: one edge of either side of a toggle mailbox | a channel of `Axi4Cdc.h` |
| `Mailbox` | one channel between a sender and a receiver that do as they like; `CdcProofs` proves it a queue of one beat | AW, W, B, AR or R of a bridge |
| `Axi4RegionMux` | operators: decoding and routing of one path of the multiplexer | `Axi4RegionMux` |
| `Axi4Cdc` | the channels of a write or of a read, with the gate, without it, or without it and in front of the multiplexer; a master and the targets | `Axi4FastToSlowCdc`, `Axi4SlowToFastCdc`, `Axi4RegionMux`, `Axi4Ram` |
| `SharedMemory` | abstract memory under several ports: each request performed once between question and answer | what the L2 promises |
| `L2Cache` | the L2, one action per edge of `l2_clock`, named for the state it leaves | `L2CacheController`, `L2CacheRequest`, `L2CacheTagData`, `L2CacheMemory`, `L2CacheWait` |
| `L1Coherence` | the data cache of one core, one action per edge of `clk`, with the stores of the other cores, the devices and the readiness of the cluster | `L1CacheController`, `L1CacheRequest`, `L1CacheLookup`, `L1CacheRefill`, `L1CacheResponse`, the announcements of `TribeTestModule` |
| `InOrder` | abstract processor: instructions, traps, interrupts and returns one after another | what the pipeline promises |
| `Pipeline` | the pipeline of one core, one action per branch of `Tribe::_work`; a step is a clock edge | `Tribe`, the retirement boundary of `CSR`, `WritebackMem` |
| `Plic` | the interrupt controller, its bus and the harts that claim and complete | `PLIC` |
| `ThreadsProofs`, `L1MemCdcProofs`, `CdcProofs`, `PlicProofs`, `PipelineProofs`, `TaskProofs`, `L2CacheProofs`, `L1CoherenceProofs` | proofs | |
| `MC*` | values of constants for TLC | |

### Worker pool

`Threads` has three kinds of thread: callers (inside `run`), workers (inside
`worker`) and the host that constructs and destroys the pool. `cpc`, `wpc` and
`hpc` are their program counters, the other variables keep the names of the code
without the underscore. An action is one access to shared state with the local
work up to the next one. Stamps count modulo `StampMod`.

- `waitFor` and the loop of `worker` first spin on the slot; a spin that sees no
  change is stuttering, so the models keep only the load that ends the wait and
  the one that starts the parking. `atomic::wait` compares, blocks, and may return
  spuriously; comparison and blocking are one step, as the standard has it.
- `notify_one` and `notify_all` are steps of their own after the stores they
  follow, since another thread may run between.
- Acquire and release order everything that is read relaxed: `model_`,
  `function_` and `epoch_` are published by the stamp of a command, `stopping_`
  too, so interleaving is the whole memory model.
- A lane function does not throw (it is `noexcept`); the continuation may, and
  its exception is kept until the lanes are joined. A constructor that fails on
  its k-th thread ends those it started.

`TaskPool` and `TaskSlots` use `ForkJoin` in place of `Threads`. That is sound
because `Threads` is proved to implement the steps of `ForkJoin`: whatever holds
for lane functions started, run beside each other and finished as `ForkJoin`
allows holds when `Threads` runs them. `ForkJoin`'s liveness is used only as
fairness per lane (each lane has a thread of its own).

### Two-clock hardware

A step is an edge of one clock, of the other, or of both together: `_work` of
the domain reads the committed registers, its `strobe` then commits the next
values; when both edges coincide, both `_work`s run before either `strobe`.
Clocks have no ratio and no phase: any interleaving of edges may occur. Reset
may come in any state, is common to both sides, and is held until both have had
an edge, as the test benches hold it.

In `Fifo2clk` the coincident edge is modelled as the hardware meets it: each bit
of the sampled pointer is either old or new. The native simulation is the case
where every bit is old. The payload of `L1MemCdc` is not synchronized at all; the
model checks (`BundleStable`) that it is never sampled on an edge where it
changes.

The L1 is the environment of `L1MemCdc`: it holds a request until `wait_out`
drops, presents another at once, or withdraws (a flush). A withdrawn request is
gone for at least one edge, which is the "explicit withdrawal" that the comment
above `wait_out` allows (`L1MemCdc.h:60`). A request stands for operation, address,
data, mask and cacheability; the answer of the L2 to it is the same identity.

The bridges of `Axi4Cdc.h` are five toggle mailboxes each, with the same registers
in every channel. `ToggleMailbox` says what one edge of one side does to its
registers; `Mailbox` puts a single channel between free neighbours, and `Axi4Cdc`
composes the channels of one path. The write path (AW, W, B) and the read path (AR,
R) of a bridge share no register, so they are checked apart: a behaviour has one of six
modes, a path of a write or of a read behind the gate of `Axi4FastToSlowCdc`, without
it, as in `Axi4SlowToFastCdc`, or without it in front of `Axi4RegionMux` with two
targets. In the last the target is decoded when the multiplexer accepts the address, and the
data and the response follow the registers of that acceptance (`MuxEdge`); data may
reach it before its address is accepted, and waits.

A transaction in `Axi4Cdc` stands for its address and id; the data of a write and the
response are the same identity, so joining the wrong ones shows. The master
is any of those in the repository: with the gate it may leave its address valid after
acceptance (as `EthGigDMA` does until the response), and even beyond it, or drop it at once (as
`Accelerator` and `SDController` do); it sends data after the address. It
does not show the same address for two transactions in a row without an edge
between them on which the address is not valid: the gate would take the second for
the first, and every master of the repository drops the address in between. The bus
has one beat per transaction, which is why the first R beat may clear the
outstanding flag. The responder takes the data with the address (as the L2 may) or
after it (as `Axi4Ram` does), performs, and answers.

`write_outstanding_fast_reg` and `aw_seen_fast_reg` are not two guards of one hazard:
the first falls with the response, the second keeps an address that is still valid
then from being accepted again.

### Interrupt controller

A step of `Plic` is one clock edge: the gateways sample the levels, and the bus may
accept a claim read (`ar`), the address of a write (`aw`) and its data (`w`). `_work`
builds every next value from the committed registers, and where it assigns a register twice
the later assignment wins; `Occupy` keeps both, in their order. `pending_reg`
and `gateway_busy_reg` are sets of sources, the constant `MaxPriority` bounds what is written
to a priority. Reads other than a claim change nothing and are left out. The levels change
freely at every edge.

`Parallel` tells whether the bus may carry a read and a write at once. The ports of the
PLIC allow it; the L2, its only master, ends an uncached access before it begins another
(`ST_IO_AW` to `ST_IO_R_RESULT`, `L2CacheController.h:848-891`) and takes a
response when it is there. A hart completes only what it has claimed, as the handlers in
`tribe_cpu/code` do; `serving` records what each hart has claimed and not completed.

### Caches

**L2.** `L2Cache` follows `L2CacheController`: an action is one edge of `l2_clock`
and is named for the state that the edge leaves, so an access takes as many steps
as it does in the code, and every other requester moves in between. Requests of the cores rise
between two edges and are held, as the mailbox holds them; a CPU response is shown for one
clock. A place is one word of one line. `golden` is the memory that the agents believe in: it
changes at the moment an access counts as performed (hit, last beat of a refill, access
to a device). `ram` are the tag and data RAMs, `memory` is what is behind `axi_out`.
The template parameters (`Shapes`) are chosen in `Init`, so one run covers several
geometries. On the slave side `slave_aw_seen_reg`, `slave_ar_seen_reg` and the novelty registers are
modelled as they are registered: novelty lags what the master drives by an edge, and a master
may hold its valid until the response or drop it at the handshake. It shows a new address, or
none for an edge, before it asks again.

Left out of `L2Cache`, because nothing in the repository drives it: the allocation
sideband `dma_line_*` (tied off, `doc/tribe_cpu.md:461`, `TribeTest.h:783`,
`SoC/System.cpp:171`), hence `ST_READ` and `ST_DONE`; and a store that spills into the
next line (`ST_CROSS_WRITE_*`, `L2CacheController.h:661-710`), which the core splits
before it stores (`ExecuteMem.h:101-118`). `Reliable` says what the asker of a load may
rely on: a data load that ends its line promises its own word only.

**L1.** `L1Coherence` has one core in detail, because private caches meet only
in memory and through the pulses of the cluster. A word of memory is the number of
stores performed on it, so "older" is a comparison. The port is `MemChannel`, the abstract
channel `L1MemCdc` is proved to implement, with the performing of the request placed on the edge that
makes its answer visible. Tags and data RAMs are one record `ram`: a line counts only while
its tag does. `tag_epoch_reg`, `tag_set_epoch_reg` and `epoch_wrap_pending_reg` are as
in the code, with `Epochs` values where it has 256. `held` is what the request has collected
so far: the outputs of the RAMs as they were read, then the selected way, or the beats of a
refill; a snoop between two of those states finds the request through its address.

The cluster is in the same module. A peer's store has been performed and its answer thrown
away ("withdrawn"), is answered, or is announced; one at a time is a snoop of its line, two in
one cycle are an invalidation of the whole cache (`Flood`). A device writes memory
on edges of its own, and its driver pulls the external invalidation when every core is ready
(`Ready`). `floor` and `performed` are history: the least version that a load of
a word may return, and how often the core's present store was performed. A direct load
(odd address or atomic) reads memory and may therefore be ahead of an announcement that is still to
come; `Settled` keeps such a value out of `floor`.

### Pipeline

`Pipeline` has one core. A step is one clock edge; its action is the branch of `Tribe::_work`
that the edge takes (`Return`, `Trap`, `Drain`, `PageFault`, `Hold`, `Advance`, in the order of
the code), and what every edge does besides is in `Edge` and `Move`. The wires that decide are
operators named for the code's: `MemoryWait` is `memory_wait_comb`, `EntryWait`
`interrupt_entry_wait_comb`, `Records` the conditions under which the retirement record is
captured. What comes from outside before the edge (answers of caches and MMUs, the multiplier, the
interrupt request, a branch decision, FENCE.I of another hart) is a record drawn from `Inputs`, where an
input that the state cannot tell apart has one value.

The data are reduced to identities. An instruction is its address and its kind; there is one
register, which holds the address of the instruction that wrote it, and every kind that reads reads
it; every access has an address of its own, so a translation is never shared. Memory, its
translation and its answers are `mem.xlat` and `mem.data`. Sequential fetch is
`Follow`, a taken branch goes to `Target`. `interrupt_entry_guard_reg` is left out: it is set
only with an empty execute stage and falls on the next edge, so it blocks nothing.

`code` and `world` are drawn in `Init` from `Cases`: a program and what surrounds the core
(interrupts may come, translations may take time, the cache may be busy by itself, other harts
may ask for FENCE.I, addresses that cannot be fetched). A fetch of an unmapped word is a
trap for `InOrder`.

The refinement mapping (`Order`) names the oldest instruction in the pipeline as the next one to
execute. Two things run ahead of it or behind: a trap or a return is in its record before it is in the CSRs
(`Recorded`), and an effect may be performed by an instruction that has not left
(`Early`): a CSR record is captured while its instruction is held, a store is accepted on the edge before.
`effects` counts modulo 3, which tells none, one and two of the effects in flight apart.

The run `tribe_pipeline` speaks for `MCCases`, not for every program. `MCCases` leaves out the pairs of instruction kind and
surroundings under which the code does not keep `ProgramOrder`. Each was found by a run with the pair added, and then followed
through the code or its native simulation. Three contradict what the code says of itself word by word, and have runs of their
own that find the violation (see "What the ... runs show" below):

- CSR instructions with interrupts, with long walks, or with a cache that is busy by itself: `tribe_csr_twice`.
- A CSR instruction right behind another one, when a stall ahead brings the two together: `tribe_csr_pair`.
- A fetch fault in sequence, while decode holds an instruction or a load ahead of it waits: `tribe_fetch_fault`.

The others no run shows:

- A data fault with a multiplication, FENCE.I or a return behind it, with an interrupt captured,
  or with the cache busy: the record or the redirect of the younger instruction is taken in
  place of, or together with, the fault.
- A trap, a return or FENCE.I behind a store while snoops make the data cache busy:
  `dcache.write_in` falls (`:450`) and with it the wait that holds the store; the fall itself
  is what `l1_store_replay` shows from the side of the cache.
- FENCE.I of another hart drops the instruction that decode holds without moving the
  fetch address back (`Tribe.h:2571-2575`): only a local FENCE.I is restarted behind itself. So no case of the run has `remote`.

An accepted interrupt that meets an edge of the CSRs' own (`CommitWait`) is dropped; it is
taken again, since its level stays.

## Runs

| Run | Instance | Distinct states | Questions |
|---|---|---|---|
| `threads` | two callers, lane 0 and two workers, one-bit stamps | 31 668 | job of the right transaction, no lost wake-up, drain before return, `stop` ends, implements `ForkJoin` |
| `tasks` | three lanes. Jobs: tasks may use two lanes, 1 to 4 jobs, grain 1 to 3. Stages: a chain, a fan-out and a fan-in of waits, epoch below its wrap | 545 077 | claims disjoint, each job once, the first exception kept, call returns; a wait means completed, the stages end |
| `crossings` | L1 mailbox: six request identities. Bridge: write and read path, gated, not gated, and not gated in front of two devices; three addresses. FIFO: four rows, two items | 62 262 | own answer, stable bundle, held request ends, implements `MemChannel`; data meets its address at the right device, each transaction once, transactions end; copies lag in order, implements `BoundedFifo`, items arrive, rows return |
| `plic` | two harts, two sources, two priorities, threshold 0 | 94 208 | one server per source, a latched request stays, a level that stays is pending again |
| `l2_cache` | six geometries: one or two sets, ways, words, beats and cores | 261 052 | every line right in the cache or behind it, implements `SharedMemory`, requests end |
| `l2_cross_fetch` | the same | | finds the violation described below |
| `tribe_pipeline` | five words: programs of three instructions and a handler, in five surroundings, and of four in one; the kinds of `MCCases` only | 297 275 | implements `InOrder`, operands current, the core does not hang |
| `tribe_csr_twice` | programs of ALU and CSR instructions, long walks | | finds the violation described below |
| `tribe_csr_pair` | programs of four words that stall, CSR instructions next to each other | | finds the violation described below |
| `tribe_fetch_fault` | programs of ALU instructions and loads that run into an unmapped word | | finds the violation described below |
| `l1_coherence` | one set, one way, two lines of two beats, epochs of two values, two peers | 42 987 | loads never go back, a stale copy is still to be announced, requests end |
| `l1_store_replay` | the same, with one peer | | finds the violation described below |

`tasks` and `crossings` put models side by side that share no state: what a behaviour is about (`purpose`,
`crossing`) is chosen in its first state, and the variables of the rest stay as they were. So their distinct states are the sums of those of the
parts, and each property speaks of its own part. `tasks` does not check for deadlock, because a caller stops opening
transactions at `MaxEpoch`.

Bounds. Two callers are enough to have one transaction follow another's leftover
and to contend for the mutex; two workers to have one late while the other is
early; one-bit stamps make every lane wrap at its second command, and a stamp that
is right modulo 2 is right modulo 2^32. Three lanes and four jobs cover fewer
jobs than lanes, as many, one more, and a division with a remainder, and grains
that divide the count, do not, and exceed what is left. The mailbox can carry
five identities at a time (held by the L1, in either payload register and in either
data register), so six leave a fresh one in every state. Four rows let the pointers wrap twice while
all rows are in use, as sixteen do; `full` looks at the two top bits of the code,
which four rows still keep apart from the others. Two items tell any order apart. A path has one transaction outstanding, so two addresses make the next one
equal to the last or not, which is all the gate compares, and with a third the next one of another
value is for the same device or the other. Two sources give a claim a choice
and a completion another source than the claim beside it; a priority of 0 or 1 above a
threshold of 0 gives both outcomes of their comparison (with a threshold of 1 besides, 409 600
states, the safety properties hold too; that instance is too long for the liveness). There
are no bounds on the length of a behaviour except `MaxEpoch` of `TaskSlots`, which
stops opening transactions before the epoch wraps, and `MaxVersion` of `L1Coherence`.

The L2 needs a set with fewer ways than lines (every shape has one), two beats to a line (refill and
eviction in pieces, a store into part of a refill), one beat of two words (a wide store), two
sets (the tag alone does not name the line), two ways (replacement), and two cores (round
robin, a device between them). `asks` bounds the requests outstanding at one time: two where
requesters race, one where the machine is the question. Two values tell a word from its successor.

The L1 has two lines in one set, so one replaces the other; two beats, so a refill can be
half done; two epoch values, so every second snoop wraps; two peers, because two
announcements at once take the path of their own. One store for each word (`MaxVersion`) is enough to have a
copy that is behind. `RequestEnds` needs the bound: the refill of a line that
others store to without end is aborted without end, which `L1CacheController.h:197-199` accepts. Larger instances were run once
for safety and passed: two stores per word on the words of both lines and of one line (1.56
and 1.51 million states), two sets (2.6 million), two ways (7.1 million).

Three free instructions put an access, its reader and the instruction that traps or branches into the
memory stage, execute and decode; the fourth word is the handler, the fifth returns,
and the loop back to 0 lets whatever was left in a register meet the next
round. Three are not enough for a stall that lets fetch catch up with a record that is released late, so
`Stalling` has four, of the kinds that stall and that are recorded. `ProgramOrderHolds` is about programs of
any length. Larger instances were run once and passed, liveness included: all three words free with interrupts
and walks (395 330 states), with snoops and interrupts (242 675), and with CSRs in
quiet surroundings (149 591).

Fairness. Threads: each thread that can step does (a preemptive scheduler), but
nobody is made to call `run`, to destroy the pool or to take the mutex, and no
spurious wake-up is assumed. Hardware: both clocks run and reset is released
(the L1 mailbox and the bridges; the properties of the FIFO end at a reset). An edge is required only
where the registers of that domain would move, so that fairness never forces the
L1 to withdraw, a producer to write, or a master to start a transaction or to drop its
address. Pipeline: the clock
runs, the caches and the MMUs answer, and an edge on which nothing outside makes the core wait or interrupts it
is not missed for ever (`Release`). The last is strong fairness, because the CSRs take two edges of
each record for themselves and such an edge would count as one on which the outside was quiet;
the wait inputs end one by one in the code (a refill, a walk, a multiplication of fixed
length), and interrupts are not pending on every edge. The L2 and the responders must not refuse a request for ever. Caches: in `L1Coherence` the
clock runs and the L2 answers; in `L2Cache` the clock runs and the bus does not stall for ever
(`Machine`), and a master sends the data of an address it has shown (`SendData`). Interrupts
(`plic`): the clock runs, a write whose address was accepted gets its data,
and a hart completes what it claimed; the last is strong fairness because the bus
may be taken by other accesses in between.

Every property of a passing run is paired with a mutant of one modelled
operation under `mutants` in `PROJECT.json`: a plausible bug (a dropped
comparison, a division without its remainder, a forgotten register) under which
the run finds the property violated. The mutated operators stand before the ones
they change, named in their comments; no specification uses them.

### What the cross-fetch run shows

"The shared L2 is the coherence point" (`doc/tribe_cpu.md:98`). An instruction whose word
crosses the end of a line is nevertheless fetched without a lookup: `L2CacheController.h:534` sends it to
`ST_CROSS_AR0`, which reads both words from backing memory, although either line may be dirty in the L2.
In the run a store leaves a line dirty and the fetch across its end returns the old word. A
program meets this when it writes code, stores the last halfword of a line and jumps to
it: `fence.i` drops the L1 but leaves the L2 dirty.

### What the store-replay run shows

"wait_out is the acceptance boundary for the write-through D-cache" (`Tribe.h:2085`), and the only
legal withdrawal is a flush (`L1MemCdc.h:59-61`). The core, however, drops its
store whenever the data cache becomes busy (`Tribe.h:450`). A peer's pulse that wraps the epoch of a set makes it
busy, while the store may already be performed in the L2. The mailbox throws the answer away, the core
presents the store again, and it is performed a second time. A store of another core between the two is lost.
The run has one peer, so the wrap is the only way to a busy cache: a first store of the peer moves the
epoch of the set, the second wraps it. The full invalidation, when two
peers are announced in one cycle, withdraws the store in the same way; an L2 that answers one request at a time makes it rarer.

### What the CSR runs show

"A held retirement record is not a second architectural event" (`Tribe.h:2095`). In `tribe_csr_twice` a
CSR instruction is in execute while the translation of the next fetch is under way. Its record is
captured, serializes for two edges and is released, but `memory_wait_comb` (`:1087`) still holds the
instruction; no record is held any more, so it is captured and fired a second time (`:2132`). A
captured interrupt, itself a reason for `memory_wait_comb` (`:1074`), and a data cache that snoops make busy (`:1095`) hold it in the same way.
It is kept for one hold only. FENCE.I is captured again while the instruction cache invalidates, which costs edges and has no effect.
`CsrOnce` says that a CSR instruction whose record has fired is not captured again before it leaves.

"The pipeline still presents the retiring CSR/system instruction on its release edge. ... clear it and let the
younger instruction enter on the following cycle" (`:2122-2125`): nothing is captured on that edge. But the
first instruction left execute when its record was captured; what execute presents is the younger one, which
`csr_commit_wait_comb` no longer holds (`:1011`) and which leaves on this edge. In `tribe_csr_pair` (csr, mul, csr, csr: while
the pipeline is held, fetch catches up and decode is full) it is a CSR instruction, has no record, and its
write is lost. In the native simulation of the code the second of two `csrw` is lost as well. `CsrPerformed` says that a CSR instruction
in the memory stage has had its record.

### What the fetch-fault run shows

"Drain one stage per cycle so loads and JAL/JALR links retire before the fault updates sepc and flushes the pipe"
(`Tribe.h:2301-2304`). The drain is taken only when nothing waits (`:2299-2300`). In `tribe_fetch_fault` a load waits for its
data when the fetch behind it faults: the branch of the page fault (`:2335`) comes before the one that holds, and
flushes the load. The drain itself also clears decode (`:2317`), with the instruction that is there.
`FetchFaultDrains` says that a fetch fault is taken with execute empty and behind a load whose value is there.

### Two conditions on the surroundings

Two properties hold only because of what surrounds the code, and the models say so in a
constant.

- `TaskSlots` stays below the wrap of the epoch. `Threads::wait` compares a slot with `epoch_`
  (`cpphdl_graph_threads.h:216`), which counts every transaction: with an epoch that wraps, a task
  that last completed exactly 2^32 transactions ago looks completed, and `WaitMeansCompleted` fails.
  The claim "Wraparound is safe" (`:78`) is made for the pairs of stamps of the workers, and is proved for
  them.
- `Plic` has `Parallel = FALSE`: one bus access at a time, as the L2 drives it. If a claim of one
  source and the completion of another meet on one edge, both write `gateway_busy_reg` from its old value
  (`PLIC.h:264`, `:328`), the claim is forgotten, and `ServedOnce` fails.

## Proofs

TLAPS checks the theorems for every number of callers and lanes and every stamp
width above one (`LanesAssumption`, `CallerAssumption`, `StampModAssumption`),
for any set of requests or payloads (`NoRequestAssumption`, `BeatAssumption`), and for any
harts, sources and levels (`PlicAssumption`), for any worker budget, number of jobs and grain
(`TaskWorkersAssumption`, `MaxAssumption`), and for any memory size, set of programs and surroundings
of the pipeline (`PipelineAssumption`), and for any number of sets, ways and words of the L2 and any ports
(`GeometryAssumption`: sizes are positive, a line is a whole number of beats, RAM has at most eight lines,
the window of the address map the model gives them; `NoneAssumption` of `L2Cache`), and for any
geometry, peers, bound on versions and number of epochs from two on of the L1 (`CacheAssumption`: no more sets than
lines of memory, as `L1CacheGeometry.h:59` asserts; `NoneAssumption` of `L1Coherence`), and for any addresses,
windows and kinds of path of a bridge (`ModeAssumption`, `RegionAssumption`: addresses are numbers and the
absence of one is none; the first window starts at 0), and for any items of the two-clock FIFO (`NoItemAssumption`) at
the width the code gives its pointers (`AddrBitsAssumption`, and `SizedAsInCode` as a hypothesis).

**Worker pool** (`ThreadsProofs`). `JobMetadata` and
`DrainBeforeReturn` are not inductive: nothing in them says that a worker which is
about to run was signalled by the caller that holds the mutex. `Inv` adds it in parts.

- `MutexInv`: a caller is inside `run` exactly while it holds the mutex, and the
  metadata are its own.
- `HostInv`: callers only between constructor and destructor, unborn
  workers only beyond the host's index.
- `StampInv`: a worker that has taken no command has seen all it completed, and
  the command it has taken is the outstanding one. This is where wrapping is
  harmless: only equality of two stamps that differ by at most one is used.
- `DispatchInv`: a command is outstanding only for a lane that the open
  transaction has signalled and not yet joined, or that was told to stop.
- `NoLostWakeup` itself is part of the invariant.

One lemma per action shows that it keeps `Inv`. `ImplementsForkJoin` maps
a lane to `todo` until its function is called, to `busy` during the call, and shows
that every step is a step of `ForkJoin` or changes nothing of it; it covers safety,
`WF_vars(Progress)` is left to TLC.

**Jobs of a call** (`TaskProofs`). `DisjointClaims` says nothing of the jobs that no lane
holds yet. `PoolInv` gives every job of a call one place: the share of a lane (`Mine`: the range it
holds, or the one it will start with), what is left to the counter (`Left`), or the lane it was called on.
`ShareInv` says that the places are disjoint, `CoverInv` that they are all the jobs; `ClaimInv` says what a
lane still knows after it has read the counter, and that nobody has left before the counter was used
up. A step keeps the shares (`SharesStay`), moves a range from the counter to a lane (`ClaimShares`), or
calls one job. `ErrorInv`, that the error is of a job that threw, is what makes `ErrorReported`, a property of steps, follow. `StaticShares` is the arithmetic of the static split: division with remainder gives adjacent ranges
that end at the last job. `JobsAtReturnHolds` reads off the cover when no lane and no counter has anything
left; `MaxCount` and `MaxGrain` only bound what TLC enumerates, since the theorems are for every value of them.

**Waits between lanes** (`TaskProofs`). `StampInv` says that no slot is ahead of the epoch and that one
which has caught up was stored in this transaction, after its result; `WaitInv` that what a lane needs
and no longer waits for is there. A new epoch must differ from every stamp an earlier transaction
left, hence the hypothesis `MaxEpoch < StampMod` of the theorem: the run stays below the wrap too, and
"Two conditions on the surroundings" says what happens at it.

**Mailbox** (`L1MemCdcProofs`). A request runs round a ring of toggles: request,
two synchronizers, seen, response, two synchronizers, acknowledgement. `ToggleInv`
says that between requests all agree (`Quiet`), and that during one each is at its old or
new place and none is ahead of the one it follows (`InFlight`), so there is exactly
one boundary in the ring and the payload registers before it hold the request
(`PayloadInv`). `ResetInv` covers a reset that has reached one domain only: a domain
that has had its edge is clear. The move of each domain is proved separately and the
coincident edge is their conjunction. `OwnResponseHolds`, `BundleStableHolds` and
`ImplementsMemChannel` (the whole of `ChannelSpec`, which has no fairness) follow.

**Channel of a bridge** (`CdcProofs`). The six toggles form a ring as well:
request, two synchronizers, acknowledgement, two synchronizers. `Ring` says that while
the beat has not been taken (`OutgoingRing`) the way back agrees with the
acknowledgement, and afterwards (`ReturningRing`) the way out agrees with the request; so the
source, which waits for its own value to come back, cannot accept before the
destination has taken. `RingStep` is about any two sides and any edge of either or both, and is
used for `Mailbox` and for every channel of `Axi4Cdc`. `ShownStableHolds` and `ImplementsQueue` follow,
for any payloads and any interleaving of edges and resets.

**Path of a bridge** (`CdcProofs`). `DataMeetsAddress` says nothing of the beats that cross, and a
multiplexer that took an old address for a new one would break it only several edges later. `Inv` says where the
one transaction is: nowhere (`Waiting`), on its way with its data behind, beside or ahead of its address
(`Crossing`), with the target the multiplexer names (`Accepted`), performed there (`Performed`), or on its
way back (`Answering`). `MasterInv` is about the address a master leaves valid: it is the one that was
accepted last, and the gate has seen it, so it is not accepted again (`AcceptedOnce`). That no master repeats the
address it shows is not needed for this, only for `JobEnds`. `Flow` reads off the rings what an edge puts into the channels and takes from them, and one lemma per situation says which
one follows (`FromWaiting` and so on). `ImplementsMemChannel` is the whole of `PortSpec`, which has no
fairness: the address is accepted by `Launch`, the target's operation is `Perform`, and the master takes the response by
`Deliver`; the other edges do nothing to the port.

**Two-clock FIFO** (`CdcProofs`). The theorems have the hypothesis `SizedAsInCode`, `ADDR_BITS = 4`: the provers
know nothing of a power with a symbolic exponent, and a five-bit pointer is the sum of its digits (`SumOfDigits`). From the digits
follow what the code relies on: different pointers have different codes (`GrayInjective`), the next
code differs in one bit (`OneBit`), so a sample of a moving pointer is the old or the new one (`SampledOnce`), and inverting the
top two bits is moving half way round (`HalfWay`). `SynchronizersLag` becomes inductive when the distances are
named: `LagInv` says that the registers hold what the pointer was `d1` and `d2` moves ago, with
`d1 <= d2`, and `d2` at most the free rows for the writer's copies and at most the items for the
reader's (`Copies`). A copy that is as far back as it may be is the one that looks full or empty
(`FullAndEmpty`), so a side that moves leaves room for its own move (`CopiesKept`). `ClearedInv` covers a reset that one side
has seen and the other not. `ImplementsBuffer` is the whole of `BufferSpec`: the rows from `read_bin` on are the queue, a
write appends the row after them (`Appended`), a read takes the first (`Taken`), and a coincident edge does both.

**Interrupt controller** (`PlicProofs`). `ServedOnce` says nothing of sources that are not
served; `GatewayInv` adds that a gateway is busy exactly while some hart serves its
source and that no busy source is pending, `WriteInv` that a completion on its way
is of a source its hart still serves. Under `~Parallel` an edge that accepts a claim
accepts nothing else (`ClaimAlone`), which is the one place where the condition on the bus
is used. `ServedOnceHolds` and `RequestKeptHolds` follow; `TypeCorrect` holds
with or without the condition.

**Pipeline** (`PipelineProofs`). `TypeCorrect` is inductive as it stands; its part about records
needs that only an instruction in a stage, or a faulting fetch, is recorded. The other two theorems have hypotheses about
`Cases`, and are about programs of any length in any memory.

`OperandsCurrent` is not inductive; `Inv` is.

- `ChainInv`: the instructions in the stages are one after another in the program, and behind a jump nothing is fetched before it
  leaves execute. It is for cores that no other hart asks for a FENCE.I.
- `FetchInv`: no instruction in a stage is of an unmapped word, and a fetch address that is unmapped has nothing between it
  and the redirect that led there, so a fetch fault drains at most a branch or a jump.
- `ValueInv`: where the last writer's result is, by the place of that writer: in the
  memory stage, or in the register file. The hard case is a reader held in execute behind a load: it took the old value
  from the register file and gets the new one on one of the edges on which `load_ready` is up, which `LoadReady` bounds.
- An accepted interrupt finds no load ahead that still waits (`Settled`), since capture waited for it, so a flush loses no writer.

`OperandsCurrentHolds` follows for `Fetchable` programs: an unmapped word is reached by a jump only. Otherwise a fetch fault
flushes a load that has counted as the last writer, as described above.
The theorem speaks also of the other programs that `MCCases` leaves out:
those divergences are about order and repetition, not about values.

`ProgramOrderHolds` is the whole of `InOrder` under `Orderly`, which excludes the
divergences listed above: a CSR instruction right behind another, or with interrupts, walks or snoops; a trap, FENCE.I
or a return right behind a store with snoops; a data fault with interrupts, with snoops, or right in front of a
multiplication, FENCE.I or a return; an unmapped word reached otherwise than by a jump; FENCE.I of other harts. Every
other program is covered, in every surrounding. Without any one of the conditions on CSR instructions, stores and
faulting accesses a program of at most five words violates `ProgramOrder`, which TLC shows.
`OrderInv` adds to `Inv` what the retirement boundary keeps:

- `RecordInv`: a CSR instruction in execute whose record was captured there is held only until that record is released, so it is
  not captured again; one that was not captured does not find another's record in its way, so it is captured when it leaves; and neither does
  a page fault. The divergences about CSR instructions and the records behind a data fault break this invariant.
- `EffectInv`: who has performed what. A CSR instruction that has left execute has been captured.
- `EntryInv`: an accepted interrupt still has an instruction to replace, no store ahead and no load without its answer, so
  the access ahead is neither lost nor repeated, and `epc` names the instruction behind it.
- `FenceInv`: FENCE.I that has invalidated has nothing behind it that was fetched before.

The mapping takes what was performed by instructions still inside off again (`EffectsWait`: as long as nothing
leaves, nothing has happened in `InOrder`) and adds it when the memory stage is left (`EffectsLeave`).
Then every edge is one step: what advances retires the instruction in the memory stage (`AdvanceStep`); what is held
retires nothing but a store in front of FENCE.I (`HoldStep`); a flush retires what is ahead of the instruction it
replaces and traps that one (`TrapStep`, `FaultStep`) or returns (`ReturnStep`); a drain retires a redirect (`DrainStep`).
Of the 1664 cases of the run 61 are not orderly and are model-checked only: CSR instructions next to each other that no
stall brings together, and CSR instructions and faults in a handler, where interrupts are disabled.

**L2 cache** (`L2CacheProofs`). `Coherent` says what a valid line holds between requests and is not
inductive: a refill builds a line beat by beat in a way whose old line has just been evicted, also
beat by beat. `Inv` says what every register of the request under way stands for.

- `EntryInv`: a valid way, except the one being refilled (`Filling`), holds a line of RAM with
  the words the agents believe in, and no other way holds that line.
- `MemoryInv`: memory is right for every line that no dirty way holds; `InitInv` is the same for the
  walk after reset, when the sets before its index are clear.
- `WorkInv`: a lookup found the line in `work.way` or the line is in no way (`Absent`), which lasts
  through eviction and refill; the beats of the victim before `work.out` are already in memory; the
  beats of the new line before `work.beat` hold memory merged with the store.

`CoherentHolds` follows. `ImplementsSharedMemory` is the whole of `MemorySpec`, which has no fairness, and
needs the ports as well: `PortInv`. A request under way is still held up by its port (`LiveInv`); a response is
shown only while the machine is free, and to the port that asked (`ReplyInv`); a device is accessed
once and its value is the belief (`DeviceInv`); the data a load has collected by refills and crossings is the
belief (`DataInv`); and the external master's transaction is captured once, although its valid stays up
until the answer (`MasterInv`: it is captured exactly when its level is one the slave has not seen). A RAM request
is performed by the step that shows its response, which is the edge of `LOOKUP_RESULT`, of the last beat or of
`CROSS_DONE`; a device access before it, when the device answers. Every other step changes nothing of
`SharedMemory`, but for the ports that ask and the ports that are released.

**L1 cache** (`L1CoherenceProofs`). `Coherent` speaks of the edge on which a load returns and
`StaleIsAnnounced` of copies that are already live; neither says anything of a version on its way: a beat in the mailbox,
the beats a refill has collected, the words a hit has selected, the answer in `response_reg`.
`Inv` asks the same of all of them: `Good(x, v)`, that `v` is the present version of word `x` or a store that
outran it is still to be announced (`Due`), and that it is not below the floor.

- `RequestInv` ties `req` to the request the core holds, `PortInv` the mailbox to it: a store there is the
  core's own, an answer to a load that was not withdrawn is of the beat the refill waits for, and good.
- `WalkInv` and `EpochInv` are about the generation of the tags: before the index of the walk they are clear, and outside a walk an
  entry has the present `tagEpoch` and no set epoch ahead of its set. A set epoch steps at every snoop and a wrap starts
  the walk, so an epoch never comes round to an entry that was left behind; two epochs suffice.
- `CopyInv`: live copies of a line are good, in one way only, and the selected line holds the same words. `HeldInv`
  says what the request has collected in each state: the tags of its set, the words of the only way that holds its line,
  good beats while no live copy of the line exists, and at the end an answer equal to every copy.

`Persists` is the argument of an edge: a good version stays good unless its line is snooped (the copy is then dropped, and
the request aborted), its word is stored by the core (the set is cleared), or a load returns a newer version of its word.
The last cannot come from another copy, since copies agree (`LoadedAgrees`). It can come from a direct load that overtakes a copy: then
the store it saw has been answered but not announced, is announced on the very next edge, and the core, which has its load, presents
none on that edge. `Dropping` is that one edge, the only one on which a live copy may be below the floor.

Only model-checked: liveness (`StopEnds`, `CallReturns`, `StageReturns`,
`HeldRequestEnds`, `ItemArrives`, `RowReturns`, `JobEnds`, `PendsAgain`, `RequestEnds`, `Progress` and
the fairness of `ForkJoinSpec`), which needs `ENABLED` and is beyond the prover;
the two-clock FIFO for widths other than the code's; `ProgramOrder`
of the few programs of `MCCases` that are not `Orderly`.

## Not modelled, and plan

Not planned: the converters (`cpphdl.cpp`, `Module.cpp`, `Combs.cpp`, `hdlcpp/`, by far the most lines of
the repository), synthesis, HLS, analog and value types. They are sequential translations
of syntax trees, netlists and equations, and pure arithmetic: what makes them right is the
meaning of C++ and SystemVerilog text, a reference these models do not have, and no order of
events decides anything in them. Thread affinity is operating system calls; its
one effect, a constructor that fails, is in `Threads`. Line protocols of the devices are data
paths.

Left out of the pipeline: calls of the SBI that `Tribe` answers itself, atomics, accesses that are split, FENCE,
SFENCE.VMA, privilege modes and the delegation of traps, and the walks inside `MMU_TLB`.
Branch prediction is disabled in the code (`Tribe.h:1181`).

Left out of the caches, besides what is said above: the flush of the instruction cache, and a
load accepted in the cycle that answers the one before, which the data side of the core never presents
(`L1Coherence`); checkpointing everywhere. Two facts at the edge of the models: `System.cpp` without
`ENABLE_MMU_TLB` drives the external invalidation without asking whether the cores are
ready (`SoC/System.cpp:164-165`), outside what `Ready` assumes; and readiness of all cores is a
moment that may never come, so the models promise no end to a device's wait for it.

Next, in order of weight:

1. The CLINT, whose 64-bit timer registers are written and compared in halves, with the
   hart that programs it.
2. `Buffer` and `Fifo` of `lib/basic` as implementations of `BoundedFifo`; pending
   writes of `memory`; `PendingEvents`; acyclic waits of the native plan, which
   `TaskSlots` assumes of its `Stages`.
