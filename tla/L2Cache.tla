------------------------------ MODULE L2Cache -------------------------------
(***************************************************************************)
(* The shared L2 cache (tribe_cpu/cache/l2): one finite-state machine that  *)
(* serves the L1 caches of every core and a coherent AXI master, above the  *)
(* backing memory and a region of devices.                                  *)
(*                                                                          *)
(* An action is one l2_clock edge, named for the state it leaves; a request *)
(* rises between two edges.  A place is one word of one line: stores change *)
(* whole words, a wide access also touches part of the next one.  golden is *)
(* the memory that the agents believe in.                                   *)
(*                                                                          *)
(* The allocation sideband dma_line is tied off in every instance, so that  *)
(* nothing writes the RAMs between the read of a set and its result: the    *)
(* outputs captured in ST_LOOKUP_CAPTURE are the RAMs' contents, and        *)
(* ST_READ is never entered.  The core splits the stores that would enter   *)
(* ST_CROSS_WRITE_READ.                                                     *)
(***************************************************************************)
EXTENDS Integers, FiniteSets

CONSTANTS
    Cpus,           \* greatest number of CPU port pairs
    Shapes,         \* template parameters: CPU pairs, sets, ways, words of a line, of a beat;
                    \* and the lines of RAM, whether the devices are used, and whether the
                    \* master holds its valid until the response;
                    \* bound: asks, the requests outstanding at one time
    MaxValue,
    None

IoLine == 8                                 \* a line of the uncached region
OutsideLine == 9                            \* a line no region holds

ASSUME GeometryAssumption ==
    /\ Cpus \in Nat \ {0} /\ MaxValue \in Nat \ {0}
    /\ \A s \in Shapes :
          /\ s.cpus \in 1 .. Cpus /\ s.lines \in 1 .. IoLine
          /\ {s.sets, s.ways, s.words, s.port, s.asks} \subseteq Nat \ {0}
          /\ s.words % s.port = 0
          /\ {s.io, s.sticky} \subseteq BOOLEAN

Value == 0 .. MaxValue
Cpu == 0 .. Cpus - 1
NextValue(v) == (v + 1) % (MaxValue + 1)    \* the value a store writes over v
Slave == <<0, "s">>                         \* axi_in, one master
Port == (Cpu \X {"d", "i"}) \cup {Slave}

\* What the words of a part of a line, or of two places, may hold.
Data(words) ==
    LET place == (0 .. OutsideLine) \X words IN
        UNION {[S -> Value] : S \in {{l} \X ws : l \in 0 .. OutsideLine, ws \in SUBSET words}
                                    \cup {{x, y} : x \in place, y \in place}}

\* None is no request, no reply, and no data.
ASSUME NoneAssumption ==
    \A s \in Shapes :
        LET lines == 0 .. OutsideLine
            words == 0 .. s.words - 1
        IN  /\ None \notin Data(words)
            /\ None \notin [write : BOOLEAN, line : lines, word : words, wide : BOOLEAN,
                            words : SUBSET words, value : Value]
            /\ None \notin [port : Port, write : BOOLEAN, line : lines, word : words, wide : BOOLEAN,
                            words : SUBSET words, value : Value]
            /\ None \notin [port : Port, write : BOOLEAN, address : lines \X words \X BOOLEAN,
                            data : Data(words)]
            /\ None \notin [port : Port, data : Data(words)]
            /\ None \notin [request : [reads : SUBSET (lines \X words), writes : Data(words)],
                            answer : Data(words) \cup {None}]

VARIABLES
    shape,          \* template parameters: a member of Shapes
    ask,            \* Port -> the request it has outstanding, or None
    axi,            \* what the master drives: aw, w, ar, and whether w is to come
    slave,          \* slave_aw_reg, _seen_reg, _novelty_reg and the b and r responses
    response,       \* the CPU response that is valid in this clock, or None
    state, initSet, \* state_reg, init_set_reg
    pipe, req,      \* request_pipe_reg, req_reg
    rr, victim,     \* cpu_rr_reg, victim_reg
    work,           \* registers that live during one request
    ram,            \* tag_ram and data_ram: set -> way -> line
    memory,         \* backing memory and devices behind axi_out
    golden, done    \* what the agents believe; the access performed and not answered

busVars == <<ask, axi, slave, response>>
pathVars == <<pipe, req, rr, victim>>
ramVars == <<ram, initSet>>
ghostVars == <<golden, done>>
vars == <<shape, busVars, state, pathVars, work, ramVars, memory, ghostVars>>

-----------------------------------------------------------------------------
(* Geometry and requests. *)

Ram == 0 .. shape.lines - 1
Word == 0 .. shape.words - 1
Place == (0 .. OutsideLine) \X Nat
SetOf(l) == l % shape.sets
TagOf(l) == l \div shape.sets
LineOf(s, t) == t * shape.sets + s
Way == 0 .. shape.ways - 1
Beats == shape.words \div shape.port
BeatOf(w) == w \div shape.port
BeatWords(b) == {w \in Word : BeatOf(w) = b}
Following(x) == IF x[2] = shape.words - 1 THEN <<x[1] + 1, 0>> ELSE <<x[1], x[2] + 1>>

Load(l, w, wide) == [write |-> FALSE, line |-> l, word |-> w, wide |-> wide, words |-> {}, value |-> 0]
\* bound: a store writes one value, not the one its first word holds when it is asked for
Store(l, ws) ==
    LET first == CHOOSE w \in ws : \A x \in ws : w <= x IN
        [write |-> TRUE, line |-> l, word |-> first, wide |-> FALSE, words |-> ws,
         value |-> NextValue(golden[<<l, first>>])]

FirstWords == {w \in Word : w % shape.port = 0}
BeatEnd(w) == (w + 1) % shape.port = 0
LineEnd(w) == w = shape.words - 1

BeatLoads == {Load(l, w, FALSE) : l \in Ram, w \in FirstWords}
WideLoads(ends) ==
    {Load(x[1], x[2], TRUE) : x \in {x \in Ram \X ends : Following(x)[1] \in Ram}}
Stores(sets) == {Store(l, ws) : l \in Ram, ws \in sets}

\* bound: wide data loads only where a line has several words
DataRequests ==
    BeatLoads \cup WideLoads({w \in Word : BeatEnd(w) /\ shape.words > 1})
    \cup Stores({{w} : w \in Word} \cup {{w, w + 1} \cap Word : w \in Word})
    \cup IF shape.io THEN {Load(IoLine, 0, FALSE), Store(IoLine, {0}), Load(OutsideLine, 0, FALSE)} ELSE {}
\* bound: instructions are fetched from line 0 or across the end of a line
FetchRequests == {Load(0, w, FALSE) : w \in FirstWords} \cup WideLoads({w \in Word : LineEnd(w)})
MasterRequests ==
    BeatLoads \cup Stores({ws \in SUBSET Word : \E b \in 0 .. Beats - 1 : ws # {} /\ ws \subseteq BeatWords(b)})

Requests(p) ==
    CASE p[2] = "d" -> DataRequests [] p[2] = "i" -> FetchRequests [] OTHER -> MasterRequests

\* The places of a beat, and those a wide access may return.
BeatPlaces(r) == {<<r.line, w>> : w \in BeatWords(BeatOf(r.word))}
PairPlaces(r) == {<<r.line, r.word>>, Following(<<r.line, r.word>>)}

\* What the asker of a load may rely on.  A data load past the end of a line is
\* a narrow one, and an instruction that crosses it has no such promise.
Reliable(p, r) ==
    IF r.write \/ r.line = OutsideLine THEN {}
    ELSE IF r.line = IoLine THEN {<<IoLine, 0>>}
    ELSE IF ~r.wide THEN BeatPlaces(r)
    ELSE IF ~LineEnd(r.word) THEN PairPlaces(r)
    ELSE IF p[2] = "d" THEN {<<r.line, r.word>>} ELSE {}

Written(r) ==
    [x \in IF r.line = OutsideLine THEN {} ELSE {<<r.line, w>> : w \in r.words} |-> r.value]

AfterRead(v) == NextValue(v)

-----------------------------------------------------------------------------
(* Requests as the cache sees them. *)

AsRequest(p, r) ==
    [port |-> p, write |-> r.write, line |-> r.line, word |-> r.word, wide |-> r.wide,
     words |-> r.words, value |-> r.value]
Address(r) == <<r.line, r.word, r.wide>>

\* The response in its slot is that of the request a CPU port holds up.
Completes(reply, p, r) ==
    reply # None /\ reply.port = p /\ reply.write = r.write /\ reply.address = Address(r)

\* slave_write_pending, slave_read_pending
WritePending == axi.w # None /\ (slave.aw # None \/ (axi.aw # None /\ slave.awNovel))
ReadPending == axi.ar # None /\ slave.arNovel

\* The first pair with a request, round robin; D precedes I within it.
Pending(c) == \E k \in {"d", "i"} : ask[<<c, k>>] # None
\* Mutant of Candidate: the first pair always comes first.
CandidateFixed(n) == n

Candidate(n) == (rr + n) % shape.cpus

FirstPending ==
    CHOOSE n \in 0 .. shape.cpus - 1 : Pending(Candidate(n)) /\ \A m \in 0 .. n - 1 : ~Pending(Candidate(m))
Chosen ==
    LET c == Candidate(FirstPending) IN IF ask[<<c, "d">>] # None THEN <<c, "d">> ELSE <<c, "i">>

\* active_request_comb
Active ==
    IF WritePending THEN
        LET address == IF slave.aw # None THEN slave.aw ELSE axi.aw IN
            AsRequest(Slave, [address EXCEPT !.words = axi.w.words, !.value = axi.w.value])
    ELSE IF ReadPending THEN AsRequest(Slave, axi.ar)
    ELSE IF \E c \in Cpu : Pending(c) THEN AsRequest(Chosen, ask[Chosen])
    ELSE None

Free == state = "IDLE" /\ pipe = None
AwAccepted == Free /\ axi.aw # None /\ slave.aw = None /\ slave.awNovel
WAccepted == Free /\ WritePending
ArAccepted == Free /\ ReadPending /\ ~WritePending

Garbage == [valid |-> TRUE, dirty |-> TRUE, tag |-> 0, words |-> [w \in Word |-> MaxValue]]
NoWork ==
    [hit |-> FALSE, way |-> 0, evict |-> None, beat |-> 0, out |-> 0, refill |-> <<>>, kept |-> <<>>,
     low |-> 0, high |-> 0]

-----------------------------------------------------------------------------
(* What every edge does around the state machine. *)

Reply(data) ==
    [port |-> req.port, write |-> req.write, address |-> Address(req), data |-> data]

Answered(p) ==
    IF p = Slave THEN slave.b \/ slave.r # None
    ELSE ask[p] # None /\ Completes(response, p, ask[p])

Novel(seen, live) == IF seen = None \/ live = None THEN TRUE ELSE Address(seen) # Address(live)

\* A master drops its valid at the handshake, or holds it until its response.
Held(valid, accepted) == IF accepted /\ (Answered(Slave) \/ ~shape.sticky) THEN None ELSE valid

\* Requests answered in this clock retire; a response is shown for the next
\* clock, the master being ready for it; an accepted address is remembered while
\* its valid stays up, which a master may hold after the handshake.
Edge(reply) ==
    /\ ask' = [p \in Port |-> IF Answered(p) THEN None ELSE ask[p]]
    /\ response' = IF reply = None \/ reply.port = Slave THEN None ELSE reply
    /\ LET mine == reply # None /\ reply.port = Slave IN
       slave' =
        [aw |-> IF WAccepted THEN None ELSE IF AwAccepted THEN axi.aw ELSE slave.aw,
         awSeen |-> IF AwAccepted THEN axi.aw ELSE IF axi.aw = None THEN None ELSE slave.awSeen,
         arSeen |-> IF ArAccepted THEN axi.ar ELSE IF axi.ar = None THEN None ELSE slave.arSeen,
         awNovel |-> Novel(slave.awSeen, axi.aw),
         arNovel |-> Novel(slave.arSeen, axi.ar),
         b |-> mine /\ reply.write,
         r |-> IF mine /\ ~reply.write THEN reply.data ELSE None]
    /\ axi' = [aw |-> Held(axi.aw, AwAccepted \/ slave.awSeen = axi.aw), late |-> axi.late,
               ar |-> Held(axi.ar, ArAccepted \/ slave.arSeen = axi.ar), w |-> IF WAccepted THEN None ELSE axi.w]
    /\ UNCHANGED shape

\* The end of a request: the registers that lived for it are read no more.
Complete(data) ==
    /\ state' = "IDLE" /\ req' = None /\ work' = NoWork /\ done' = None
    /\ Edge(Reply(data))

\* The moment of the access for the agents.
Believe ==
    golden' = [x \in DOMAIN golden |->
        IF x \in DOMAIN Written(req) THEN req.value
        ELSE IF x[1] = IoLine /\ x \in Reliable(req.port, req) THEN AfterRead(golden[x])
        ELSE golden[x]]

Line == ram[SetOf(req.line)][work.way]
UpdateLine(line) == ram' = [ram EXCEPT ![SetOf(req.line)][work.way] = line]

-----------------------------------------------------------------------------
(* Initialisation, arbitration and lookup. *)

InitSet ==
    /\ state = "INIT"
    /\ ram' = [ram EXCEPT ![initSet] = [w \in Way |-> [@[w] EXCEPT !.valid = FALSE, !.dirty = FALSE]]]
    /\ IF initSet = shape.sets - 1
        THEN state' = "IDLE" /\ UNCHANGED initSet
        ELSE initSet' = initSet + 1 /\ UNCHANGED state
    /\ Edge(None)
    /\ UNCHANGED <<pathVars, work, memory, ghostVars>>

\* Mutant of Arbitrate: a request is captured on the edge that retires its response.
ArbitrateAgain ==
    /\ Free
    /\ pipe' = Active
    /\ Edge(None)
    /\ UNCHANGED <<state, req, rr, victim, work, ramVars, memory, ghostVars>>

\* A level-held request is not captured on the edge that retires its response.
Arbitrate ==
    /\ Free
    /\ pipe' = IF Active # None /\ ~Completes(response, Active.port, Active) THEN Active ELSE None
    /\ Edge(None)
    /\ UNCHANGED <<state, req, rr, victim, work, ramVars, memory, ghostVars>>

Accept ==
    /\ state = "IDLE" /\ pipe # None
    /\ pipe' = None
    /\ IF Completes(response, pipe.port, pipe)
        THEN UNCHANGED <<req, rr, state>>
        ELSE /\ req' = pipe
             /\ rr' = IF pipe.port = Slave THEN rr ELSE (pipe.port[1] + 1) % shape.cpus
             /\ state' = IF pipe.port[2] = "i" /\ pipe.wide /\ LineEnd(pipe.word)
                            THEN "CROSS_AR0" ELSE "LOOKUP_CAPTURE"
    /\ Edge(None)
    /\ UNCHANGED <<victim, work, ramVars, memory, ghostVars>>

Capture ==
    /\ state = "LOOKUP_CAPTURE" /\ state' = "LOOKUP"
    /\ Edge(None)
    /\ UNCHANGED <<pathVars, work, ramVars, memory, ghostVars>>

\* Mutant of EvictCandidate: the writeback looks at the way that was filled last.
EvictCandidateFilled == ram[SetOf(req.line)][work.way]

\* evict_candidate_comb
EvictCandidate == ram[SetOf(req.line)][victim]

\* hit_lookup_comb
Lookup ==
    /\ state = "LOOKUP" /\ state' = "LOOKUP_RESULT"
    /\ LET set == ram[SetOf(req.line)]
           hits == {w \in Way : set[w].valid /\ set[w].tag = TagOf(req.line)}
       IN work' = [work EXCEPT
                    !.hit = hits # {},
                    !.way = IF hits = {} THEN @ ELSE CHOOSE w \in hits : \A v \in hits : v <= w,
                    !.evict = EvictCandidate]
    /\ Edge(None)
    /\ UNCHANGED <<pathVars, ramVars, memory, ghostVars>>

ResultOutside ==
    /\ state = "LOOKUP_RESULT" /\ req.line = OutsideLine
    /\ Complete(<<>>)
    /\ UNCHANGED <<pipe, rr, victim, ramVars, memory, golden>>

ResultUncached ==
    /\ state = "LOOKUP_RESULT" /\ req.line = IoLine
    /\ state' = IF req.write THEN "IO_AW" ELSE "IO_AR"
    /\ Edge(None)
    /\ UNCHANGED <<pathVars, work, ramVars, memory, ghostVars>>

CachedResult == state = "LOOKUP_RESULT" /\ req.line \in Ram
CrossBeatRead == ~req.write /\ req.wide /\ BeatEnd(req.word)

\* The part of a wide load that is in another line is not there.
HitData ==
    IF CrossBeatRead
    THEN [x \in PairPlaces(req) |-> IF x[1] = req.line THEN Line.words[x[2]] ELSE 0]
    ELSE [x \in BeatPlaces(req) |-> Line.words[x[2]]]

Merge(old) == [w \in DOMAIN old |-> IF w \in req.words THEN req.value ELSE old[w]]

ResultHit ==
    /\ CachedResult /\ work.hit
    /\ IF req.write
        THEN UpdateLine([Line EXCEPT !.dirty = TRUE, !.words = Merge(@)]) /\ Complete(<<>>)
        ELSE Complete(HitData) /\ UNCHANGED ram
    /\ Believe
    /\ UNCHANGED <<pipe, rr, victim, initSet, memory>>

ResultMiss ==
    /\ CachedResult /\ ~work.hit
    /\ work' = [work EXCEPT !.way = victim, !.beat = 0, !.out = 0]
    /\ state' = IF CrossBeatRead /\ req.port # Slave THEN "CROSS_AR0"
                ELSE IF work.evict.valid /\ work.evict.dirty THEN "EVICT_AW" ELSE "AXI_AR"
    /\ Edge(None)
    /\ UNCHANGED <<pathVars, ramVars, memory, ghostVars>>

-----------------------------------------------------------------------------
(* The AXI master: eviction, refill, direct and uncached accesses. *)

\* Addresses that wait for their ready.
AddressPhase(from, to) ==
    /\ state = from /\ state' = to
    /\ Edge(None)
    /\ UNCHANGED <<pathVars, work, ramVars, memory, ghostVars>>

EvictAddress == AddressPhase("EVICT_AW", "EVICT_W")
RefillAddress == AddressPhase("AXI_AR", "AXI_R")
CrossAddress == AddressPhase("CROSS_AR0", "CROSS_R0") \/ AddressPhase("CROSS_AR1", "CROSS_R1")
IoAddress == AddressPhase("IO_AW", "IO_W") \/ AddressPhase("IO_AR", "IO_R")

EvictWrite ==
    /\ state = "EVICT_W" /\ state' = "EVICT_B"
    /\ LET line == LineOf(SetOf(req.line), work.evict.tag) IN
        memory' = [x \in DOMAIN memory |->
            IF x[1] = line /\ BeatOf(x[2]) = work.out THEN work.evict.words[x[2]] ELSE memory[x]]
    /\ Edge(None)
    /\ UNCHANGED <<pathVars, work, ramVars, ghostVars>>

EvictAnswered ==
    /\ state = "EVICT_B"
    /\ IF work.out = Beats - 1
        THEN state' = "AXI_AR" /\ UNCHANGED work
        ELSE state' = "EVICT_AW" /\ work' = [work EXCEPT !.out = @ + 1]
    /\ Edge(None)
    /\ UNCHANGED <<pathVars, ramVars, memory, ghostVars>>

RefillData ==
    /\ state = "AXI_R" /\ state' = "AXI_R_WRITE"
    /\ work' = [work EXCEPT !.refill = [w \in BeatWords(work.beat) |-> memory[<<req.line, w>>]]]
    /\ Edge(None)
    /\ UNCHANGED <<pathVars, ramVars, memory, ghostVars>>

\* The beat that was asked for is kept until the line is complete.
KeptBeat == IF ~req.write /\ work.beat = BeatOf(req.word) THEN work.refill ELSE work.kept

FilledWords == [w \in Word |-> IF w \in DOMAIN work.refill THEN Merge(work.refill)[w] ELSE Line.words[w]]

RefillBeat ==
    /\ state = "AXI_R_WRITE" /\ work.beat < Beats - 1
    /\ UpdateLine([Line EXCEPT !.words = FilledWords])
    /\ work' = [work EXCEPT !.beat = @ + 1, !.kept = KeptBeat]
    /\ state' = "AXI_AR"
    /\ Edge(None)
    /\ UNCHANGED <<pathVars, initSet, memory, ghostVars>>

\* Mutant of NextVictim: replacement runs past the last way.
NextVictimPast == victim + 1

NextVictim == (victim + 1) % shape.ways

RefillLast ==
    /\ state = "AXI_R_WRITE" /\ work.beat = Beats - 1
    /\ UpdateLine([valid |-> TRUE, dirty |-> req.write, tag |-> TagOf(req.line), words |-> FilledWords])
    /\ victim' = NextVictim
    /\ Complete(IF req.write THEN <<>> ELSE [x \in BeatPlaces(req) |-> KeptBeat[x[2]]])
    /\ Believe
    /\ UNCHANGED <<pipe, rr, initSet, memory>>

CrossLow ==
    /\ state = "CROSS_R0" /\ state' = "CROSS_AR1"
    /\ work' = [work EXCEPT !.low = memory[<<req.line, req.word>>]]
    /\ Edge(None)
    /\ UNCHANGED <<pathVars, ramVars, memory, ghostVars>>

CrossHigh ==
    /\ state = "CROSS_R1" /\ state' = "CROSS_DONE"
    /\ work' = [work EXCEPT !.high = memory[Following(<<req.line, req.word>>)]]
    /\ Edge(None)
    /\ UNCHANGED <<pathVars, ramVars, memory, ghostVars>>

CrossDone ==
    /\ state = "CROSS_DONE"
    /\ Complete([x \in PairPlaces(req) |-> IF x = <<req.line, req.word>> THEN work.low ELSE work.high])
    /\ UNCHANGED <<pipe, rr, victim, ramVars, memory, golden>>

IoWrite ==
    /\ state = "IO_W" /\ state' = "IO_B"
    /\ memory' = [memory EXCEPT ![<<IoLine, 0>>] = req.value]
    /\ Believe
    /\ done' = [port |-> req.port, data |-> <<>>]
    /\ Edge(None)
    /\ UNCHANGED <<pathVars, work, ramVars>>

IoRead ==
    /\ state = "IO_R" /\ state' = "IO_R_RESULT"
    /\ memory' = [memory EXCEPT ![<<IoLine, 0>>] = AfterRead(@)]
    /\ work' = [work EXCEPT !.refill = [w \in {0} |-> memory[<<IoLine, 0>>]]]
    /\ Believe
    /\ done' = [port |-> req.port, data |-> [x \in {<<IoLine, 0>>} |-> memory[x]]]
    /\ Edge(None)
    /\ UNCHANGED <<pathVars, ramVars>>

IoAnswered ==
    /\ state \in {"IO_B", "IO_R_RESULT"}
    /\ Complete(IF req.write THEN <<>> ELSE [x \in {<<IoLine, 0>>} |-> work.refill[0]])
    /\ UNCHANGED <<pipe, rr, victim, ramVars, memory, golden>>

\* The bus is not ready: everything but the endpoints stands still.
BusStates ==
    {"EVICT_AW", "EVICT_W", "EVICT_B", "AXI_AR", "AXI_R", "CROSS_AR0", "CROSS_R0", "CROSS_AR1",
     "CROSS_R1", "IO_AW", "IO_W", "IO_B", "IO_AR", "IO_R"}

Stall ==
    /\ state \in BusStates
    /\ Edge(None)
    /\ UNCHANGED <<state, pathVars, work, ramVars, memory, ghostVars>>

-----------------------------------------------------------------------------
(* The agents, between two edges. *)

Room == Cardinality({p \in Port : ask[p] # None}) < shape.asks

AskCpu(p) ==
    /\ p # Slave /\ p[1] < shape.cpus /\ ask[p] = None /\ Room
    /\ \E r \in Requests(p) : ask' = [ask EXCEPT ![p] = r]
    /\ UNCHANGED <<shape, axi, slave, response, state, pathVars, work, ramVars, memory, ghostVars>>

\* The master has dropped its valid for an edge or drives another address; its
\* data comes with the address or after it.
AskMaster ==
    /\ ask[Slave] = None /\ Room
    /\ \E r \in Requests(Slave), late \in BOOLEAN :
        /\ ask' = [ask EXCEPT ![Slave] = r]
        /\ IF r.write
            THEN /\ Novel(slave.awSeen, r)
                 /\ axi' = [axi EXCEPT !.aw = r, ![IF late THEN "late" ELSE "w"] = r]
            ELSE /\ Novel(slave.arSeen, r)
                 /\ ~late
                 /\ axi' = [axi EXCEPT !.ar = r]
    /\ UNCHANGED <<shape, slave, response, state, pathVars, work, ramVars, memory, ghostVars>>

SendData ==
    /\ axi.late # None
    /\ axi' = [axi EXCEPT !.w = axi.late, !.late = None]
    /\ UNCHANGED <<shape, ask, slave, response, state, pathVars, work, ramVars, memory, ghostVars>>

-----------------------------------------------------------------------------
Init ==
    /\ shape \in Shapes
    /\ ask = [p \in Port |-> None]
    /\ axi = [aw |-> None, w |-> None, late |-> None, ar |-> None]
    /\ slave = [aw |-> None, awSeen |-> None, arSeen |-> None, awNovel |-> FALSE, arNovel |-> FALSE,
                b |-> FALSE, r |-> None]
    /\ response = None
    /\ state = "INIT" /\ initSet = 0
    /\ pipe = None /\ req = None /\ rr = 0 /\ victim = 0 /\ work = NoWork
    /\ ram = [s \in 0 .. shape.sets - 1 |-> [w \in Way |-> Garbage]]
    /\ memory = [x \in (Ram \X Word) \cup {<<IoLine, 0>>} |-> 0]
    /\ golden = memory /\ done = None

Machine ==
    \/ InitSet \/ Arbitrate \/ Accept \/ Capture \/ Lookup
    \/ ResultOutside \/ ResultUncached \/ ResultHit \/ ResultMiss
    \/ EvictAddress \/ EvictWrite \/ EvictAnswered
    \/ RefillAddress \/ RefillData \/ RefillBeat \/ RefillLast
    \/ CrossAddress \/ CrossLow \/ CrossHigh \/ CrossDone
    \/ IoAddress \/ IoWrite \/ IoRead \/ IoAnswered

Agents == (\E p \in Port : AskCpu(p)) \/ AskMaster \/ SendData

Next == Machine \/ Stall \/ Agents

Spec == Init /\ [][Next]_vars /\ WF_vars(Machine) /\ WF_vars(SendData)

-----------------------------------------------------------------------------
States == BusStates \cup {"INIT", "IDLE", "LOOKUP_CAPTURE", "LOOKUP", "LOOKUP_RESULT", "AXI_R_WRITE",
    "CROSS_DONE", "IO_R_RESULT"}

\* Type correctness: a state of the machine, and a request exactly while it serves one.
TypeOK ==
    /\ state \in States
    /\ (req = None) = (state \in {"INIT", "IDLE"})
    /\ pipe # None => state = "IDLE"
    /\ victim \in Way /\ work.way \in Way /\ rr \in Cpu
    /\ DOMAIN memory = DOMAIN golden

Filling(s, w) ==
    state \in {"AXI_AR", "AXI_R", "AXI_R_WRITE"} /\ s = SetOf(req.line) /\ w = work.way
Resident(l) ==
    {w \in Way : /\ ram[SetOf(l)][w].valid /\ ram[SetOf(l)][w].tag = TagOf(l)
                 /\ ~Filling(SetOf(l), w)}
HoldsBelief(l, words) == \A w \in Word : words[w] = golden[<<l, w>>]

\* A line is in one way at most, with the data the agents believe in; a line
\* that is not dirty there is right in backing memory: no store is lost by an
\* eviction, a refill, or the merge of a store into a line that misses.
Coherent ==
    state # "INIT" =>
        \A l \in Ram :
            /\ Cardinality(Resident(l)) <= 1
            /\ \A w \in Resident(l) : HoldsBelief(l, ram[SetOf(l)][w].words)
            /\ (\A w \in Resident(l) : ~ram[SetOf(l)][w].dirty)
                => HoldsBelief(l, [w \in Word |-> memory[<<l, w>>]])

\* The cache implements one memory: every request is performed once and gets
\* what the memory held at that moment, a device is read and written once for
\* it, and a master that holds its valid after the handshake is not served again.
Demand(p) == [reads |-> Reliable(p, ask[p]), writes |-> Written(ask[p])]
Shown(p) == IF p # Slave THEN response.data ELSE IF slave.b THEN <<>> ELSE slave.r
Answer(p) ==
    LET data == IF Answered(p) THEN Shown(p) ELSE done.data IN
        [x \in Reliable(p, ask[p]) |-> data[x]]
Pend ==
    [p \in Port |->
        IF ask[p] = None THEN None
        ELSE [request |-> Demand(p),
              answer |-> IF Answered(p) \/ (done # None /\ done.port = p) THEN Answer(p) ELSE None]]

Memory == INSTANCE SharedMemory
    WITH Device <- {<<IoLine, 0>>}, mem <- golden, pend <- Pend

MemorySpec == Memory!Spec

\* Every data request of a core and every transaction of the master is answered.
RequestEnds == \A p \in Port : p[2] # "i" => (ask[p] # None ~> ask[p] = None)

\* An instruction that crosses the end of a line is what the agents believe in.
FetchLatest ==
    [][ state = "CROSS_DONE" /\ state' = "IDLE" /\ req.port[2] = "i"
        => \A x \in PairPlaces(req) : response'.data[x] = golden[x] ]_vars
=============================================================================
