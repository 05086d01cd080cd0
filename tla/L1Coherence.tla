---------------------------- MODULE L1Coherence -----------------------------
(***************************************************************************)
(* The private data cache of one core (tribe_cpu/cache/l1) and what the     *)
(* cluster tells it of the stores of the others (tribe_cpu/TribeTestModule  *)
(* .h): a peer's store, once answered by the shared L2, becomes a pulse of  *)
(* one clock that makes the cached lines of its set stale, and a device     *)
(* that has written memory has every line dropped.                          *)
(*                                                                          *)
(* An action is one edge of clk, named for what the controller does on it.  *)
(* Private caches meet only in memory and through these pulses, so one of   *)
(* them and the stores of its peers are all that its loads depend on.       *)
(*                                                                          *)
(* A word of memory is the number of stores performed on it.  The port is   *)
(* the channel that L1MemCdc implements.  The L2 performs one request at a  *)
(* time and every mailbox is as deep as the others, so requests are         *)
(* performed here at the edge that makes their answers visible.             *)
(***************************************************************************)
EXTENDS Integers, Sequences, FiniteSetsExt

CONSTANTS
    Peer,           \* the other cores
    Sets, Ways, Beats,      \* geometry; a beat of a refill is one word
    Lines,          \* lines of memory
    Shared,         \* bound: the words that are stored to
    Epochs,         \* values of a set's epoch, 256 in the code
    MaxVersion,     \* bound: stores performed on a word
    None

\* The address is wider than its set and the place in the line (L1CacheGeometry.h).
ASSUME CacheAssumption ==
    /\ {Sets, Ways, Beats, Lines, MaxVersion} \subseteq Nat \ {0} /\ Sets <= Lines
    /\ Epochs \in Nat \ {0, 1}
    /\ Shared \subseteq 0 .. Lines * Beats - 1

Line == 0 .. Lines - 1
Word == 0 .. Lines * Beats - 1
Set == 0 .. Sets - 1
Way == 0 .. Ways - 1
Epoch == 0 .. Epochs - 1
Version == 0 .. MaxVersion
Words == [1 .. Beats -> Version]            \* the data of a line
LineOf(w) == w \div Beats
Place(w) == (w % Beats) + 1                   \* of a word in its line
WordAt(l, i) == (l * Beats) + i - 1
SetOf(l) == l % Sets

\* A direct load has an odd address or belongs to an atomic: it bypasses the cache.
Request == [op : {"load", "direct"}, word : Word] \cup [op : {"store"}, word : Shared]
Entry == [line : Line, epoch : BOOLEAN, setEpoch : Epoch, words : Words]
Current == [word : Word, cacheable : BOOLEAN]
Reply == [word : Word, version : Version]
Copy == [line : Line, words : Words]
Transfer == [op : {"load", "store"}, word : Word, orphan : BOOLEAN, answer : Version \cup {None}]
PeerStore == [word : Shared, at : {"withdrawn", "answered", "announced"}, version : Version]

\* None is no request, no data and no word.
ASSUME NoneAssumption ==
    /\ None \notin Request \cup Entry \cup Current \cup Reply \cup Copy \cup Transfer \cup PeerStore
    /\ None \notin Words \cup Version \cup Shared \cup [op : {"load", "store"}, word : Word]

VARIABLES
    ask,            \* the request the core holds, or None
    state, req,     \* state_reg; req_reg, None when its read bit is clear
    held,           \* what the request has collected: the outputs of the RAMs and
                    \* tag_entries_reg, then the way lookup_reg selects, or refill_reg
    response,       \* response_reg, None when it is not valid
    selected,       \* selected_line_reg, None when it is not valid
    tagEpoch, setEpoch,     \* tag_epoch_reg, tag_set_epoch_reg
    wrapping,       \* epoch_wrap_pending_reg
    ram,            \* tag_ram, and the data RAMs where the tag is not zero
    victim, initSet,
    port,           \* the request under way to the L2, or None
    peer,           \* a peer's store that is performed: its answer was thrown away
                    \* ("withdrawn"), is visible, or is in peer_store_reg ("announced")
    dma,            \* words a device has written that are not announced
    mem,            \* the shared memory
    floor,          \* history: the oldest version of a word a load may still return
    performed       \* history: how often the core's store has been performed

l1Vars == <<state, req, held, response, selected, tagEpoch, setEpoch, wrapping,
            ram, victim, initSet>>
vars == <<ask, l1Vars, port, peer, dma, mem, floor, performed>>

State == {"init", "idle", "lookup", "compare", "select", "assemble", "refill", "done"}

HeldType ==
    CASE state \in {"lookup", "compare"} -> [Way -> Entry \cup {None}]
      [] state = "select" -> Words \cup {None}
      [] state = "assemble" -> Words
      [] state = "refill" -> UNION {[1 .. n -> Version] : n \in 0 .. Beats - 1}
      [] OTHER -> {None}

TypeOK ==
    /\ ask \in Request \cup {None}
    /\ state \in State
    /\ req \in Current \cup {None}
    /\ state \in {"init", "idle"} <=> req = None
    /\ held \in HeldType
    /\ response \in Reply \cup {None}
    /\ response # None <=> state = "done"
    /\ selected \in Copy \cup {None}
    /\ tagEpoch \in BOOLEAN /\ wrapping \in BOOLEAN
    /\ setEpoch \in [Set -> Epoch]
    /\ ram \in [Set -> [Way -> Entry \cup {None}]]
    /\ victim \in Way /\ initSet \in Set
    /\ port \in Transfer \cup {None}
    /\ peer \in [Peer -> PeerStore \cup {None}]
    /\ dma \subseteq Shared
    /\ mem \in [Word -> Version] /\ floor \in [Word -> Version]
    /\ performed \in 0 .. 2

\* Reset enters the walk that clears the tags, which hold anything before it.
Init ==
    /\ ask = None
    /\ state = "init" /\ req = None /\ held = None
    /\ response = None /\ selected = None
    /\ tagEpoch = FALSE /\ setEpoch = [s \in Set |-> 0] /\ wrapping = FALSE
    /\ ram = [s \in Set |-> [w \in Way |->
               [line |-> s, epoch |-> FALSE, setEpoch |-> 0, words |-> [i \in 1 .. Beats |-> 0]]]]
    /\ victim = 0 /\ initSet = 0
    /\ port = None /\ peer = [p \in Peer |-> None] /\ dma = {}
    /\ mem = [w \in Word |-> 0] /\ floor = [w \in Word |-> 0]
    /\ performed = 0

-----------------------------------------------------------------------------
(* What the registers show during a cycle. *)

\* cpu_response_comb.busy: while it holds, the core presents nothing.
Busy == wrapping \/ state \in {"init", "lookup", "compare", "select", "assemble", "refill"}
Writing == ask # None /\ ask.op = "store" /\ ~Busy
Reading == ask # None /\ ask.op # "store" /\ ~Busy

SelectedHit ==
    /\ state = "idle" /\ Reading /\ ask.op = "load"
    /\ selected # None /\ selected.line = LineOf(ask.word)

\* mem_driver_comb: the request the controller presents to the mailbox.
Driven ==
    CASE Writing -> [op |-> "store", word |-> ask.word]
      [] state = "refill" ->
            [op |-> "load",
             word |-> IF req.cacheable THEN WordAt(LineOf(req.word), Len(held) + 1)
                                       ELSE req.word]
      [] OTHER -> None

\* ~mem_out.wait_out while a request is presented
Taken == Driven # None /\ port # None /\ ~port.orphan /\ port.answer # None

\* read_valid_out with the address the core waits for
Loaded ==
    /\ ask # None /\ ask.op # "store" /\ ~wrapping
    /\ IF response # None THEN response.word = ask.word ELSE SelectedHit
LoadedVersion ==
    IF response # None THEN response.version ELSE selected.words[Place(ask.word)]

Stored == Writing /\ Taken

\* The stores that peer_invalidate_comb sees.  A single one is a snoop of its line;
\* two at once become an invalidation of the whole cache.
Announced == {p \in Peer : peer[p] # None /\ peer[p].at = "announced"}
Flood == Cardinality(Announced) > 1
Snooped == IF Flood THEN {} ELSE {LineOf(peer[p].word) : p \in Announced}
SnoopedSet(s) == \E l \in Snooped : SetOf(l) = s

\* external_cache_invalidate_ready_out of every core
Ready ==
    /\ ask = None /\ state # "refill"
    /\ \A p \in Peer : peer[p] # None => peer[p].at = "announced"

-----------------------------------------------------------------------------
(* The rest of the edge, outside the chain of states. *)

\* Mutant of Overflow: the last epoch is taken for one more.
OverflowNever == \E s \in Set : SnoopedSet(s) /\ setEpoch[s] = Epochs

Overflow == \E s \in Set : SnoopedSet(s) /\ setEpoch[s] = Epochs - 1

Snoop ==
    /\ setEpoch' = [s \in Set |->
                      IF SnoopedSet(s) THEN (setEpoch[s] + 1) % Epochs ELSE setEpoch[s]]
    /\ tagEpoch' = (tagEpoch # Overflow)

LastBeat == state = "refill" /\ req.cacheable /\ Taken /\ Len(held) = Beats - 1

\* The line a last beat installs, with the epochs as they are registered.
Installed ==
    [line |-> LineOf(req.word), epoch |-> tagEpoch,
     setEpoch |-> setEpoch[SetOf(LineOf(req.word))], words |-> Append(held, port.answer)]

TagEdge ==
    LET cleared == CASE state = "init" -> {initSet}
                     [] Writing -> {SetOf(LineOf(ask.word))}
                     [] OTHER -> {}
    IN ram' = [s \in Set |-> [w \in Way |->
                IF s \in cleared THEN None
                ELSE IF LastBeat /\ s = SetOf(LineOf(req.word)) /\ w = victim
                THEN Installed
                ELSE ram[s][w]]]

\* Mutant of Selecting: a snoop does not reach the selected line.
SelectingUnsnooped(next, invalidate) ==
    selected' = IF Writing \/ invalidate \/ wrapping THEN None ELSE next

\* The writes of selected_line_reg.valid behind the chain, which has chosen next.
Selecting(next, invalidate) ==
    selected' = IF \/ Writing \/ invalidate \/ wrapping
                   \/ (selected # None /\ SnoopedSet(SetOf(selected.line)))
                THEN None ELSE next

\* The edge of clk of L1MemFastToSlowCdc, at which the request under way may be
\* performed: own; its answer is one of answers.
PortEdge(own, answers) ==
    CASE port = None ->
           port' = IF Driven = None THEN None
                   ELSE [op |-> Driven.op, word |-> Driven.word, orphan |-> FALSE, answer |-> None]
      [] port # None /\ port.answer # None -> port' = None
      [] OTHER -> \E a \in answers :
           port' = [port EXCEPT !.orphan = @ \/ Driven = None, !.answer = IF own THEN a ELSE None]

\* The core keeps its request until it is answered and is seen without one before a
\* load: a load crosses two more registers before it retires.
CoreEdge(own) ==
    /\ ask' \in
         CASE ask = None -> {None} \cup {r \in Request : r.op = "store" => mem[r.word] < MaxVersion}
           [] Loaded \/ Stored -> {None}
           [] OTHER -> {ask}
    /\ performed' = CASE ask' # ask -> 0
                      [] own /\ port.op = "store" -> IF performed = 2 THEN 2 ELSE performed + 1
                      [] OTHER -> performed

\* One more store of each of these words, beyond the bound no more can be told apart.
Advance(m, words) ==
    [w \in Word |-> IF w \in words /\ m[w] < MaxVersion THEN m[w] + 1 ELSE m[w]]

\* At most one answer is visible to each core, and the stores of an edge differ in
\* their words.  Bound: a device writes on edges of its own.
Storing(p, w) ==
    /\ peer[p] # None => peer[p].at = "withdrawn" /\ peer[p].word = w
    /\ mem[w] < MaxVersion

PeerEdge(stores, withdrawn) ==
    peer' = [p \in Peer |->
      CASE stores[p] # None ->
             [word |-> stores[p], version |-> mem'[stores[p]],
              at |-> IF p \in withdrawn THEN "withdrawn" ELSE "answered"]
        [] peer[p] # None /\ peer[p].at = "answered" -> [peer[p] EXCEPT !.at = "announced"]
        [] p \in Announced -> None
        [] OTHER -> peer[p]]

\* A load may not return less than what was announced, what the core stored and what it
\* has loaded; a direct load may be ahead of an announcement that is still to come.
Settled(w) ==
    \/ ask.op = "load"
    \/ /\ w \notin dma
       /\ \A p \in Peer : peer[p] # None => peer[p].word # w \/ peer[p].at # "withdrawn"

FloorEdge(external) ==
    floor' = [w \in Word |-> Max(
      {floor[w]} \cup {peer[p].version : p \in {q \in Announced : peer[q].word = w}}
        \cup (IF external /\ w \in dma THEN {mem[w]} ELSE {})
        \cup (IF Stored /\ w = ask.word THEN {port.answer} ELSE {})
        \cup (IF Loaded /\ w = ask.word /\ Settled(w) THEN {LoadedVersion} ELSE {}))]

MemoryEdge(external, own) ==
    LET ownStore == IF own /\ port.op = "store" THEN {port.word} ELSE {} IN
    /\ \/ \E stores \in [Peer -> Shared \cup {None}] :
            LET words == {stores[p] : p \in Peer} \ {None} IN
            /\ \A p \in Peer : stores[p] # None => Storing(p, stores[p])
            /\ \A p, q \in Peer : stores[p] = stores[q] /\ stores[p] # None => p = q
            /\ words \cap ownStore = {}
            /\ mem' = Advance(mem, words \cup ownStore)
            /\ \E withdrawn \in SUBSET {p \in Peer : stores[p] # None /\ peer[p] = None} :
                 PeerEdge(stores, withdrawn)
            /\ dma' = IF external THEN {} ELSE dma
       \/ \E w \in Shared :
            /\ ~external /\ ~own /\ mem[w] < MaxVersion
            /\ mem' = Advance(mem, {w})
            /\ PeerEdge([p \in Peer |-> None], {})
            /\ dma' = dma \cup {w}
    /\ PortEdge(own, IF ~own THEN {None}
                     ELSE IF port.op = "store" THEN {mem'[port.word]}
                     ELSE {mem[port.word], mem'[port.word]})

\* Everything of the edge but the chain of states.
Around(external, own) ==
    /\ external => Ready /\ dma # {}
    /\ own => port # None /\ port.answer = None
    /\ Snoop /\ TagEdge
    /\ CoreEdge(own) /\ FloorEdge(external) /\ MemoryEdge(external, own)

-----------------------------------------------------------------------------
(* The chain of states, in the order of its priorities. *)

Walk ==
    /\ state' = "init" /\ initSet' = 0
    /\ req' = None /\ held' = None /\ response' = None
    /\ UNCHANGED victim

ClearAfterWrap(external) ==
    /\ wrapping
    /\ Walk /\ wrapping' = FALSE
    /\ Selecting(selected, external \/ Flood)

Conflict == req # None /\ LineOf(req.word) \in Snooped

\* Mutant of Abort: the read bit of the request stays.
AbortKeepsRead(external) ==
    /\ ~wrapping /\ Conflict
    /\ state' = "idle" /\ held' = None /\ response' = None
    /\ wrapping' = Overflow
    /\ Selecting(selected, external)
    /\ UNCHANGED <<req, victim, initSet>>

Abort(external) ==
    /\ ~wrapping /\ Conflict
    /\ state' = "idle" /\ req' = None /\ held' = None /\ response' = None
    /\ wrapping' = Overflow
    /\ Selecting(selected, external)
    /\ UNCHANGED <<victim, initSet>>

ClearAll(external) ==
    /\ ~wrapping /\ ~Conflict /\ (external \/ Flood)
    /\ Walk /\ wrapping' = Overflow
    /\ Selecting(selected, TRUE)

Calm(external) ==
    /\ ~wrapping /\ ~Conflict /\ ~external /\ ~Flood
    /\ wrapping' = Overflow

Stay == UNCHANGED <<req, response, victim, initSet>> /\ Selecting(selected, FALSE)

InitSet ==
    /\ state = "init"
    /\ IF initSet = Sets - 1 THEN state' = "idle" /\ UNCHANGED initSet
                             ELSE initSet' = initSet + 1 /\ UNCHANGED state
    /\ Selecting(selected, FALSE)
    /\ UNCHANGED <<req, held, response, victim>>

Idle ==
    /\ state = "idle" /\ (~Reading \/ SelectedHit)
    /\ Stay /\ UNCHANGED <<state, held>>

Accept ==
    /\ state = "idle" /\ Reading /\ ~SelectedHit
    /\ req' = [word |-> ask.word, cacheable |-> ask.op = "load"]
    /\ held' = ram[SetOf(LineOf(ask.word))]
    /\ state' = "lookup"
    /\ Selecting(selected, FALSE)
    /\ UNCHANGED <<response, victim, initSet>>

Lookup ==
    /\ state = "lookup" /\ state' = "compare"
    /\ Stay /\ UNCHANGED held

\* lookup_comb: the last way that matches with the epochs of now.
Matching(w) ==
    LET line == LineOf(req.word) IN
    /\ req.cacheable /\ held[w] # None
    /\ held[w].epoch = tagEpoch /\ held[w].setEpoch = setEpoch[SetOf(line)]
    /\ held[w].line = line

Compare ==
    /\ state = "compare" /\ state' = "select"
    /\ LET hits == {w \in Way : Matching(w)} IN
         held' = IF hits = {} THEN None ELSE held[Max(hits)].words
    /\ Stay

SelectHit ==
    /\ state = "select" /\ held # None
    /\ state' = "assemble"
    /\ Selecting([line |-> LineOf(req.word), words |-> held], FALSE)
    /\ UNCHANGED <<req, held, response, victim, initSet>>

SelectMiss ==
    /\ state = "select" /\ held = None
    /\ state' = "refill" /\ held' = <<>>
    /\ Stay

Assemble ==
    /\ state = "assemble" /\ state' = "done" /\ held' = None
    /\ response' = [word |-> req.word, version |-> held[Place(req.word)]]
    /\ Selecting(selected, FALSE)
    /\ UNCHANGED <<req, victim, initSet>>

RefillWait ==
    /\ state = "refill" /\ ~Taken
    /\ Stay /\ UNCHANGED <<state, held>>

\* Mutant of RefillBeat: the beat counter is not stepped.
RefillBeatStays ==
    /\ state = "refill" /\ req.cacheable /\ Taken /\ ~LastBeat
    /\ Stay /\ UNCHANGED <<state, held>>

RefillBeat ==
    /\ state = "refill" /\ req.cacheable /\ Taken /\ ~LastBeat
    /\ held' = Append(held, port.answer)
    /\ Stay /\ UNCHANGED state

RefillLast ==
    /\ LastBeat
    /\ LET line == Append(held, port.answer) IN
         /\ response' = [word |-> req.word, version |-> line[Place(req.word)]]
         /\ Selecting([line |-> LineOf(req.word), words |-> line], FALSE)
    /\ victim' = (victim + 1) % Ways
    /\ state' = "done" /\ held' = None
    /\ UNCHANGED <<req, initSet>>

RefillDirect ==
    /\ state = "refill" /\ ~req.cacheable /\ Taken
    /\ response' = [word |-> req.word, version |-> port.answer]
    /\ state' = "done" /\ held' = None
    /\ Selecting(selected, FALSE)
    /\ UNCHANGED <<req, victim, initSet>>

\* The core has its load, so it presents none: a load that starts here is not reached.
Retire ==
    /\ state = "done" /\ state' = "idle"
    /\ req' = None /\ response' = None
    /\ Selecting(selected, FALSE)
    /\ UNCHANGED <<held, victim, initSet>>

Control(external) ==
    \/ ClearAfterWrap(external) \/ Abort(external) \/ ClearAll(external)
    \/ Calm(external) /\ (\/ InitSet \/ Idle \/ Accept \/ Lookup \/ Compare
                          \/ SelectHit \/ SelectMiss \/ Assemble
                          \/ RefillWait \/ RefillBeat \/ RefillLast \/ RefillDirect
                          \/ Retire)

Edge(own) == \E external \in BOOLEAN : Control(external) /\ Around(external, own)

Next == \E own \in BOOLEAN : Edge(own)

\* The clock runs, and the L2 answers.
Spec == Init /\ [][Next]_vars /\ WF_vars(Next) /\ WF_vars(Edge(TRUE))

-----------------------------------------------------------------------------
(* Properties. *)

\* A load never returns a word older than a store that was announced to this core, a
\* store it made itself, or a value it loaded before (L1CacheController.h, the snoop).
Coherent == Loaded => LoadedVersion >= floor[ask.word]

\* The copies that a load may still be answered from.
Live(s, w) ==
    ram[s][w] # None /\ ram[s][w].epoch = tagEpoch /\ ram[s][w].setEpoch = setEpoch[s]
Copies(word) ==
    LET l == LineOf(word)
        s == SetOf(l) IN
    {ram[s][w].words[Place(word)] : w \in {v \in Way : Live(s, v) /\ ram[s][v].line = l}}
      \cup (IF selected # None /\ selected.line = l THEN {selected.words[Place(word)]} ELSE {})

\* A copy that is behind memory is about to go: the store that outran it is still to be
\* announced, by its core or by the driver of the device, or is the core's own.
StaleIsAnnounced ==
    ~wrapping /\ state # "init" => \A word \in Shared : \A v \in Copies(word) :
        \/ v = mem[word] \/ word \in dma
        \/ \E p \in Peer : peer[p] # None /\ peer[p].word = word
        \/ ask # None /\ ask.op = "store" /\ ask.word = word

\* Every request of the core is answered, whatever the peers announce meanwhile: aborted
\* loads start over, and the walks of the tags end.
RequestEnds == \A r \in Request : ask = r ~> ask # r

\* TribeTestModule.h and Tribe.h: a store is performed once.
StoreOnce == performed < 2

=============================================================================
