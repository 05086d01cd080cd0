--------------------------- MODULE L2CacheProofs ----------------------------
(***************************************************************************)
(* Proofs about the L2 cache for any geometry, any number of ports and any  *)
(* requests.                                                                *)
(***************************************************************************)
EXTENDS L2Cache, FiniteSetTheorems, WellFoundedInduction, TLAPS

Sets == 0 .. shape.sets - 1
Backed == (Ram \X Word) \cup {<<IoLine, 0>>}
Entry == [valid : BOOLEAN, dirty : BOOLEAN, tag : Nat, words : [Word -> Value]]

\* The requests of agents, and of ports.
Asked ==
    {r \in [write : BOOLEAN, line : Ram \cup {IoLine, OutsideLine}, word : Word, wide : BOOLEAN,
            words : SUBSET Word, value : Value] : ~r.write => r.words = {}}
Served ==
    {r \in [port : Port, write : BOOLEAN, line : Ram \cup {IoLine, OutsideLine}, word : Word,
            wide : BOOLEAN, words : SUBSET Word, value : Value] :
        (~r.write => r.words = {}) /\ r.port[1] < shape.cpus}

AskTypes ==
    /\ ask \in [Port -> Asked \cup {None}]
    /\ \A p \in Port : ask[p] # None => p[1] < shape.cpus
    /\ axi = [aw |-> axi.aw, w |-> axi.w, late |-> axi.late, ar |-> axi.ar]
    /\ \A r \in {axi.aw, axi.w, axi.late, slave.aw} \ {None} : r \in Asked /\ r.write
    /\ axi.ar # None => axi.ar \in Asked /\ ~axi.ar.write

PathTypes ==
    /\ shape \in Shapes
    /\ state \in States
    /\ initSet \in Sets
    /\ (req = None) = (state \in {"INIT", "IDLE"})
    /\ pipe # None => state = "IDLE" /\ pipe \in Served
    /\ req # None => req \in Served
    /\ rr \in 0 .. shape.cpus - 1 /\ victim \in Way
    /\ work = [hit |-> work.hit, way |-> work.way, evict |-> work.evict, beat |-> work.beat,
               out |-> work.out, refill |-> work.refill, kept |-> work.kept, low |-> work.low,
               high |-> work.high]
    /\ work.way \in Way /\ work.beat \in 0 .. Beats - 1 /\ work.out \in 0 .. Beats - 1

StoreTypes ==
    /\ ram \in [Sets -> [Way -> Entry]]
    /\ memory \in [Backed -> Value] /\ golden \in [Backed -> Value]

\* The ways that hold the line with a tag, but for the one under refill.
Holds(s, w, t) == ram[s][w].valid /\ ram[s][w].tag = t /\ ~Filling(s, w)

\* A valid line is one of RAM, with the data the agents believe in, and no other way has it.
EntryInv ==
    state # "INIT" => \A s \in Sets, w \in Way :
        ram[s][w].valid /\ ~Filling(s, w) =>
            /\ LineOf(s, ram[s][w].tag) \in Ram
            /\ HoldsBelief(LineOf(s, ram[s][w].tag), ram[s][w].words)
            /\ \A v \in Way : Holds(s, v, ram[s][w].tag) => v = w

\* What no dirty line holds is right in memory.
MemoryInv ==
    state # "INIT" => \A l \in Ram :
        (\A w \in Way : Holds(SetOf(l), w, TagOf(l)) => ~ram[SetOf(l)][w].dirty)
            => \A w \in Word : memory[<<l, w>>] = golden[<<l, w>>]

\* The walk after reset has cleared the sets before its index.
InitInv ==
    state = "INIT" =>
        /\ memory = golden
        /\ \A s \in 0 .. initSet - 1, w \in Way : ~ram[s][w].valid

Absent == \A w \in Way : ~Holds(SetOf(req.line), w, TagOf(req.line))
Evicting == {"EVICT_AW", "EVICT_W", "EVICT_B"}
Refilling == {"AXI_AR", "AXI_R", "AXI_R_WRITE"}
Uncached == {"IO_AW", "IO_W", "IO_B", "IO_AR", "IO_R", "IO_R_RESULT"}
Victim == ram[SetOf(req.line)][work.way]
Merged(w) == IF w \in req.words THEN req.value ELSE golden[<<req.line, w>>]

\* What the registers of the present request stand for.
WorkInv ==
    /\ state = "LOOKUP_RESULT" =>
         /\ work.evict = ram[SetOf(req.line)][victim]
         /\ work.hit \in BOOLEAN
         /\ IF work.hit THEN Holds(SetOf(req.line), work.way, TagOf(req.line)) ELSE Absent
    /\ state \in Evicting \cup Refilling =>
         req.line \in Ram /\ work.way = victim /\ Absent
    /\ state \in Evicting =>
         /\ Victim.valid /\ Victim.dirty /\ work.evict = Victim /\ work.beat = 0
         /\ \A w \in Word :
              BeatOf(w) < work.out \/ (state = "EVICT_B" /\ BeatOf(w) = work.out) =>
                memory[<<LineOf(SetOf(req.line), Victim.tag), w>>] = Victim.words[w]
    /\ state \in Refilling =>
         \A w \in Word : BeatOf(w) < work.beat => Victim.words[w] = Merged(w)
    /\ state \in Uncached => req.line = IoLine
    /\ state = "AXI_R_WRITE" =>
         work.refill = [w \in BeatWords(work.beat) |-> golden[<<req.line, w>>]]

Inv ==
    /\ AskTypes /\ PathTypes /\ StoreTypes
    /\ EntryInv /\ MemoryInv /\ InitInv /\ WorkInv

-----------------------------------------------------------------------------
(* Geometry. *)

\* Every set of naturals has a least member.
LEMMA LeastMember ==
    ASSUME NEW S \in SUBSET Nat, S # {}
    PROVE  \E m \in S : \A x \in S : m <= x
<1> DEFINE R == OpToRel(<, Nat)
<1>1. IsWellFoundedOn(R, Nat)
    BY NatLessThanWellFounded
<1>2. \A x, y \in Nat : x < y => <<x, y>> \in R
    BY DEF OpToRel
<1> HIDE DEF R
<1>3. PICK m \in S : \A y \in S : ~(<<y, m>> \in R)
    BY <1>1, WFMin, Zenon
<1>4. \A y \in S : ~(y < m)
    BY <1>2, <1>3
<1> QED
    BY <1>4

\* The quotient and the remainder of a tag times the sets plus a set.
LEMMA DivisionOfSum ==
    ASSUME NEW n \in Nat \ {0}, NEW s \in 0 .. n - 1, NEW t \in Nat
    PROVE  (t * n + s) % n = s /\ (t * n + s) \div n = t
<1> DEFINE l == t * n + s
<1>1. t * n \in Nat /\ l \in Nat
    OBVIOUS
<1>2. l \div n \in Nat /\ l % n \in 0 .. n - 1 /\ l = (l \div n) * n + (l % n)
    BY <1>1, SMTT(30)
<1> DEFINE q == l \div n
           r == l % n
<1> HIDE DEF l, q, r
<1>3. q \in Nat /\ r \in 0 .. n - 1 /\ l = q * n + r /\ l = t * n + s
    BY <1>2 DEF q, r, l
<1>4. q = t
  <2>1. CASE q < t
    <3>1. q + 1 <= t /\ t - (q + 1) \in Nat
        BY <1>3, <2>1
    <3>2. t * n = q * n + n + (t - (q + 1)) * n /\ (t - (q + 1)) * n \in Nat
        BY <1>3, <3>1
    <3>3. q * n \in Nat
        BY <1>3
    <3> QED
        BY <1>3, <3>2, <3>3
  <2>2. CASE t < q
    <3>1. t + 1 <= q /\ q - (t + 1) \in Nat
        BY <1>3, <2>2
    <3>2. q * n = t * n + n + (q - (t + 1)) * n /\ (q - (t + 1)) * n \in Nat
        BY <1>3, <3>1
    <3> QED
        BY <1>1, <1>3, <3>2
  <2> QED
      BY <1>3, <2>1, <2>2
<1>5. r = s
    BY <1>1, <1>3, <1>4
<1> QED
    BY <1>4, <1>5 DEF q, r, l

\* The geometry of an instance.
LEMMA ShapeTypes ==
    ASSUME shape \in Shapes
    PROVE  /\ shape.cpus \in Nat \ {0} /\ shape.cpus <= Cpus /\ Cpus \in Nat
           /\ shape.sets \in Nat \ {0} /\ shape.ways \in Nat \ {0} /\ shape.words \in Nat \ {0}
           /\ shape.port \in Nat \ {0} /\ shape.lines \in Nat \ {0} /\ shape.lines <= IoLine
           /\ shape.words % shape.port = 0 /\ MaxValue \in Nat
    BY GeometryAssumption DEF IoLine

\* A line is its set and its tag.
LEMMA LineParts ==
    ASSUME shape \in Shapes
    PROVE  /\ \A l \in Nat : /\ SetOf(l) \in Sets /\ TagOf(l) \in Nat
                             /\ LineOf(SetOf(l), TagOf(l)) = l
           /\ \A s \in Sets, t \in Nat :
                /\ LineOf(s, t) \in Nat
                /\ SetOf(LineOf(s, t)) = s /\ TagOf(LineOf(s, t)) = t
<1> DEFINE n == shape.sets
<1>1. n \in Nat \ {0}
    BY ShapeTypes
<1> HIDE DEF n
<1>2. \A l \in Nat : l % n \in 0 .. n - 1 /\ l \div n \in Nat /\ (l \div n) * n + (l % n) = l
    BY <1>1, SMTT(30)
<1>3. \A s \in 0 .. n - 1, t \in Nat :
         t * n + s \in Nat /\ (t * n + s) % n = s /\ (t * n + s) \div n = t
    BY <1>1, DivisionOfSum
<1> QED
    BY <1>2, <1>3 DEF SetOf, TagOf, LineOf, Sets, n

\* A word is in one of the beats of a line.
LEMMA BeatParts ==
    ASSUME shape \in Shapes
    PROVE  /\ Beats \in Nat \ {0}
           /\ \A w \in Word : BeatOf(w) \in 0 .. Beats - 1
<1> DEFINE n == shape.port
           m == shape.words
<1>1. n \in Nat \ {0} /\ m \in Nat \ {0} /\ m % n = 0
    BY ShapeTypes
<1> HIDE DEF n, m
<1> DEFINE k == m \div n
<1>2. k \in Nat /\ m = k * n
  <2>1. m \div n \in Nat /\ m = (m \div n) * n + (m % n)
      BY <1>1, SMTT(30)
  <2> QED
      BY <1>1, <2>1
<1> HIDE DEF k
<1>3. k # 0
    BY <1>1, <1>2
<1>4. \A w \in 0 .. m - 1 : w \div n \in 0 .. k - 1
  <2> TAKE w \in 0 .. m - 1
  <2> DEFINE q == w \div n
             r == w % n
  <2>1. q \in Nat /\ r \in 0 .. n - 1 /\ w = q * n + r
      BY <1>1, SMTT(30)
  <2> HIDE DEF q, r
  <2>2. q < k
    <3> SUFFICES ASSUME k <= q PROVE FALSE
        BY <1>2, <2>1
    <3>1. q - k \in Nat /\ (q - k) * n \in Nat /\ q * n = k * n + (q - k) * n
        BY <1>1, <1>2, <2>1
    <3> QED
        BY <1>1, <1>2, <2>1, <3>1
  <2> QED
      BY <1>2, <2>1, <2>2 DEF q
<1> QED
    BY <1>2, <1>3, <1>4 DEF Beats, BeatOf, Word, n, m, k

\* The geometry does not change.
LEMMA ShapeStays ==
    ASSUME shape' = shape
    PROVE  /\ Sets' = Sets /\ Way' = Way /\ Word' = Word /\ Ram' = Ram /\ Backed' = Backed
           /\ Beats' = Beats /\ Entry' = Entry /\ Asked' = Asked /\ Served' = Served
           /\ \A l : SetOf(l)' = SetOf(l) /\ TagOf(l)' = TagOf(l)
           /\ \A s, t : LineOf(s, t)' = LineOf(s, t)
           /\ \A w : BeatOf(w)' = BeatOf(w)
           /\ \A b : BeatWords(b)' = BeatWords(b)
<1>1. /\ Sets' = Sets /\ Way' = Way /\ Word' = Word /\ Ram' = Ram /\ Beats' = Beats
      /\ \A l : SetOf(l)' = SetOf(l) /\ TagOf(l)' = TagOf(l)
      /\ \A s, t : LineOf(s, t)' = LineOf(s, t)
      /\ \A w : BeatOf(w)' = BeatOf(w)
    BY DEF Sets, Way, Word, Ram, Beats, SetOf, TagOf, LineOf, BeatOf
<1>2. Backed' = Backed /\ Entry' = Entry /\ Asked' = Asked /\ Served' = Served
    BY <1>1 DEF Backed, Entry, Asked, Served
<1>3. \A b : BeatWords(b)' = BeatWords(b)
    BY <1>1 DEF BeatWords
<1> QED
    BY <1>1, <1>2, <1>3

-----------------------------------------------------------------------------
(* Requests. *)

\* Every edge keeps the types of what is asked.
LEMMA EdgeTypes ==
    ASSUME AskTypes, NEW reply, Edge(reply)
    PROVE  AskTypes' /\ shape' = shape
<1>1. shape' = shape /\ Asked' = Asked
    BY ShapeStays DEF Edge
<1>2. ask' \in [Port -> Asked \cup {None}] /\ \A p \in Port : ask'[p] # None => p[1] < shape.cpus
  <2>1. ask' = [p \in Port |-> IF Answered(p) THEN None ELSE ask[p]]
      BY DEF Edge
  <2> QED
      BY <2>1 DEF AskTypes
<1>3. \A r \in {axi'.aw, axi'.w, axi'.late, slave'.aw} : r \in {axi.aw, axi.w, axi.late, slave.aw, None}
    BY DEF Edge, Held
<1>4. axi'.ar \in {axi.ar, None}
    BY DEF Edge, Held
<1>5. axi' = [aw |-> axi'.aw, w |-> axi'.w, late |-> axi'.late, ar |-> axi'.ar]
    BY DEF Edge
<1> QED
    BY <1>1, <1>2, <1>3, <1>4, <1>5 DEF AskTypes

\* The round robin finds a pair that asks, and the port of it that does.
LEMMA ChosenAsks ==
    ASSUME AskTypes, PathTypes, NEW c \in Cpu, Pending(c)
    PROVE  Chosen \in Port \ {Slave} /\ ask[Chosen] # None
<1> DEFINE n == shape.cpus
           N == {m \in 0 .. n - 1 : Pending((rr + m) % n)}
<1>2. n \in Nat \ {0} /\ rr \in 0 .. n - 1 /\ Cpus \in Nat
    BY ShapeTypes DEF PathTypes
<1>3. \A k \in {"d", "i"} : <<c, k>> \in Port
    BY DEF Port
<1>4. c \in 0 .. n - 1
    BY <1>2, <1>3 DEF AskTypes, Pending, Cpu
<1>5. \E m \in 0 .. n - 1 : (rr + m) % n = c
  <2>1. CASE rr <= c
    <3>1. (rr + (c - rr)) % n = c /\ c - rr \in 0 .. n - 1
        BY <1>2, <1>4, <2>1
    <3> QED
        BY <3>1
  <2>2. CASE c < rr
    <3>1. 1 * n + c = rr + (c + n - rr) /\ c + n - rr \in 0 .. n - 1
        BY <1>2, <1>4, <2>2
    <3>2. (1 * n + c) % n = c
        BY <1>2, <1>4, DivisionOfSum
    <3> QED
        BY <3>1, <3>2
  <2> QED
      BY <1>2, <1>4, <2>1, <2>2
<1>6. N # {} /\ N \subseteq Nat
    BY <1>2, <1>5
<1>7. PICK m \in N : \A x \in N : m <= x
    BY <1>6, LeastMember
<1>8. \A j \in 0 .. m - 1 : ~Pending((rr + j) % n)
  <2>1. \A j \in 0 .. m - 1 : j \in 0 .. n - 1 /\ ~(m <= j)
      BY <1>2, <1>7
  <2>2. \A j \in 0 .. m - 1 : j \notin N
      BY <1>7, <2>1
  <2> QED
      BY <2>1, <2>2, Zenon
<1>9. \E j \in 0 .. n - 1 : Pending(Candidate(j)) /\ \A i \in 0 .. j - 1 : ~Pending(Candidate(i))
    BY <1>7, <1>8 DEF Candidate
<1>10. FirstPending \in 0 .. n - 1 /\ Pending(Candidate(FirstPending))
    BY <1>9, Zenon DEF FirstPending
<1>11. Candidate(FirstPending) \in Cpu
  <2>1. \A j \in 0 .. n - 1 : (rr + j) % n \in 0 .. n - 1
      BY <1>2
  <2> QED
      BY <1>2, <1>10, <2>1, ShapeTypes DEF Candidate, Cpu, PathTypes
<1> QED
    BY <1>10, <1>11 DEF Chosen, Pending, Port, Slave

\* The request that arbitration chooses is one that is asked.
LEMMA ActiveServed ==
    ASSUME AskTypes, PathTypes, Active # None
    PROVE  Active \in Served
<1>1. \A p \in Port, r \in Asked : p[1] < shape.cpus => AsRequest(p, r) \in Served
    BY DEF AsRequest, Asked, Served
<1>2. Slave \in Port /\ Slave[1] < shape.cpus
    BY ShapeTypes DEF Slave, Port, PathTypes
<1>3. CASE WritePending
  <2> DEFINE address == IF slave.aw # None THEN slave.aw ELSE axi.aw
             r == [address EXCEPT !.words = axi.w.words, !.value = axi.w.value]
  <2>1. address \in Asked /\ address.write /\ axi.w \in Asked
      BY <1>3 DEF WritePending, AskTypes
  <2>2. r \in Asked
      BY <2>1 DEF Asked
  <2> QED
      BY <1>1, <1>2, <1>3, <2>2 DEF Active
<1>4. CASE ~WritePending /\ ReadPending
  <2>1. axi.ar \in Asked
      BY <1>4 DEF ReadPending, AskTypes
  <2> QED
      BY <1>1, <1>2, <1>4, <2>1 DEF Active
<1>5. CASE ~WritePending /\ ~ReadPending
  <2>1. PICK c \in Cpu : Pending(c)
      BY <1>5 DEF Active
  <2>2. Chosen \in Port /\ ask[Chosen] # None
      BY <2>1, ChosenAsks
  <2>3. ask[Chosen] \in Asked /\ Chosen[1] < shape.cpus
      BY <2>2 DEF AskTypes
  <2> QED
      BY <1>1, <1>5, <2>1, <2>2, <2>3 DEF Active
<1> QED
    BY <1>3, <1>4, <1>5

\* A store of any words has a first one, and a value.
LEMMA StoreAsked ==
    ASSUME StoreTypes, shape \in Shapes, NEW l \in Ram \cup {IoLine}, NEW ws \in SUBSET Word,
           ws # {}, l = IoLine => ws = {0}
    PROVE  Store(l, ws) \in Asked /\ Store(l, ws).write
<1> DEFINE first == CHOOSE w \in ws : \A x \in ws : w <= x
<1>1. ws \subseteq Nat
    BY DEF Word
<1>2. \E w \in ws : \A x \in ws : w <= x
    BY <1>1, LeastMember
<1>3. first \in ws /\ first \in Word
    BY <1>2
<1> HIDE DEF first
<1>4. <<l, first>> \in Backed
    BY <1>3 DEF Backed
<1>5. golden[<<l, first>>] \in Value
    BY <1>4 DEF StoreTypes
<1>6. \A v \in Value : NextValue(v) \in Value
    BY ShapeTypes DEF Value, NextValue
<1>7. NextValue(golden[<<l, first>>]) \in Value
    BY <1>5, <1>6
<1>8. Store(l, ws) = [write |-> TRUE, line |-> l, word |-> first, wide |-> FALSE, words |-> ws,
                      value |-> NextValue(golden[<<l, first>>])]
    BY DEF Store, first
<1> QED
    BY <1>3, <1>7, <1>8 DEF Asked

\* Every request an agent may ask for is one.
LEMMA RequestsAsked ==
    ASSUME StoreTypes, shape \in Shapes, NEW p \in Port
    PROVE  Requests(p) \subseteq Asked
<1>1. 0 \in Word /\ 0 \in Value
    BY ShapeTypes DEF Word, Value
<1>2. \A l \in Ram \cup {IoLine, OutsideLine}, w \in Word, wide \in BOOLEAN : Load(l, w, wide) \in Asked
    BY <1>1 DEF Load, Asked
<1>3. BeatLoads \subseteq Asked
  <2>1. \A l \in Ram, w \in FirstWords : Load(l, w, FALSE) \in Asked
      BY <1>2 DEF FirstWords
  <2>2. \A r \in BeatLoads : \E l \in Ram, w \in FirstWords : r = Load(l, w, FALSE)
      BY DEF BeatLoads, Load
  <2> QED
      BY <2>1, <2>2
<1>4. \A ends \in SUBSET Word : WideLoads(ends) \subseteq Asked
    BY <1>2 DEF WideLoads
<1>5. \A sets \in SUBSET SUBSET Word : {} \notin sets => Stores(sets) \subseteq Asked
  <2> TAKE sets \in SUBSET SUBSET Word
  <2> HAVE {} \notin sets
  <2>1. IoLine \notin Ram
      BY ShapeTypes DEF Ram, IoLine
  <2>2. \A l \in Ram, ws \in sets : Store(l, ws) \in Asked
    <3> TAKE l \in Ram, ws \in sets
    <3> QED
        BY <2>1, StoreAsked
  <2> QED
      BY <2>2 DEF Stores
<1>6. DataRequests \subseteq Asked
  <2> DEFINE ends == {w \in Word : BeatEnd(w) /\ shape.words > 1}
             sets == {{w} : w \in Word} \cup {{w, w + 1} \cap Word : w \in Word}
             rest == IF shape.io THEN {Load(IoLine, 0, FALSE), Store(IoLine, {0}), Load(OutsideLine, 0, FALSE)} ELSE {}
  <2>1. WideLoads(ends) \subseteq Asked
      BY <1>4
  <2>2. sets \in SUBSET SUBSET Word /\ {} \notin sets
      OBVIOUS
  <2>3. Stores(sets) \subseteq Asked
      BY <1>5, <2>2
  <2>4. rest \subseteq Asked
      BY <1>1, <1>2, StoreAsked
  <2> HIDE DEF ends, sets, rest
  <2>5. DataRequests = BeatLoads \cup WideLoads(ends) \cup Stores(sets) \cup rest
      BY DEF DataRequests, ends, sets, rest
  <2> QED
      BY <1>3, <2>1, <2>3, <2>4, <2>5
<1>7. FetchRequests \subseteq Asked
  <2>1. 0 \in Ram
      BY ShapeTypes DEF Ram
  <2> QED
      BY <1>2, <1>4, <2>1 DEF FetchRequests, FirstWords
<1>8. MasterRequests \subseteq Asked
    BY <1>3, <1>5 DEF MasterRequests, BeatWords
<1> QED
    BY <1>6, <1>7, <1>8 DEF Requests

\* An agent asks for requests of its own, and the master sends the data of its write.
LEMMA AgentTypes ==
    ASSUME AskTypes, PathTypes, StoreTypes, Agents
    PROVE  AskTypes' /\ shape' = shape
<1>0. shape \in Shapes
    BY DEF PathTypes
<1>1. ASSUME NEW p \in Port, AskCpu(p) PROVE AskTypes' /\ shape' = shape
  <2>1. PICK r \in Requests(p) : ask' = [ask EXCEPT ![p] = r]
      BY <1>1 DEF AskCpu
  <2>2. r \in Asked
      BY <1>0, RequestsAsked
  <2>3. shape' = shape /\ axi' = axi /\ slave' = slave /\ Asked' = Asked /\ p[1] < shape.cpus
      BY <1>1, ShapeStays DEF AskCpu
  <2>4. ask' \in [Port -> Asked \cup {None}]
      BY <2>1, <2>2 DEF AskTypes
  <2>5. \A q \in Port : ask'[q] # None => q[1] < shape.cpus
      BY <2>1, <2>3 DEF AskTypes
  <2> QED
      BY <2>3, <2>4, <2>5 DEF AskTypes
<1>2. ASSUME AskMaster PROVE AskTypes' /\ shape' = shape
  <2>1. PICK r \in Requests(Slave), late \in BOOLEAN :
           /\ ask' = [ask EXCEPT ![Slave] = r]
           /\ IF r.write THEN axi' = [axi EXCEPT !.aw = r, ![IF late THEN "late" ELSE "w"] = r]
              ELSE axi' = [axi EXCEPT !.ar = r]
      BY <1>2 DEF AskMaster
  <2>2. Slave \in Port /\ Slave[1] < shape.cpus
      BY <1>0, ShapeTypes DEF Slave, Port
  <2>3. r \in Asked
      BY <1>0, <2>2, RequestsAsked
  <2>4. shape' = shape /\ slave' = slave /\ Asked' = Asked
      BY <1>2, ShapeStays DEF AskMaster
  <2>5. ask' \in [Port -> Asked \cup {None}] /\ \A q \in Port : ask'[q] # None => q[1] < shape.cpus
      BY <2>1, <2>2, <2>3 DEF AskTypes
  <2>6. CASE r.write
    <3>1. axi' = [aw |-> r, w |-> IF late THEN axi.w ELSE r, late |-> IF late THEN r ELSE axi.late,
                  ar |-> axi.ar]
      <4>1. CASE late
          BY <2>1, <2>6, <4>1 DEF AskTypes
      <4>2. CASE ~late
          BY <2>1, <2>6, <4>2 DEF AskTypes
      <4> QED
          BY <4>1, <4>2
    <3> QED
        BY <2>3, <2>4, <2>5, <2>6, <3>1 DEF AskTypes
  <2>7. CASE ~r.write
    <3>1. axi' = [aw |-> axi.aw, w |-> axi.w, late |-> axi.late, ar |-> r]
        BY <2>1, <2>7 DEF AskTypes
    <3> QED
        BY <2>3, <2>4, <2>5, <2>7, <3>1 DEF AskTypes
  <2> QED
      BY <2>6, <2>7
<1>3. ASSUME SendData PROVE AskTypes' /\ shape' = shape
  <2>1. shape' = shape /\ ask' = ask /\ slave' = slave /\ Asked' = Asked
      BY <1>3, ShapeStays DEF SendData
  <2>2. axi' = [aw |-> axi.aw, w |-> axi.late, late |-> None, ar |-> axi.ar]
      BY <1>3 DEF SendData, AskTypes
  <2> QED
      BY <2>1, <2>2 DEF AskTypes
<1> QED
    BY <1>1, <1>2, <1>3 DEF Agents

-----------------------------------------------------------------------------
(* Lines. *)

\* What stands still with the registers, the RAMs and the memories.
LEMMA Frozen ==
    ASSUME PathTypes, StoreTypes, EntryInv, MemoryInv, InitInv, WorkInv,
           UNCHANGED <<shape, state, pathVars, work, ramVars, memory, golden>>
    PROVE  (PathTypes /\ StoreTypes /\ EntryInv /\ MemoryInv /\ InitInv /\ WorkInv)'
<1>1. /\ shape' = shape /\ state' = state /\ pipe' = pipe /\ req' = req /\ rr' = rr
      /\ victim' = victim /\ work' = work /\ ram' = ram /\ initSet' = initSet /\ memory' = memory
      /\ golden' = golden
    BY DEF pathVars, ramVars
<1>2. PathTypes'
    BY <1>1, ShapeStays DEF PathTypes
<1>3. StoreTypes'
    BY <1>1, ShapeStays DEF StoreTypes
<1>4. EntryInv'
    BY <1>1 DEF EntryInv, Sets, Way, Filling, SetOf, TagOf, LineOf, Ram, HoldsBelief, Word, Holds
<1>5. MemoryInv'
    BY <1>1 DEF MemoryInv, Way, Filling, SetOf, TagOf, Ram, Word, Holds
<1>6. InitInv'
    BY <1>1 DEF InitInv, Way
<1>7. WorkInv'
  <2>1. Word' = Word /\ Ram' = Ram /\ Way' = Way
      BY <1>1 DEF Word, Ram, Way
  <2>2. Victim' = Victim
      BY <1>1 DEF Victim, SetOf
  <2>3. Absent' <=> Absent
      BY <1>1, <2>1 DEF Absent, Holds, Filling, SetOf, TagOf
  <2>4. \A w : Merged(w)' = Merged(w)
      BY <1>1 DEF Merged
  <2>5. (state = "LOOKUP_RESULT" =>
           /\ work.evict = ram[SetOf(req.line)][victim]
           /\ work.hit \in BOOLEAN
           /\ IF work.hit THEN Holds(SetOf(req.line), work.way, TagOf(req.line)) ELSE Absent)'
      BY <1>1, <2>3 DEF WorkInv, Holds, Filling, SetOf, TagOf
  <2>6. (state \in Evicting \cup Refilling =>
           req.line \in Ram /\ work.way = victim /\ Absent)'
      BY <1>1, <2>1, <2>3 DEF WorkInv, Evicting, Refilling
  <2>7. (state \in Evicting =>
           /\ Victim.valid /\ Victim.dirty /\ work.evict = Victim /\ work.beat = 0
           /\ \A w \in Word :
                BeatOf(w) < work.out \/ (state = "EVICT_B" /\ BeatOf(w) = work.out) =>
                  memory[<<LineOf(SetOf(req.line), Victim.tag), w>>] = Victim.words[w])'
      BY <1>1, <2>1, <2>2 DEF WorkInv, Evicting, BeatOf, LineOf, SetOf
  <2>8. (state \in Refilling =>
           \A w \in Word : BeatOf(w) < work.beat => Victim.words[w] = Merged(w))'
      BY <1>1, <2>1, <2>2, <2>4 DEF WorkInv, Refilling, BeatOf
  <2>9. (/\ state \in Uncached => req.line = IoLine
         /\ state = "AXI_R_WRITE" =>
              work.refill = [w \in BeatWords(work.beat) |-> golden[<<req.line, w>>]])'
      BY <1>1, <2>1 DEF WorkInv, Uncached, BeatWords, BeatOf
  <2> QED
      BY <2>5, <2>6, <2>7, <2>8, <2>9 DEF WorkInv
<1> QED
    BY <1>2, <1>3, <1>4, <1>5, <1>6, <1>7

\* Steps that keep the lines, but for the one under refill.
LEMMA StoreKept ==
    ASSUME StoreTypes, EntryInv, MemoryInv, shape \in Shapes, shape' = shape,
           state # "INIT", state' # "INIT",
           \A s \in Sets, w \in Way :
               Filling(s, w)' = Filling(s, w) /\ (~Filling(s, w) => ram'[s][w] = ram[s][w]),
           \A l \in Ram, w \in Word :
               memory'[<<l, w>>] = memory[<<l, w>>] /\ golden'[<<l, w>>] = golden[<<l, w>>]
    PROVE  EntryInv' /\ MemoryInv' /\ InitInv'
<1> USE ShapeStays
<1>1. \A t : \A s \in Sets, w \in Way : Holds(s, w, t)' = Holds(s, w, t)
    BY DEF Holds
<1>2. EntryInv'
  <2> SUFFICES ASSUME NEW s \in Sets, NEW w \in Way, ram'[s][w].valid, ~Filling(s, w)'
               PROVE  /\ LineOf(s, ram'[s][w].tag) \in Ram
                      /\ \A x \in Word : ram'[s][w].words[x] = golden'[<<LineOf(s, ram'[s][w].tag), x>>]
                      /\ \A v \in Way : Holds(s, v, ram[s][w].tag)' => v = w
      BY DEF EntryInv, HoldsBelief
  <2>1. ram'[s][w] = ram[s][w] /\ ram[s][w].valid /\ ~Filling(s, w)
      OBVIOUS
  <2>2. /\ LineOf(s, ram[s][w].tag) \in Ram
        /\ HoldsBelief(LineOf(s, ram[s][w].tag), ram[s][w].words)
        /\ \A v \in Way : Holds(s, v, ram[s][w].tag) => v = w
      BY <2>1 DEF EntryInv
  <2>3. \A v \in Way : Holds(s, v, ram[s][w].tag)' => v = w
      BY <1>1, <2>1, <2>2 DEF Holds
  <2> QED
      BY <2>1, <2>2, <2>3 DEF HoldsBelief
<1>3. MemoryInv'
  <2> SUFFICES ASSUME NEW l \in Ram,
                      \A w \in Way : Holds(SetOf(l), w, TagOf(l))' => ~ram'[SetOf(l)][w].dirty
               PROVE  \A w \in Word : memory'[<<l, w>>] = golden'[<<l, w>>]
      BY DEF MemoryInv
  <2>1. SetOf(l) \in Sets
      BY LineParts DEF Ram
  <2>2. \A w \in Way : Holds(SetOf(l), w, TagOf(l)) => ~ram[SetOf(l)][w].dirty
      BY <1>1, <2>1 DEF Holds
  <2> QED
      BY <2>2 DEF MemoryInv
<1> QED
    BY <1>2, <1>3 DEF InitInv

\* Steps that touch no line, outside a refill.
LEMMA QuietStep ==
    ASSUME Inv, shape' = shape, UNCHANGED <<ramVars, memory, golden>>,
           state \notin Refilling \cup {"INIT"}, state' \notin Refilling \cup {"INIT"}
    PROVE  StoreTypes' /\ EntryInv' /\ MemoryInv' /\ InitInv'
<1>1. shape \in Shapes /\ StoreTypes /\ EntryInv /\ MemoryInv
    BY DEF Inv, PathTypes
<1>2. /\ ram' = ram /\ memory' = memory /\ golden' = golden
      /\ state # "INIT" /\ state' # "INIT"
    BY DEF ramVars
<1>3. \A s \in Sets, w \in Way : Filling(s, w)' = Filling(s, w)
    BY DEF Filling, Refilling
<1>4. EntryInv' /\ MemoryInv' /\ InitInv'
    BY <1>1, <1>2, <1>3, StoreKept
<1> QED
    BY <1>1, <1>2, <1>4, ShapeStays DEF StoreTypes

\* A refill begins where the way holds nothing that memory lacks.
LEMMA FillStep ==
    ASSUME Inv, shape' = shape, UNCHANGED <<ramVars, memory, golden, req, victim>>,
           state \notin Refilling \cup {"INIT", "IDLE"}, state' = "AXI_AR",
           req.line \in Ram, Absent, work'.way = victim, work'.beat = 0,
           LET e == ram[SetOf(req.line)][victim] IN
               e.valid /\ e.dirty =>
                   \A w \in Word : memory[<<LineOf(SetOf(req.line), e.tag), w>>] = e.words[w]
    PROVE  StoreTypes' /\ EntryInv' /\ MemoryInv' /\ InitInv' /\ WorkInv'
<1> USE ShapeStays
<1> DEFINE s0 == SetOf(req.line)
<1>1. /\ shape \in Shapes /\ StoreTypes /\ EntryInv /\ MemoryInv
      /\ ram' = ram /\ memory' = memory /\ golden' = golden /\ req' = req /\ victim' = victim
      /\ state # "INIT" /\ state' # "INIT" /\ victim \in Way
    BY DEF ramVars, Inv, PathTypes
<1>2. s0 \in Sets
    BY <1>1, LineParts DEF Ram
<1>3. /\ \A s \in Sets, w \in Way : ~Filling(s, w)
      /\ \A s \in Sets, w \in Way : Filling(s, w)' = (s = s0 /\ w = victim)
    BY <1>1 DEF Filling, Refilling
<1>4. /\ \A t : \A s \in Sets, w \in Way : Holds(s, w, t) = (ram[s][w].valid /\ ram[s][w].tag = t)
      /\ \A t : \A s \in Sets, w \in Way : Holds(s, w, t)' = (Holds(s, w, t) /\ ~(s = s0 /\ w = victim))
    BY <1>1, <1>3 DEF Holds
<1>5. EntryInv'
  <2> SUFFICES ASSUME NEW s \in Sets, NEW w \in Way, ram[s][w].valid, ~Filling(s, w)'
               PROVE  /\ LineOf(s, ram[s][w].tag) \in Ram
                      /\ \A x \in Word : ram[s][w].words[x] = golden[<<LineOf(s, ram[s][w].tag), x>>]
                      /\ \A v \in Way : Holds(s, v, ram[s][w].tag)' => v = w
      BY <1>1 DEF EntryInv, HoldsBelief
  <2>1. /\ LineOf(s, ram[s][w].tag) \in Ram
        /\ HoldsBelief(LineOf(s, ram[s][w].tag), ram[s][w].words)
        /\ \A v \in Way : Holds(s, v, ram[s][w].tag) => v = w
      BY <1>1, <1>3 DEF EntryInv
  <2>2. \A v \in Way : Holds(s, v, ram[s][w].tag)' => v = w
      BY <1>1, <1>3, <2>1 DEF Holds
  <2> QED
      BY <2>1, <2>2 DEF HoldsBelief
<1>6. MemoryInv'
  <2> SUFFICES ASSUME NEW l \in Ram,
                      \A w \in Way : Holds(SetOf(l), w, TagOf(l))' => ~ram[SetOf(l)][w].dirty
               PROVE  \A w \in Word : memory[<<l, w>>] = golden[<<l, w>>]
      BY <1>1 DEF MemoryInv
  <2>1. SetOf(l) \in Sets /\ LineOf(SetOf(l), TagOf(l)) = l
      BY <1>1, LineParts DEF Ram
  <2>2. CASE \A w \in Way : Holds(SetOf(l), w, TagOf(l)) => ~ram[SetOf(l)][w].dirty
      BY <1>1, <2>2 DEF MemoryInv
  <2>3. CASE \E w \in Way : Holds(SetOf(l), w, TagOf(l)) /\ ram[SetOf(l)][w].dirty
    <3>1. PICK w \in Way : Holds(SetOf(l), w, TagOf(l)) /\ ram[SetOf(l)][w].dirty
        BY <2>3
    <3>2. w = victim /\ SetOf(l) = s0
      <4>1. ~Holds(SetOf(l), w, TagOf(l))'
          BY <1>1, <3>1
      <4>2. PICK s \in Sets, t \in Nat : s = SetOf(l) /\ t = TagOf(l)
          BY <1>1, <2>1, LineParts DEF Ram
      <4>3. ~Holds(s, w, t)' /\ Holds(s, w, t)
          BY <1>1, <3>1, <4>1, <4>2
      <4>4. s = s0 /\ w = victim
          BY <1>4, <4>3
      <4> QED
          BY <4>2, <4>4
    <3>3. ram[s0][victim].valid /\ ram[s0][victim].tag = TagOf(l)
        BY <1>4, <2>1, <3>1, <3>2
    <3>4. \A x \in Word : memory[<<l, x>>] = ram[s0][victim].words[x]
        BY <2>1, <3>1, <3>2, <3>3
    <3>5. HoldsBelief(l, ram[s0][victim].words)
        BY <1>1, <1>2, <1>3, <2>1, <3>2, <3>3 DEF EntryInv
    <3> QED
        BY <3>4, <3>5 DEF HoldsBelief
  <2> QED
      BY <2>2, <2>3
<1>7. WorkInv'
  <2>1. Absent'
      BY <1>1, <1>2, <1>4 DEF Absent, Holds
  <2>2. \A w \in Word : ~(BeatOf(w) < 0)
      BY <1>1, BeatParts
  <2> QED
      BY <1>1, <2>1, <2>2 DEF WorkInv, Evicting, Refilling, Uncached
<1>8. StoreTypes'
    BY <1>1 DEF StoreTypes
<1> QED
    BY <1>1, <1>5, <1>6, <1>7, <1>8 DEF InitInv

\* The way that the lookup finds, if any, is the one that holds the line.
LEMMA LookupFinds ==
    ASSUME Inv, state = "LOOKUP",
           NEW hits, hits = {w \in Way : ram[SetOf(req.line)][w].valid
                                         /\ ram[SetOf(req.line)][w].tag = TagOf(req.line)}
    PROVE  /\ SetOf(req.line) \in Sets /\ TagOf(req.line) \in Nat
           /\ hits = {w \in Way : Holds(SetOf(req.line), w, TagOf(req.line))}
           /\ hits # {} => (CHOOSE w \in hits : \A v \in hits : v <= w) \in hits
<1> DEFINE s0 == SetOf(req.line)
<1>1. /\ shape \in Shapes /\ req # None /\ req \in Served
    BY DEF Inv, PathTypes
<1>2. req.line \in Nat
    BY <1>1, ShapeTypes DEF Served, Ram, IoLine, OutsideLine
<1>3. s0 \in Sets /\ TagOf(req.line) \in Nat
    BY <1>1, <1>2, LineParts
<1>4. \A w \in Way : ~Filling(s0, w)
    BY DEF Filling
<1>5. hits = {w \in Way : Holds(s0, w, TagOf(req.line))}
    BY <1>4 DEF Holds
<1>6. ASSUME hits # {} PROVE (CHOOSE w \in hits : \A v \in hits : v <= w) \in hits
  <2>1. PICK w \in hits : TRUE
      BY <1>6
  <2>2. \A v \in Way : Holds(s0, v, TagOf(req.line)) => v = w
      BY <1>3, <1>4, <2>1 DEF Inv, EntryInv
  <2>3. \A v \in hits : v = w
      BY <1>5, <2>2
  <2>4. w \in Nat
      BY <1>1, <2>1, ShapeTypes DEF Way
  <2> HIDE DEF s0
  <2>5. \E x \in hits : \A v \in hits : v <= x
      BY <2>1, <2>3, <2>4
  <2> QED
      BY <2>5
<1> QED
    BY <1>3, <1>5, <1>6

\* Every step of the machine keeps the types of its registers.
LEMMA PathStep ==
    ASSUME Inv, Machine
    PROVE  PathTypes'
<1> USE ShapeStays
<1>1. /\ PathTypes /\ AskTypes /\ shape \in Shapes
    BY DEF Inv, PathTypes
<1>2. shape' = shape
    BY <1>1, EdgeTypes DEF Machine, InitSet, Arbitrate, Accept, Capture, Lookup, ResultOutside, ResultUncached,
        ResultHit, ResultMiss, EvictAddress, RefillAddress, CrossAddress, IoAddress, AddressPhase,
        EvictWrite, EvictAnswered, RefillData, RefillBeat, RefillLast, CrossLow, CrossHigh, CrossDone,
        IoWrite, IoRead, IoAnswered, Complete
<1>3. /\ Way' = Way /\ Sets' = Sets /\ Served' = Served /\ Beats' = Beats /\ 0 \in Way /\ 0 \in 0 .. Beats - 1
    BY <1>1, <1>2, BeatParts, ShapeTypes DEF Way
<1>4. /\ initSet \in Sets /\ rr \in 0 .. shape.cpus - 1 /\ victim \in Way
      /\ shape.ways \in Nat \ {0} /\ shape.cpus \in Nat \ {0} /\ shape.sets \in Nat \ {0}
      /\ Beats \in Nat \ {0}
    BY <1>1, ShapeTypes, BeatParts DEF PathTypes
<1>5. NextVictim \in Way
    BY <1>4 DEF NextVictim, Way
<1> DEFINE
      Regs == /\ work' = [hit |-> work'.hit, way |-> work'.way, evict |-> work'.evict, beat |-> work'.beat,
                          out |-> work'.out, refill |-> work'.refill, kept |-> work'.kept,
                          low |-> work'.low, high |-> work'.high]
              /\ work'.way \in Way /\ work'.beat \in 0 .. Beats - 1 /\ work'.out \in 0 .. Beats - 1
      Finished == \E d : Complete(d)
<1>6. NoWork = [hit |-> NoWork.hit, way |-> NoWork.way, evict |-> NoWork.evict, beat |-> NoWork.beat,
                out |-> NoWork.out, refill |-> NoWork.refill, kept |-> NoWork.kept,
                low |-> NoWork.low, high |-> NoWork.high]
      /\ NoWork.way = 0 /\ NoWork.beat = 0 /\ NoWork.out = 0
    BY DEF NoWork
<1>7. ASSUME work' = NoWork PROVE Regs
    BY <1>3, <1>6, <1>7
<1>w. /\ work = [hit |-> work.hit, way |-> work.way, evict |-> work.evict, beat |-> work.beat,
                 out |-> work.out, refill |-> work.refill, kept |-> work.kept, low |-> work.low,
                 high |-> work.high]
      /\ work.way \in Way /\ work.beat \in 0 .. Beats - 1 /\ work.out \in 0 .. Beats - 1
    BY <1>1 DEF PathTypes
<1>8. ASSUME work' = work PROVE Regs
    BY <1>1, <1>8 DEF PathTypes
<1>9. CASE InitSet
  <2>1. initSet' \in Sets /\ state' \in {"INIT", "IDLE"}
    <3>1. initSet # shape.sets - 1 => initSet + 1 \in Sets
        BY <1>4 DEF Sets
    <3> QED
        BY <1>4, <1>9, <3>1 DEF InitSet
  <2>2. work' = work /\ req' = req /\ pipe' = pipe /\ rr' = rr /\ victim' = victim /\ state = "INIT"
      BY <1>9 DEF InitSet, pathVars
  <2> QED
      BY <1>1, <1>2, <1>3, <2>1, <2>2, <1>8 DEF PathTypes, States
<1>10. CASE Arbitrate
  <2>1. pipe' # None => pipe' \in Served
      BY <1>1, <1>10, ActiveServed DEF Arbitrate
  <2>2. work' = work /\ req' = req /\ rr' = rr /\ victim' = victim /\ state = "IDLE" /\ state' = state /\ initSet' = initSet
      BY <1>10 DEF Arbitrate, ramVars, Free
  <2> QED
      BY <1>1, <1>2, <1>3, <2>1, <2>2, <1>8 DEF PathTypes, States
<1>11. CASE Accept
  <2>1. work' = work /\ victim' = victim /\ initSet' = initSet /\ pipe' = None /\ pipe \in Served /\ state = "IDLE"
      BY <1>1, <1>11 DEF Accept, ramVars, PathTypes
  <2>2. pipe.port[1] \in Nat
    <3>1. \A p \in Port : p[1] \in Nat
        BY <1>1, ShapeTypes DEF Port, Slave, Cpu
    <3> QED
        BY <2>1, <3>1 DEF Served
  <2>3. rr' \in 0 .. shape.cpus - 1
      BY <1>4, <1>11, <2>2 DEF Accept
  <2>4. \/ req' = req /\ state' = state
        \/ req' = pipe /\ pipe # None /\ state' \in {"CROSS_AR0", "LOOKUP_CAPTURE"}
      BY <1>11 DEF Accept
  <2> QED
      BY <1>1, <1>2, <1>3, <2>1, <2>3, <2>4, <1>8 DEF PathTypes, States, BusStates
<1>12. CASE Capture \/ ResultUncached
  <2>1. /\ work' = work /\ UNCHANGED pathVars /\ initSet' = initSet
        /\ state \notin {"INIT", "IDLE"} /\ state' \in {"LOOKUP", "IO_AW", "IO_AR"}
      BY <1>12 DEF Capture, ResultUncached, ramVars
  <2> QED
      BY <1>1, <1>2, <1>3, <2>1, <1>8 DEF PathTypes, States, BusStates, pathVars
<1>13. CASE EvictAddress \/ RefillAddress \/ CrossAddress \/ IoAddress
  <2>1. /\ work' = work /\ UNCHANGED pathVars /\ initSet' = initSet
        /\ state \notin {"INIT", "IDLE"} /\ state' \in BusStates
      BY <1>13 DEF EvictAddress, RefillAddress, CrossAddress, IoAddress, AddressPhase, ramVars, BusStates
  <2> QED
      BY <1>1, <1>2, <1>3, <2>1, <1>8 DEF PathTypes, States, BusStates, pathVars
<1>14. CASE Lookup
  <2> DEFINE hits == {w \in Way : ram[SetOf(req.line)][w].valid
                                         /\ ram[SetOf(req.line)][w].tag = TagOf(req.line)}
  <2>1. /\ UNCHANGED pathVars /\ initSet' = initSet /\ state = "LOOKUP" /\ state' = "LOOKUP_RESULT"
      BY <1>14 DEF Lookup, ramVars
  <2>2. work' = [work EXCEPT !.hit = hits # {},
                    !.way = IF hits = {} THEN @ ELSE CHOOSE w \in hits : \A v \in hits : v <= w,
                    !.evict = EvictCandidate]
      BY <1>14 DEF Lookup
  <2>3. hits # {} => (CHOOSE w \in hits : \A v \in hits : v <= w) \in Way
      BY <2>1, LookupFinds
  <2> HIDE DEF hits
  <2>4. Regs
    <3> DEFINE found == CHOOSE w \in hits : \A v \in hits : v <= w
               hit == hits # {}
               way == IF hits = {} THEN work.way ELSE found
    <3>1. way \in Way /\ work' = [work EXCEPT !.hit = hit, !.way = way, !.evict = EvictCandidate]
        BY <1>w, <2>2, <2>3
    <3> HIDE DEF way, hit
    <3> QED
        BY <1>w, <3>1
  <2> QED
      BY <1>1, <1>2, <1>3, <2>1, <2>4 DEF PathTypes, States, BusStates, pathVars
<1>15. CASE ResultMiss \/ EvictWrite \/ EvictAnswered \/ RefillData \/ CrossLow \/ CrossHigh \/ IoWrite \/ IoRead
  <2>1. /\ UNCHANGED pathVars /\ initSet' = initSet
        /\ state \notin {"INIT", "IDLE"} /\ state' \in BusStates \cup {"AXI_R_WRITE", "CROSS_DONE", "IO_R_RESULT"}
      BY <1>15 DEF ResultMiss, CachedResult, EvictWrite, EvictAnswered, RefillData, CrossLow, CrossHigh, IoWrite,
          IoRead, ramVars, BusStates
  <2>2. CASE ResultMiss
    <3>1. work' = [work EXCEPT !.way = victim, !.beat = 0, !.out = 0]
        BY <2>2 DEF ResultMiss
    <3>2. Regs
        BY <1>w, <1>3, <1>4, <3>1
    <3> QED
        BY <1>1, <1>2, <1>3, <2>1, <3>2 DEF PathTypes, States, BusStates, pathVars
  <2>3. CASE EvictWrite \/ IoWrite
      BY <1>1, <1>2, <1>3, <1>4, <1>8, <2>1, <2>3 DEF EvictWrite, IoWrite, PathTypes, States, pathVars
  <2>4. CASE EvictAnswered
    <3>1. work.out \in 0 .. Beats - 1
        BY <1>1 DEF PathTypes
    <3>2. CASE work.out = Beats - 1
        BY <1>1, <1>2, <1>3, <1>4, <1>8, <2>1, <2>4, <3>2 DEF EvictAnswered, PathTypes, States, pathVars
    <3>3. CASE work.out # Beats - 1
      <4>1. work.out + 1 \in 0 .. Beats - 1
          BY <1>4, <3>1, <3>3
      <4>2. work' = [work EXCEPT !.out = @ + 1]
          BY <2>4, <3>3 DEF EvictAnswered
      <4>3. Regs
          BY <1>w, <4>1, <4>2
      <4> QED
          BY <1>1, <1>2, <1>3, <2>1, <4>3 DEF PathTypes, States, BusStates, pathVars
    <3> QED
        BY <3>2, <3>3
  <2>5. CASE RefillData \/ IoRead
      BY <1>1, <1>2, <1>3, <2>1, <2>5 DEF RefillData, IoRead, PathTypes, States, pathVars
  <2>6. CASE CrossLow \/ CrossHigh
      BY <1>1, <1>2, <1>3, <2>1, <2>6 DEF CrossLow, CrossHigh, PathTypes, States, pathVars
  <2> QED
      BY <1>15, <2>2, <2>3, <2>4, <2>5, <2>6
<1>16. CASE RefillBeat
  <2>1. /\ UNCHANGED pathVars /\ initSet' = initSet /\ state = "AXI_R_WRITE" /\ state' = "AXI_AR"
        /\ work.beat < Beats - 1 /\ work' = [work EXCEPT !.beat = @ + 1, !.kept = KeptBeat]
      BY <1>16 DEF RefillBeat
  <2>2. work.beat + 1 \in 0 .. Beats - 1
      BY <1>1, <1>4, <2>1 DEF PathTypes
  <2>3. Regs
      BY <1>w, <2>1, <2>2
  <2> QED
      BY <1>1, <1>2, <1>3, <2>1, <2>3 DEF PathTypes, States, BusStates, pathVars
<1>17. CASE ResultOutside \/ ResultHit \/ RefillLast \/ CrossDone \/ IoAnswered
  <2>1. /\ state' = "IDLE" /\ req' = None /\ work' = NoWork /\ pipe' = pipe /\ rr' = rr
        /\ initSet' = initSet /\ state \notin {"INIT", "IDLE"} /\ victim' \in {victim, NextVictim}
      BY <1>17 DEF ResultOutside, ResultHit, CachedResult, RefillLast, CrossDone, IoAnswered, Complete, ramVars
  <2> QED
      BY <1>1, <1>2, <1>3, <1>4, <1>5, <1>7, <2>1 DEF PathTypes, States
<1> QED
    BY <1>9, <1>10, <1>11, <1>12, <1>13, <1>14, <1>15, <1>16, <1>17 DEF Machine

-----------------------------------------------------------------------------
(* Accesses. *)

\* What the agents believe in once a request is performed.
LEMMA Believed ==
    ASSUME StoreTypes, req \in Served, shape \in Shapes, Believe
    PROVE  /\ golden' \in [Backed -> Value]
           /\ \A l \in Ram, w \in Word :
                golden'[<<l, w>>] = IF l = req.line /\ w \in req.words THEN req.value ELSE golden[<<l, w>>]
           /\ req.line \in Ram => golden'[<<IoLine, 0>>] = golden[<<IoLine, 0>>]
           /\ req.line \in Ram /\ req.words = {} => golden' = golden
<1>1. /\ golden \in [Backed -> Value] /\ req.words \subseteq Word /\ req.value \in Value
      /\ IoLine \notin Ram /\ OutsideLine \notin Ram /\ IoLine # OutsideLine
    BY ShapeTypes DEF StoreTypes, Served, Ram, IoLine, OutsideLine
<1>2. \A v \in Value : AfterRead(v) \in Value
    BY ShapeTypes DEF Value, AfterRead, NextValue
<1>3. DOMAIN Written(req) = IF req.line = OutsideLine THEN {} ELSE {<<req.line, w>> : w \in req.words}
    BY DEF Written
<1>4. golden' = [x \in Backed |->
        IF x \in DOMAIN Written(req) THEN req.value
        ELSE IF x[1] = IoLine /\ x \in Reliable(req.port, req) THEN AfterRead(golden[x])
        ELSE golden[x]]
    BY <1>1 DEF Believe
<1> HIDE DEF Believe
<1>5. golden' \in [Backed -> Value]
    BY <1>1, <1>2, <1>4
<1>6. \A l \in Ram, w \in Word :
        golden'[<<l, w>>] = IF l = req.line /\ w \in req.words THEN req.value ELSE golden[<<l, w>>]
  <2> TAKE l \in Ram, w \in Word
  <2>1. <<l, w>> \in Backed /\ l # IoLine /\ l # OutsideLine
      BY <1>1 DEF Backed
  <2>2. <<l, w>> \in DOMAIN Written(req) <=> l = req.line /\ w \in req.words
      BY <1>3, <2>1
  <2> QED
      BY <1>4, <2>1, <2>2
<1>8. ASSUME req.line \in Ram PROVE golden'[<<IoLine, 0>>] = golden[<<IoLine, 0>>]
  <2>1. \A p : \A x \in Reliable(p, req) : x[1] = req.line
      BY <1>1, <1>8 DEF Reliable, BeatPlaces, PairPlaces, Following, LineEnd
  <2>2. <<IoLine, 0>> \in Backed /\ <<IoLine, 0>> \notin DOMAIN Written(req)
      BY <1>1, <1>3, <1>8 DEF Backed
  <2> QED
      BY <1>1, <1>4, <1>8, <2>1, <2>2
<1>7. ASSUME req.line \in Ram, req.words = {} PROVE golden' = golden
  <2>1. \A p : \A x \in Reliable(p, req) : x[1] = req.line
      BY <1>1, <1>7 DEF Reliable, BeatPlaces, PairPlaces, Following, LineEnd
  <2>2. DOMAIN Written(req) = {}
      BY <1>3, <1>7
  <2>3. \A x \in Backed : golden'[x] = golden[x]
      BY <1>1, <1>4, <1>7, <2>1, <2>2
  <2> QED
      BY <1>1, <1>5, <2>3
<1> QED
    BY <1>5, <1>6, <1>7, <1>8

\* A line is put where it was, or where nothing has it, with the words that a request leaves.
LEMMA PutStep ==
    ASSUME Inv, shape' = shape, memory' = memory, state # "INIT", state' = "IDLE", req \in Served,
           req.line \in Ram, NEW v \in Way, NEW e \in Entry,
           ram' = [ram EXCEPT ![SetOf(req.line)][v] = e],
           e.valid, e.tag = TagOf(req.line), \A w \in Word : e.words[w] = Merged(w),
           e.dirty \/ req.words = {},
           \A w \in Way : Holds(SetOf(req.line), w, TagOf(req.line)) =>
                w = v /\ (ram[SetOf(req.line)][w].dirty => e.dirty),
           Filling(SetOf(req.line), v) \/ ram[SetOf(req.line)][v].tag = TagOf(req.line),
           \A s \in Sets, w \in Way : Filling(s, w) => s = SetOf(req.line) /\ w = v,
           Believe
    PROVE  StoreTypes' /\ EntryInv' /\ MemoryInv' /\ InitInv' /\ WorkInv'
<1> USE ShapeStays
<1> DEFINE s0 == SetOf(req.line)
           t0 == TagOf(req.line)
<1>1. /\ shape \in Shapes /\ StoreTypes /\ EntryInv /\ MemoryInv
    BY DEF Inv, PathTypes
<1>2. s0 \in Sets /\ t0 \in Nat /\ LineOf(s0, t0) = req.line
    BY <1>1, LineParts DEF Ram
<1>3. /\ ram \in [Sets -> [Way -> Entry]]
      /\ ram' \in [Sets -> [Way -> Entry]]
      /\ ram'[s0][v] = e
      /\ \A s \in Sets, w \in Way : s # s0 \/ w # v => ram'[s][w] = ram[s][w]
    BY <1>1, <1>2 DEF StoreTypes
<1>4. /\ \A s \in Sets, w \in Way : ~Filling(s, w)'
      /\ \A s \in Sets, w \in Way : s # s0 \/ w # v => ~Filling(s, w)
    BY DEF Filling
<1>5. /\ golden' \in [Backed -> Value]
      /\ \A w \in Word : golden'[<<req.line, w>>] = Merged(w)
      /\ \A l \in Ram, w \in Word : l # req.line => golden'[<<l, w>>] = golden[<<l, w>>]
      /\ req.words = {} => golden' = golden
    BY <1>1, Believed DEF Merged
<1>6. \A w \in Way : Holds(s0, w, t0) => w = v
    OBVIOUS
<1> HIDE DEF s0, t0
<1>7. \A s \in Sets, w \in Way : ram'[s][w].valid =>
         /\ LineOf(s, ram'[s][w].tag) \in Ram
         /\ \A x \in Word : ram'[s][w].words[x] = golden'[<<LineOf(s, ram'[s][w].tag), x>>]
         /\ \A u \in Way : ram'[s][u].valid /\ ram'[s][u].tag = ram'[s][w].tag => u = w
  <2> SUFFICES ASSUME NEW s \in Sets, NEW w \in Way, ram'[s][w].valid
               PROVE  /\ LineOf(s, ram'[s][w].tag) \in Ram
                      /\ \A x \in Word : ram'[s][w].words[x] = golden'[<<LineOf(s, ram'[s][w].tag), x>>]
                      /\ \A u \in Way : ram'[s][u].valid /\ ram'[s][u].tag = ram'[s][w].tag => u = w
      OBVIOUS
  <2>1. CASE s = s0 /\ w = v
    <3>1. \A u \in Way : ram'[s][u].valid /\ ram'[s][u].tag = t0 => u = w
        BY <1>3, <1>4, <1>6, <2>1 DEF Holds
    <3>2. ram'[s][w].tag = t0
        BY <1>3, <2>1 DEF t0
    <3> QED
        BY <1>2, <1>3, <1>5, <2>1, <3>1, <3>2
  <2>2. CASE s # s0 \/ w # v
    <3>1. ram'[s][w] = ram[s][w] /\ ram[s][w].valid /\ ~Filling(s, w)
        BY <1>3, <1>4, <2>2
    <3>2. /\ LineOf(s, ram[s][w].tag) \in Ram
          /\ \A x \in Word : ram[s][w].words[x] = golden[<<LineOf(s, ram[s][w].tag), x>>]
          /\ \A u \in Way : Holds(s, u, ram[s][w].tag) => u = w
        BY <1>1, <3>1 DEF EntryInv, HoldsBelief
    <3>3. ~(s = s0 /\ ram[s][w].tag = t0)
        BY <1>6, <2>2, <3>1 DEF Holds
    <3>4. ram[s][w].tag \in Nat
        BY <1>3 DEF Entry
    <3>5. LineOf(s, ram[s][w].tag) # req.line
        BY <1>1, <3>3, <3>4, LineParts DEF s0, t0
    <3>6. \A u \in Way : ram'[s][u].valid /\ ram'[s][u].tag = ram[s][w].tag => u = w
      <4> SUFFICES ASSUME NEW u \in Way, ram'[s][u].valid, ram'[s][u].tag = ram[s][w].tag
                   PROVE  u = w
          OBVIOUS
      <4>1. ~(s = s0 /\ u = v)
          BY <1>3, <3>3 DEF t0
      <4>2. Holds(s, u, ram[s][w].tag)
          BY <1>3, <1>4, <4>1 DEF Holds
      <4> QED
          BY <3>2, <4>2
    <3>7. \A x \in Word : ram[s][w].words[x] = golden'[<<LineOf(s, ram[s][w].tag), x>>]
        BY <1>5, <3>2, <3>5
    <3> QED
        BY <3>1, <3>2, <3>6, <3>7
  <2> QED
      BY <2>1, <2>2
<1>11. EntryInv'
  <2>1. ASSUME NEW s \in Sets, NEW w \in Way, ram'[s][w].valid
        PROVE  HoldsBelief(LineOf(s, ram[s][w].tag), ram[s][w].words)'
    <3>1. \A x \in Word : ram'[s][w].words[x] = golden'[<<LineOf(s, ram'[s][w].tag), x>>]
        BY <1>7, <2>1
    <3>2. PICK l : l = LineOf(s, ram'[s][w].tag)
        OBVIOUS
    <3>3. LineOf(s, ram[s][w].tag)' = l
        BY <3>2 DEF LineOf
    <3>4. \A x \in Word : ram'[s][w].words[x] = golden'[<<l, x>>]
        BY <3>1, <3>2
    <3> QED
        BY <3>3, <3>4 DEF HoldsBelief
  <2>2. \A s \in Sets, w \in Way : ram'[s][w].valid => \A u \in Way : Holds(s, u, ram[s][w].tag)' => u = w
      BY <1>7 DEF Holds
  <2>3. \A s \in Sets, w \in Way : ram'[s][w].valid => LineOf(s, ram[s][w].tag)' \in Ram
      BY <1>7 DEF LineOf
  <2> QED
      BY <2>1, <2>2, <2>3 DEF EntryInv
<1>8. MemoryInv'
  <2> SUFFICES ASSUME NEW l \in Ram,
                      \A w \in Way : Holds(SetOf(l), w, TagOf(l))' => ~ram'[SetOf(l)][w].dirty
               PROVE  \A w \in Word : memory[<<l, w>>] = golden'[<<l, w>>]
      BY DEF MemoryInv
  <2>1. SetOf(l) \in Sets /\ LineOf(SetOf(l), TagOf(l)) = l
      BY <1>1, LineParts DEF Ram
  <2>2. CASE l = req.line
    <3>1. Holds(SetOf(l), v, TagOf(l))'
        BY <1>2, <1>3, <1>4, <2>1, <2>2 DEF Holds, s0, t0
    <3>2. ~e.dirty /\ golden' = golden
        BY <1>3, <1>5, <2>2, <3>1 DEF s0, t0
    <3>3. \A w \in Way : Holds(SetOf(l), w, TagOf(l)) => ~ram[SetOf(l)][w].dirty
        BY <2>2, <3>2
    <3> QED
        BY <1>1, <3>2, <3>3 DEF MemoryInv
  <2>3. CASE l # req.line
    <3>1. ~(SetOf(l) = s0 /\ TagOf(l) = t0)
        BY <1>2, <2>1, <2>3
    <3>2. \A w \in Way : Holds(SetOf(l), w, TagOf(l)) => ~(SetOf(l) = s0 /\ w = v)
        BY <3>1 DEF Holds, s0, t0
    <3>3. \A w \in Way : Holds(SetOf(l), w, TagOf(l)) => ~ram[SetOf(l)][w].dirty
        BY <1>3, <1>4, <2>1, <3>2 DEF Holds
    <3> QED
        BY <1>1, <1>5, <2>3, <3>3 DEF MemoryInv
  <2> QED
      BY <2>2, <2>3
<1>9. WorkInv' /\ InitInv'
    BY DEF WorkInv, InitInv, Evicting, Refilling, Uncached
<1>10. StoreTypes'
    BY <1>1, <1>3, <1>5 DEF StoreTypes
<1> QED
    BY <1>8, <1>9, <1>10, <1>11

\* The step of a walk after reset, and its last one.
LEMMA InitStep ==
    ASSUME Inv, InitSet, shape' = shape
    PROVE  StoreTypes' /\ EntryInv' /\ MemoryInv' /\ InitInv' /\ WorkInv'
<1> USE ShapeStays
<1>1. /\ shape \in Shapes /\ StoreTypes /\ InitInv /\ initSet \in Sets /\ shape.sets \in Nat \ {0}
    BY ShapeTypes DEF Inv, PathTypes
<1>2. /\ state = "INIT" /\ memory' = memory /\ golden' = golden
      /\ ram' = [ram EXCEPT ![initSet] = [w \in Way |-> [@[w] EXCEPT !.valid = FALSE, !.dirty = FALSE]]]
      /\ IF initSet = shape.sets - 1 THEN state' = "IDLE" ELSE initSet' = initSet + 1 /\ state' = state
    BY DEF InitSet, ghostVars
<1>3. /\ ram' \in [Sets -> [Way -> Entry]]
      /\ \A s \in Sets \ {initSet} : ram'[s] = ram[s]
      /\ \A w \in Way : ~ram'[initSet][w].valid
  <2> DEFINE Cleared(w) == [ram[initSet][w] EXCEPT !.valid = FALSE, !.dirty = FALSE]
  <2>1. ram \in [Sets -> [Way -> Entry]]
      BY <1>1 DEF StoreTypes
  <2>2. \A w \in Way : Cleared(w) \in Entry /\ Cleared(w).valid = FALSE
    <3> TAKE w \in Way
    <3>1. ram[initSet][w] \in Entry
        BY <1>1, <2>1
    <3> QED
        BY <3>1 DEF Entry
  <2>3. ram' = [ram EXCEPT ![initSet] = [w \in Way |-> Cleared(w)]]
      BY <1>2, <2>1
  <2> HIDE DEF Cleared
  <2> QED
      BY <1>1, <2>1, <2>2, <2>3
<1>4. memory = golden /\ \A s \in 0 .. initSet - 1, w \in Way : ~ram[s][w].valid
    BY <1>1, <1>2 DEF InitInv
<1>5. StoreTypes'
    BY <1>1, <1>2, <1>3 DEF StoreTypes
<1>6. \A s \in 0 .. initSet, w \in Way : ~ram'[s][w].valid
    BY <1>1, <1>3, <1>4 DEF Sets
<1>7. CASE initSet = shape.sets - 1
  <2>1. \A s \in Sets, w \in Way : ~ram'[s][w].valid
      BY <1>1, <1>6, <1>7 DEF Sets
  <2> QED
      BY <1>2, <1>4, <1>5, <1>7, <2>1 DEF EntryInv, MemoryInv, InitInv, WorkInv, Evicting, Refilling, Uncached
<1>8. CASE initSet # shape.sets - 1
  <2>1. \A s \in 0 .. initSet' - 1, w \in Way : ~ram'[s][w].valid
    <3>1. initSet' = initSet + 1 /\ initSet' - 1 = initSet
      <4>1. initSet \in Nat
          BY <1>1 DEF Sets
      <4>2. initSet' = initSet + 1
          BY <1>2, <1>8, Zenon
      <4> QED
          BY <4>1, <4>2
    <3> QED
        BY <1>6, <3>1
  <2> QED
      BY <1>2, <1>4, <1>5, <1>8, <2>1 DEF EntryInv, MemoryInv, InitInv, WorkInv, Evicting, Refilling, Uncached
<1> QED
    BY <1>7, <1>8

\* A load or a store that hits.
LEMMA HitStep ==
    ASSUME Inv, ResultHit, shape' = shape
    PROVE  StoreTypes' /\ EntryInv' /\ MemoryInv' /\ InitInv' /\ WorkInv'
<1> DEFINE s0 == SetOf(req.line)
           t0 == TagOf(req.line)
<1>1. /\ shape \in Shapes /\ StoreTypes /\ EntryInv /\ WorkInv /\ req \in Served /\ work.way \in Way
      /\ state = "LOOKUP_RESULT" /\ state' = "IDLE" /\ memory' = memory /\ req.line \in Ram /\ Believe
      /\ initSet' = initSet
    BY DEF Inv, PathTypes, ResultHit, CachedResult, Complete
<1>2. s0 \in Sets /\ t0 \in Nat /\ LineOf(s0, t0) = req.line
    BY <1>1, LineParts DEF Ram
<1>3. Holds(s0, work.way, t0)
    BY <1>1 DEF WorkInv, ResultHit
<1>4. /\ Line = ram[s0][work.way] /\ Line \in Entry /\ Line.tag = t0 /\ Line.valid
      /\ \A w \in Word : Line.words[w] = golden[<<req.line, w>>]
      /\ \A w \in Way : Holds(s0, w, t0) => w = work.way
    BY <1>1, <1>2, <1>3 DEF Line, Holds, EntryInv, HoldsBelief, StoreTypes
<1>5. CASE req.write
  <2> DEFINE e == [Line EXCEPT !.dirty = TRUE, !.words = Merge(@)]
  <2>1. ram' = [ram EXCEPT ![s0][work.way] = e]
      BY <1>5 DEF ResultHit, UpdateLine
  <2>3. Merge(Line.words) \in [Word -> Value] /\ \A w \in Word : Merge(Line.words)[w] = Merged(w)
    <3>1. Line.words \in [Word -> Value] /\ req.value \in Value
        BY <1>1, <1>4 DEF Entry, Served
    <3> QED
        BY <1>4, <3>1 DEF Merge, Merged
  <2>4. e \in Entry /\ e.valid /\ e.dirty /\ e.tag = t0 /\ \A w \in Word : e.words[w] = Merged(w)
    <3> DEFINE m == Merge(Line.words)
    <3> HIDE DEF m
    <3>1. m \in [Word -> Value] /\ \A w \in Word : m[w] = Merged(w)
        BY <2>3 DEF m
    <3>2. LET f == [Line EXCEPT !.dirty = TRUE, !.words = m] IN
              f \in Entry /\ f.valid = Line.valid /\ f.dirty /\ f.tag = t0 /\ f.words = m
        BY <1>4, <3>1 DEF Entry
    <3> QED
        BY <1>4, <3>1, <3>2 DEF m
  <2> HIDE DEF e
  <2>5. \A s \in Sets, w \in Way : ~Filling(s, w)
      BY <1>1 DEF Filling
  <2> QED
      BY <1>1, <1>4, <2>1, <2>4, <2>5, PutStep
<1>6. CASE ~req.write
  <2>1. ram' = ram
      BY <1>6 DEF ResultHit
  <2>2. golden' = golden
    <3>1. req.words = {}
        BY <1>1, <1>6 DEF Served
    <3> QED
        BY <1>1, <3>1, Believed
  <2>3. WorkInv'
      BY <1>1 DEF WorkInv, Evicting, Refilling, Uncached
  <2> QED
      BY <1>1, <2>1, <2>2, <2>3, QuietStep DEF ramVars, Refilling
<1> QED
    BY <1>5, <1>6

\* The beats of a refill before the last one.
LEMMA RefillBeatStep ==
    ASSUME Inv, RefillBeat, shape' = shape
    PROVE  StoreTypes' /\ EntryInv' /\ MemoryInv' /\ InitInv' /\ WorkInv'
<1> USE ShapeStays
<1> DEFINE s0 == SetOf(req.line)
<1>1. /\ shape \in Shapes /\ StoreTypes /\ EntryInv /\ MemoryInv /\ WorkInv
      /\ req \in Served /\ work.way \in Way /\ work.beat \in 0 .. Beats - 1 /\ Beats \in Nat \ {0}
      /\ state = "AXI_R_WRITE" /\ state' = "AXI_AR" /\ memory' = memory /\ golden' = golden
      /\ req' = req /\ victim' = victim /\ ram' = [ram EXCEPT ![s0][work.way] = [Line EXCEPT !.words = FilledWords]]
    BY BeatParts DEF Inv, PathTypes, RefillBeat, pathVars, ghostVars, UpdateLine
<1>2. work'.way = work.way /\ work'.beat = work.beat + 1
  <2>1. /\ work = [hit |-> work.hit, way |-> work.way, evict |-> work.evict, beat |-> work.beat,
                 out |-> work.out, refill |-> work.refill, kept |-> work.kept, low |-> work.low,
                 high |-> work.high]
      BY DEF Inv, PathTypes
  <2>2. work' = [work EXCEPT !.beat = @ + 1, !.kept = KeptBeat]
      BY DEF RefillBeat
  <2> QED
      BY <2>1, <2>2
<1>3. /\ req.line \in Ram /\ work.way = victim /\ Absent
      /\ \A w \in Word : BeatOf(w) < work.beat => Victim.words[w] = Merged(w)
      /\ work.refill = [w \in BeatWords(work.beat) |-> golden[<<req.line, w>>]]
    BY <1>1 DEF WorkInv, Refilling
<1>4. s0 \in Sets
    BY <1>1, <1>3, LineParts DEF Ram
<1>5. \A w \in Word : /\ BeatOf(w) = work.beat => FilledWords[w] = Merged(w)
                      /\ BeatOf(w) # work.beat => FilledWords[w] = Victim.words[w]
    BY <1>3 DEF FilledWords, Merge, Merged, Line, Victim, BeatWords
<1>6. Line \in Entry /\ Line = Victim
    BY <1>1, <1>4 DEF Line, Victim, StoreTypes
<1>7. FilledWords \in [Word -> Value]
  <2>1. \A w \in Word : Merged(w) \in Value
    <3>1. \A w \in Word : <<req.line, w>> \in Backed
        BY <1>3 DEF Backed
    <3> QED
        BY <1>1, <3>1 DEF StoreTypes, Merged, Served
  <2>2. \A w \in Word : Victim.words[w] \in Value
      BY <1>6 DEF Entry
  <2>3. \A w \in Word : FilledWords[w] \in Value
      BY <1>5, <2>1, <2>2
  <2>4. FilledWords = [w \in Word |-> FilledWords[w]]
      BY DEF FilledWords
  <2> HIDE DEF FilledWords
  <2> QED
      BY <2>3, <2>4
<1>8. [Line EXCEPT !.words = FilledWords] = [valid |-> Line.valid, dirty |-> Line.dirty, tag |-> Line.tag,
                                             words |-> FilledWords]
    BY <1>6 DEF Entry
<1>9. /\ ram' \in [Sets -> [Way -> Entry]]
      /\ ram'[s0][work.way].words = FilledWords
      /\ \A s \in Sets, w \in Way : s # s0 \/ w # work.way => ram'[s][w] = ram[s][w]
  <2> DEFINE e == [Line EXCEPT !.words = FilledWords]
  <2>1. e \in Entry /\ e.words = FilledWords
      BY <1>6, <1>7, <1>8 DEF Entry
  <2> HIDE DEF e
  <2>2. ram' = [ram EXCEPT ![s0][work.way] = e]
      BY <1>1 DEF e
  <2>3. ram \in [Sets -> [Way -> Entry]] /\ s0 \in Sets /\ work.way \in Way
      BY <1>1, <1>4 DEF StoreTypes
  <2> QED
      BY <2>1, <2>2, <2>3
<1>10. \A s \in Sets, w \in Way : /\ Filling(s, w) <=> s = s0 /\ w = work.way
                                  /\ Filling(s, w)' = Filling(s, w)
    BY <1>1, <1>2 DEF Filling
<1>11. EntryInv' /\ MemoryInv' /\ InitInv'
    BY <1>1, <1>9, <1>10, StoreKept
<1>12. Absent'
    BY <1>1, <1>3, <1>4, <1>9, <1>10 DEF Absent, Holds
<1>13. \A w \in Word : BeatOf(w) < work.beat + 1 => FilledWords[w] = Merged(w)
  <2> TAKE w \in Word
  <2>1. BeatOf(w) \in 0 .. Beats - 1
      BY <1>1, BeatParts
  <2> QED
      BY <1>1, <1>3, <1>5, <2>1
<1>14. /\ Victim'.words = FilledWords
       /\ \A w \in Word : Merged(w)' = Merged(w)
    BY <1>1, <1>2, <1>9 DEF Victim, Merged
<1>15. WorkInv'
    BY <1>1, <1>2, <1>3, <1>12, <1>13, <1>14 DEF WorkInv, Evicting, Refilling, Uncached
<1> QED
    BY <1>1, <1>9, <1>11, <1>15 DEF StoreTypes

\* The last beat of a refill makes the line valid.
LEMMA RefillLastStep ==
    ASSUME Inv, RefillLast, shape' = shape
    PROVE  StoreTypes' /\ EntryInv' /\ MemoryInv' /\ InitInv' /\ WorkInv'
<1> DEFINE s0 == SetOf(req.line)
           e == [valid |-> TRUE, dirty |-> req.write, tag |-> TagOf(req.line), words |-> FilledWords]
<1>1. /\ shape \in Shapes /\ StoreTypes /\ EntryInv /\ MemoryInv /\ WorkInv
      /\ req \in Served /\ work.way \in Way /\ Beats \in Nat \ {0}
      /\ state = "AXI_R_WRITE" /\ state' = "IDLE" /\ memory' = memory /\ Believe
      /\ work.beat = Beats - 1
      /\ ram' = [ram EXCEPT ![s0][work.way] = e]
    BY BeatParts DEF Inv, PathTypes, RefillLast, UpdateLine, Complete
<1>2. /\ req.line \in Ram /\ work.way = victim /\ Absent
      /\ \A w \in Word : BeatOf(w) < work.beat => Victim.words[w] = Merged(w)
      /\ work.refill = [w \in BeatWords(work.beat) |-> golden[<<req.line, w>>]]
    BY <1>1 DEF WorkInv, Refilling
<1>3. s0 \in Sets /\ TagOf(req.line) \in Nat
    BY <1>1, <1>2, LineParts DEF Ram
<1>4. \A w \in Word : FilledWords[w] = Merged(w)
  <2> TAKE w \in Word
  <2>1. BeatOf(w) \in 0 .. Beats - 1
      BY <1>1, BeatParts
  <2>2. BeatOf(w) = work.beat \/ BeatOf(w) < work.beat
      BY <1>1, <2>1
  <2> QED
      BY <1>2, <2>2 DEF FilledWords, Merge, Merged, Line, Victim, BeatWords
<1>5. FilledWords \in [Word -> Value]
  <2>1. \A w \in Word : Merged(w) \in Value
    <3>1. \A w \in Word : <<req.line, w>> \in Backed
        BY <1>2 DEF Backed
    <3> QED
        BY <1>1, <3>1 DEF StoreTypes, Merged, Served
  <2>2. FilledWords = [w \in Word |-> FilledWords[w]]
      BY DEF FilledWords
  <2> HIDE DEF FilledWords
  <2> QED
      BY <1>4, <2>1, <2>2
<1>6. e \in Entry /\ e.valid /\ e.tag = TagOf(req.line) /\ e.words = FilledWords /\ e.dirty = req.write
    BY <1>1, <1>3, <1>5 DEF Entry, Served
<1>7. e.dirty \/ req.words = {}
    BY <1>1, <1>6 DEF Served
<1>8. \A s \in Sets, w \in Way : Filling(s, w) <=> s = s0 /\ w = work.way
    BY <1>1 DEF Filling
<1>9. \A w \in Way : ~Holds(SetOf(req.line), w, TagOf(req.line))
    BY <1>2 DEF Absent
<1> HIDE DEF e
<1>10. /\ memory' = memory /\ state # "INIT" /\ state' = "IDLE" /\ req \in Served /\ req.line \in Ram
       /\ work.way \in Way /\ e \in Entry /\ ram' = [ram EXCEPT ![SetOf(req.line)][work.way] = e]
       /\ e.valid /\ e.tag = TagOf(req.line) /\ (e.dirty \/ req.words = {}) /\ Believe
    BY <1>1, <1>2, <1>6, <1>7
<1>11. \A w \in Word : e.words[w] = Merged(w)
    BY <1>4, <1>6
<1>12. \A w \in Way : Holds(SetOf(req.line), w, TagOf(req.line)) =>
           w = work.way /\ (ram[SetOf(req.line)][w].dirty => e.dirty)
    BY <1>9
<1>13. /\ \A s \in Sets, w \in Way : Filling(s, w) => s = SetOf(req.line) /\ w = work.way
       /\ Filling(SetOf(req.line), work.way)
    BY <1>1, <1>3, <1>8
<1> QED
    BY <1>10, <1>11, <1>12, <1>13, PutStep

\* A beat of the victim is written back.
LEMMA EvictWriteStep ==
    ASSUME Inv, EvictWrite, shape' = shape
    PROVE  StoreTypes' /\ EntryInv' /\ MemoryInv' /\ InitInv' /\ WorkInv'
<1> USE ShapeStays
<1> DEFINE s0 == SetOf(req.line)
           line == LineOf(s0, Victim.tag)
<1>1. /\ shape \in Shapes /\ StoreTypes /\ EntryInv /\ MemoryInv /\ WorkInv /\ work.way \in Way
      /\ state = "EVICT_W" /\ state' = "EVICT_B" /\ golden' = golden /\ ram' = ram
      /\ req' = req /\ victim' = victim /\ work' = work
    BY DEF Inv, PathTypes, EvictWrite, pathVars, ghostVars, ramVars
<1>2. /\ req.line \in Ram /\ work.way = victim /\ Absent
      /\ Victim.valid /\ Victim.dirty /\ work.evict = Victim /\ work.beat = 0
      /\ \A w \in Word : BeatOf(w) < work.out => memory[<<line, w>>] = Victim.words[w]
    BY <1>1 DEF WorkInv, Evicting
<1>3. s0 \in Sets /\ Victim \in Entry /\ Victim = ram[s0][work.way]
    BY <1>1, <1>2, LineParts DEF Ram, StoreTypes, Victim
<1>4. \A s \in Sets, w \in Way : ~Filling(s, w) /\ ~Filling(s, w)'
    BY <1>1 DEF Filling
<1>5. /\ line \in Ram /\ line \in Nat /\ Victim.tag \in Nat
      /\ SetOf(line) = s0 /\ TagOf(line) = Victim.tag
  <2>1. line \in Ram
      BY <1>1, <1>2, <1>3, <1>4 DEF EntryInv
  <2>2. Victim.tag \in Nat
      BY <1>3 DEF Entry
  <2> QED
      BY <1>1, <1>3, <2>1, <2>2, LineParts DEF Ram
<1> HIDE DEF line
<1>6. memory' = [x \in Backed |->
            IF x[1] = line /\ BeatOf(x[2]) = work.out THEN Victim.words[x[2]] ELSE memory[x]]
    BY <1>1, <1>2 DEF EvictWrite, StoreTypes, line
<1>7. memory' \in [Backed -> Value]
  <2>1. 0 \in Word
      BY <1>1, ShapeTypes DEF Word
  <2>2. \A x \in Backed : x[2] \in Word /\ memory[x] \in Value /\ Victim.words[x[2]] \in Value
      BY <1>1, <1>3, <2>1 DEF Backed, StoreTypes, Entry
  <2> QED
      BY <1>6, <2>2
<1>8. \A l \in Ram, w \in Word :
        memory'[<<l, w>>] = IF l = line /\ BeatOf(w) = work.out THEN Victim.words[w] ELSE memory[<<l, w>>]
    BY <1>6 DEF Backed
<1>9. EntryInv'
    BY <1>1, <1>4 DEF EntryInv, HoldsBelief, Holds
<1>10. MemoryInv'
  <2> SUFFICES ASSUME NEW l \in Ram,
                      \A w \in Way : Holds(SetOf(l), w, TagOf(l))' => ~ram[SetOf(l)][w].dirty
               PROVE  \A w \in Word : memory'[<<l, w>>] = golden[<<l, w>>]
      BY <1>1 DEF MemoryInv
  <2>1. SetOf(l) \in Sets
      BY <1>1, LineParts DEF Ram
  <2>2. \A w \in Way : Holds(SetOf(l), w, TagOf(l)) => ~ram[SetOf(l)][w].dirty
      BY <1>1, <1>4, <2>1 DEF Holds
  <2>3. l # line
    <3> SUFFICES ASSUME l = line PROVE FALSE
        OBVIOUS
    <3>1. Holds(SetOf(l), work.way, TagOf(l))
        BY <1>1, <1>2, <1>3, <1>4, <1>5 DEF Holds
    <3> QED
        BY <1>1, <1>2, <1>3, <1>5, <2>2, <3>1
  <2> QED
      BY <1>1, <1>8, <2>2, <2>3 DEF MemoryInv
<1>11. WorkInv'
  <2>1. Absent' /\ Victim' = Victim
      BY <1>1, <1>2, <1>3, <1>4 DEF Absent, Holds, Victim
  <2>2. \A w \in Word : BeatOf(w) < work.out \/ BeatOf(w) = work.out => memory'[<<line, w>>] = Victim.words[w]
      BY <1>2, <1>5, <1>8 DEF line
  <2>3. LineOf(SetOf(req.line), Victim.tag)' = line
      BY <1>1, <2>1 DEF line
  <2> QED
      BY <1>1, <1>2, <2>1, <2>2, <2>3 DEF WorkInv, Evicting, Refilling, Uncached
<1> QED
    BY <1>1, <1>7, <1>9, <1>10, <1>11 DEF StoreTypes, InitInv

\* An access to a device changes no line.
LEMMA DeviceStep ==
    ASSUME Inv, IoWrite \/ IoRead, shape' = shape
    PROVE  StoreTypes' /\ EntryInv' /\ MemoryInv' /\ InitInv' /\ WorkInv'
<1> USE ShapeStays
<1>1. /\ shape \in Shapes /\ StoreTypes /\ EntryInv /\ MemoryInv /\ req \in Served
      /\ state \in {"IO_W", "IO_R"} /\ state' \in {"IO_B", "IO_R_RESULT"} /\ ram' = ram /\ req' = req
      /\ Believe
    BY DEF Inv, PathTypes, IoWrite, IoRead, pathVars, ramVars
<1>2. req.line = IoLine /\ IoLine \notin Ram
    BY <1>1, ShapeTypes DEF Inv, WorkInv, Uncached, Ram, IoLine
<1>3. golden' \in [Backed -> Value] /\ \A l \in Ram, w \in Word : golden'[<<l, w>>] = golden[<<l, w>>]
    BY <1>1, <1>2, Believed
<1>4. memory' \in [Backed -> Value] /\ \A l \in Ram, w \in Word : memory'[<<l, w>>] = memory[<<l, w>>]
  <2>1. \E v \in Value : memory' = [memory EXCEPT ![<<IoLine, 0>>] = v]
    <3>1. CASE IoWrite
        BY <1>1, <3>1 DEF IoWrite, Served
    <3>2. CASE IoRead
      <4>1. memory[<<IoLine, 0>>] \in Value
          BY <1>1 DEF StoreTypes, Backed
      <4>2. \A v \in Value : AfterRead(v) \in Value
          BY <1>1, ShapeTypes DEF Value, AfterRead, NextValue
      <4>3. AfterRead(memory[<<IoLine, 0>>]) \in Value
          BY <4>1, <4>2
      <4>4. memory' = [memory EXCEPT ![<<IoLine, 0>>] = AfterRead(memory[<<IoLine, 0>>])]
          BY <3>2 DEF IoRead
      <4> QED
          BY <4>3, <4>4
    <3> QED
        BY <3>1, <3>2
  <2> QED
      BY <1>1, <1>2, <2>1 DEF StoreTypes, Backed
<1>5. \A s \in Sets, w \in Way : Filling(s, w)' = Filling(s, w)
    BY <1>1 DEF Filling
<1>6. EntryInv' /\ MemoryInv' /\ InitInv'
    BY <1>1, <1>3, <1>4, <1>5, StoreKept
<1>7. WorkInv'
    BY <1>1, <1>2 DEF WorkInv, Evicting, Refilling, Uncached
<1> QED
    BY <1>1, <1>3, <1>4, <1>6, <1>7 DEF StoreTypes

\* A refill waits for its address, and takes a beat from memory.
LEMMA RefillWaitStep ==
    ASSUME Inv, RefillAddress \/ RefillData, shape' = shape
    PROVE  StoreTypes' /\ EntryInv' /\ MemoryInv' /\ InitInv' /\ WorkInv'
<1> USE ShapeStays
<1> DEFINE s0 == SetOf(req.line)
<1>1. /\ shape \in Shapes /\ StoreTypes /\ EntryInv /\ MemoryInv /\ WorkInv
      /\ state \in {"AXI_AR", "AXI_R"} /\ state' \in {"AXI_R", "AXI_R_WRITE"}
      /\ memory' = memory /\ golden' = golden /\ ram' = ram /\ req' = req /\ victim' = victim
    BY DEF Inv, PathTypes, RefillAddress, RefillData, AddressPhase, pathVars, ramVars, ghostVars
<1>2. /\ req.line \in Ram /\ work.way = victim /\ Absent
      /\ \A w \in Word : BeatOf(w) < work.beat => Victim.words[w] = Merged(w)
    BY <1>1 DEF WorkInv, Refilling
<1>3. /\ work'.way = work.way /\ work'.beat = work.beat
      /\ state' = "AXI_R_WRITE" => work'.refill = [w \in BeatWords(work.beat) |-> memory[<<req.line, w>>]]
  <2>1. /\ work = [hit |-> work.hit, way |-> work.way, evict |-> work.evict, beat |-> work.beat,
                 out |-> work.out, refill |-> work.refill, kept |-> work.kept, low |-> work.low,
                 high |-> work.high]
      BY DEF Inv, PathTypes
  <2>2. CASE RefillAddress
      BY <2>2 DEF RefillAddress, AddressPhase
  <2>3. CASE RefillData
      BY <2>1, <2>3 DEF RefillData
  <2> QED
      BY <2>2, <2>3
<1>4. \A s \in Sets, w \in Way : Filling(s, w)' = Filling(s, w)
    BY <1>1, <1>3 DEF Filling
<1>5. EntryInv' /\ MemoryInv' /\ InitInv'
    BY <1>1, <1>4, StoreKept
<1>6. s0 \in Sets
    BY <1>1, <1>2, LineParts DEF Ram
<1>7. /\ Absent' /\ Victim' = Victim
      /\ \A w \in Word : Merged(w)' = Merged(w)
    BY <1>1, <1>2, <1>3, <1>4, <1>6 DEF Absent, Holds, Victim, Merged
<1>8. state' = "AXI_R_WRITE" => work'.refill = [w \in BeatWords(work.beat) |-> golden[<<req.line, w>>]]
  <2>1. \A w \in Word : memory[<<req.line, w>>] = golden[<<req.line, w>>]
      BY <1>1, <1>2 DEF MemoryInv, Absent
  <2> QED
      BY <1>3, <2>1 DEF BeatWords
<1>9. state' = "AXI_R_WRITE" => (work.refill = [w \in BeatWords(work.beat) |-> golden[<<req.line, w>>]])'
  <2>1. BeatWords(work.beat)' = BeatWords(work.beat)
      BY <1>3 DEF BeatWords, BeatOf, Word
  <2> QED
      BY <1>1, <1>8, <2>1
<1>10. (\A w \in Word : BeatOf(w) < work.beat => Victim.words[w] = Merged(w))'
    BY <1>2, <1>3, <1>7
<1>11. WorkInv'
    BY <1>1, <1>2, <1>3, <1>7, <1>9, <1>10 DEF WorkInv, Evicting, Refilling, Uncached
<1> QED
    BY <1>1, <1>5, <1>11 DEF StoreTypes

\* The lookup and what follows a miss: the registers of the request are set.
LEMMA LookupStep ==
    ASSUME Inv, Lookup, shape' = shape
    PROVE  StoreTypes' /\ EntryInv' /\ MemoryInv' /\ InitInv' /\ WorkInv'
<1> USE ShapeStays
<1> DEFINE s0 == SetOf(req.line)
           t0 == TagOf(req.line)
           hits == {w \in Way : ram[s0][w].valid /\ ram[s0][w].tag = t0}
           found == CHOOSE w \in hits : \A v \in hits : v <= w
           hit == hits # {}
           way == IF hits = {} THEN work.way ELSE found
<1>1. /\ state = "LOOKUP" /\ state' = "LOOKUP_RESULT" /\ UNCHANGED <<ramVars, memory, golden>>
      /\ ram' = ram /\ req' = req /\ victim' = victim
      /\ work' = [work EXCEPT !.hit = hit, !.way = way, !.evict = EvictCandidate]
    BY DEF Lookup, pathVars, ghostVars, ramVars
<1>2. /\ hits = {w \in Way : Holds(s0, w, t0)}
      /\ hits # {} => found \in hits
    BY <1>1, LookupFinds
<1>3. work = [hit |-> work.hit, way |-> work.way, evict |-> work.evict, beat |-> work.beat,
              out |-> work.out, refill |-> work.refill, kept |-> work.kept, low |-> work.low,
              high |-> work.high]
    BY DEF Inv, PathTypes
<1>4. hit \in BOOLEAN
    OBVIOUS
<1>5. IF hit THEN Holds(s0, way, t0) ELSE \A w \in Way : ~Holds(s0, w, t0)
    BY <1>2
<1> HIDE DEF hit, way, found, hits
<1>6. work'.hit = hit /\ work'.way = way /\ work'.evict = EvictCandidate
    BY <1>1, <1>3
<1>7. \A w : ~Filling(s0, w) /\ ~Filling(s0, w)'
    BY <1>1 DEF Filling
<1>8. IF hit THEN Holds(SetOf(req.line), work.way, TagOf(req.line))' ELSE Absent'
    BY <1>1, <1>5, <1>6, <1>7 DEF Holds, Absent, Filling, SetOf, TagOf
<1>9. WorkInv'
    BY <1>1, <1>4, <1>6, <1>8 DEF WorkInv, Evicting, Refilling, Uncached, EvictCandidate
<1> QED
    BY <1>1, <1>9, QuietStep DEF Refilling

\* A miss begins a refill, an eviction, or a read that crosses beats.
LEMMA MissStep ==
    ASSUME Inv, ResultMiss, shape' = shape
    PROVE  StoreTypes' /\ EntryInv' /\ MemoryInv' /\ InitInv' /\ WorkInv'
<1> USE ShapeStays
<1> DEFINE s0 == SetOf(req.line)
<1>1. /\ state = "LOOKUP_RESULT" /\ UNCHANGED <<ramVars, memory, golden>> /\ req.line \in Ram /\ ~work.hit
      /\ state' = IF CrossBeatRead /\ req.port # Slave THEN "CROSS_AR0"
                  ELSE IF work.evict.valid /\ work.evict.dirty THEN "EVICT_AW" ELSE "AXI_AR"
      /\ work' = [work EXCEPT !.way = victim, !.beat = 0, !.out = 0]
      /\ req' = req /\ victim' = victim /\ ram' = ram
    BY DEF ResultMiss, CachedResult, pathVars, ghostVars, ramVars
<1>2. /\ work = [hit |-> work.hit, way |-> work.way, evict |-> work.evict, beat |-> work.beat,
                 out |-> work.out, refill |-> work.refill, kept |-> work.kept, low |-> work.low,
                 high |-> work.high]
      /\ shape \in Shapes
    BY DEF Inv, PathTypes
<1>3. /\ work'.way = victim /\ work'.beat = 0 /\ work'.out = 0 /\ work'.evict = work.evict
    BY <1>1, <1>2
<1>4. Absent /\ work.evict = ram[s0][victim]
    BY <1>1 DEF Inv, WorkInv
<1>5. CASE state' = "AXI_AR"
  <2>1. ~(work.evict.valid /\ work.evict.dirty)
      BY <1>1, <1>5
  <2> QED
      BY <1>1, <1>3, <1>4, <1>5, <2>1, FillStep DEF Refilling
<1>6. CASE state' = "CROSS_AR0"
  <2>1. WorkInv'
      BY <1>6 DEF WorkInv, Evicting, Refilling, Uncached
  <2> QED
      BY <1>1, <1>6, <2>1, QuietStep DEF Refilling
<1>7. CASE state' = "EVICT_AW"
  <2>1. work.evict.valid /\ work.evict.dirty
      BY <1>1, <1>7
  <2>2. Absent'
      BY <1>1, <1>4, <1>7 DEF Absent, Holds, Filling
  <2>3. Victim' = work.evict
      BY <1>1, <1>3, <1>4 DEF Victim
  <2>4. \A w \in Word : ~(BeatOf(w) < 0)
      BY <1>2, BeatParts
  <2>5. WorkInv'
      BY <1>1, <1>3, <1>7, <2>1, <2>2, <2>3, <2>4 DEF WorkInv, Evicting, Refilling, Uncached
  <2> QED
      BY <1>1, <1>7, <2>5, QuietStep DEF Refilling
<1> QED
    BY <1>1, <1>5, <1>6, <1>7

\* A beat of the victim waits for its address, or has been answered.
LEMMA EvictStep ==
    ASSUME Inv, EvictAddress \/ EvictAnswered, shape' = shape
    PROVE  StoreTypes' /\ EntryInv' /\ MemoryInv' /\ InitInv' /\ WorkInv'
<1> USE ShapeStays
<1> DEFINE s0 == SetOf(req.line)
<1>1. /\ shape \in Shapes /\ WorkInv /\ work.out \in 0 .. Beats - 1
      /\ state \in {"EVICT_AW", "EVICT_B"} /\ UNCHANGED <<ramVars, memory, golden>>
      /\ req' = req /\ victim' = victim /\ ram' = ram /\ memory' = memory
    BY DEF Inv, PathTypes, EvictAddress, EvictAnswered, AddressPhase, pathVars, ghostVars, ramVars
<1>2. /\ req.line \in Ram /\ work.way = victim /\ Absent
      /\ Victim.valid /\ Victim.dirty /\ work.evict = Victim /\ work.beat = 0
      /\ \A w \in Word :
           BeatOf(w) < work.out \/ (state = "EVICT_B" /\ BeatOf(w) = work.out) =>
             memory[<<LineOf(s0, Victim.tag), w>>] = Victim.words[w]
    BY <1>1 DEF WorkInv, Evicting
<1>3. CASE EvictAnswered /\ work.out = Beats - 1
  <2>1. state = "EVICT_B" /\ state' = "AXI_AR" /\ work' = work
      BY <1>3 DEF EvictAnswered
  <2>2. \A w \in Word : memory[<<LineOf(s0, Victim.tag), w>>] = Victim.words[w]
    <3> TAKE w \in Word
    <3>1. BeatOf(w) \in 0 .. Beats - 1 /\ Beats \in Nat
        BY <1>1, BeatParts
    <3>2. BeatOf(w) < work.out \/ BeatOf(w) = work.out
        BY <1>3, <3>1
    <3> QED
        BY <1>2, <2>1, <3>2
  <2> QED
      BY <1>1, <1>2, <2>1, <2>2, FillStep DEF Refilling, Victim
<1>4. CASE EvictAddress \/ work.out # Beats - 1
  <2>1. /\ work'.way = work.way /\ work'.beat = work.beat /\ work'.evict = work.evict
        /\ state' \in {"EVICT_AW", "EVICT_W"}
        /\ \A w \in Word : BeatOf(w) < work'.out =>
             memory[<<LineOf(s0, Victim.tag), w>>] = Victim.words[w]
    <3>1. CASE EvictAddress
        BY <1>2, <3>1 DEF EvictAddress, AddressPhase
    <3>2. CASE EvictAnswered /\ work.out # Beats - 1
      <4>1. work = [hit |-> work.hit, way |-> work.way, evict |-> work.evict, beat |-> work.beat,
                 out |-> work.out, refill |-> work.refill, kept |-> work.kept, low |-> work.low,
                 high |-> work.high]
          BY DEF Inv, PathTypes
      <4>2. state = "EVICT_B" /\ state' = "EVICT_AW" /\ work' = [work EXCEPT !.out = @ + 1]
          BY <3>2 DEF EvictAnswered
      <4>3. /\ work'.way = work.way /\ work'.beat = work.beat /\ work'.evict = work.evict
            /\ work'.out = work.out + 1
          BY <4>1, <4>2
      <4>4. \A w \in Word : BeatOf(w) < work.out + 1 => BeatOf(w) < work.out \/ BeatOf(w) = work.out
        <5> TAKE w \in Word
        <5>1. BeatOf(w) \in 0 .. Beats - 1 /\ Beats \in Nat
            BY <1>1, BeatParts
        <5> QED
            BY <1>1, <5>1
      <4> QED
          BY <1>2, <4>2, <4>3, <4>4
    <3> QED
        BY <1>4, <3>1, <3>2
  <2>2. Absent' /\ Victim' = Victim /\ LineOf(SetOf(req.line), Victim.tag)' = LineOf(s0, Victim.tag)
      BY <1>1, <1>2, <2>1 DEF Absent, Holds, Filling, Victim, LineOf, SetOf
  <2>3. WorkInv'
      BY <1>1, <1>2, <2>1, <2>2 DEF WorkInv, Evicting, Refilling, Uncached
  <2> QED
      BY <1>1, <2>1, <2>3, QuietStep DEF Refilling
<1> QED
    BY <1>3, <1>4

\* The rest of the machine touches no line.
LEMMA OtherStep ==
    ASSUME Inv, shape' = shape,
           \/ Arbitrate \/ Accept \/ Capture \/ ResultOutside \/ ResultUncached
           \/ CrossAddress \/ CrossLow \/ CrossHigh \/ CrossDone \/ IoAddress \/ IoAnswered
    PROVE  StoreTypes' /\ EntryInv' /\ MemoryInv' /\ InitInv' /\ WorkInv'
<1>1. /\ UNCHANGED <<ramVars, memory, golden>>
      /\ state \notin Refilling \cup {"INIT"}
      /\ state' \in {"IDLE", "CROSS_AR0", "LOOKUP_CAPTURE", "LOOKUP", "CROSS_R0", "CROSS_AR1", "CROSS_R1",
                     "CROSS_DONE"} \cup Uncached
      /\ state' \in Uncached => req' = req /\ req.line = IoLine
  <2>1. CASE Arbitrate \/ Accept \/ Capture
      BY <2>1 DEF Arbitrate, Free, Accept, Capture, ghostVars, Refilling, Uncached
  <2>2. CASE ResultOutside \/ CrossDone \/ IoAnswered
      BY <2>2 DEF ResultOutside, CrossDone, IoAnswered, Complete, ghostVars, Refilling, Uncached
  <2>3. CASE ResultUncached
      BY <2>3 DEF ResultUncached, pathVars, ghostVars, Refilling, Uncached
  <2>4. CASE CrossAddress \/ CrossLow \/ CrossHigh
      BY <2>4 DEF CrossAddress, AddressPhase, CrossLow, CrossHigh, ghostVars, Refilling, Uncached
  <2>5. CASE IoAddress
      BY <2>5 DEF IoAddress, AddressPhase, pathVars, ghostVars, Refilling, Uncached, Inv, WorkInv
  <2> QED
      BY <2>1, <2>2, <2>3, <2>4, <2>5
<1>2. state' \notin Refilling \cup Evicting \cup {"INIT", "LOOKUP_RESULT"}
    BY <1>1 DEF Refilling, Evicting, Uncached
<1>3. WorkInv'
    BY <1>1, <1>2 DEF WorkInv, Refilling
<1> QED
    BY <1>1, <1>2, <1>3, QuietStep

-----------------------------------------------------------------------------
(* The invariant. *)

\* The invariant holds after reset.
LEMMA InitEstablishes ==
    ASSUME Init
    PROVE  Inv
<1>1. shape \in Shapes
    BY DEF Init
<1>2. /\ 0 \in Way /\ 0 \in Sets /\ 0 \in Word /\ 0 \in Value /\ 0 \in 0 .. shape.cpus - 1
      /\ 0 \in 0 .. Beats - 1 /\ MaxValue \in Value
    BY <1>1, ShapeTypes, BeatParts DEF Way, Sets, Word, Value
<1>3. AskTypes
    BY DEF Init, AskTypes
<1>4. PathTypes
    BY <1>1, <1>2 DEF Init, PathTypes, NoWork, States
<1>5. StoreTypes
  <2>1. Garbage \in Entry
      BY <1>2 DEF Garbage, Entry
  <2> QED
      BY <1>2, <2>1 DEF Init, StoreTypes, Sets, Backed
<1>6. EntryInv /\ MemoryInv /\ InitInv /\ WorkInv
    BY DEF Init, EntryInv, MemoryInv, InitInv, WorkInv, Evicting, Refilling, Uncached
<1> QED
    BY <1>3, <1>4, <1>5, <1>6 DEF Inv

\* Every step of the machine, the bus and the agents keeps the invariant.
LEMMA StepKeeps ==
    ASSUME Inv, [Next]_vars
    PROVE  Inv'
<1>1. AskTypes /\ PathTypes /\ StoreTypes
    BY DEF Inv
<1>2. ASSUME UNCHANGED <<shape, state, pathVars, work, ramVars, memory, golden>>, AskTypes'
      PROVE  Inv'
    BY <1>2, Frozen DEF Inv
<1>3. CASE Machine
  <2>1. PathTypes'
      BY <1>3, PathStep
  <2>2. AskTypes' /\ shape' = shape
      BY <1>1, <1>3, EdgeTypes DEF Machine, InitSet, Arbitrate, Accept, Capture, Lookup, ResultOutside,
        ResultUncached, ResultHit, ResultMiss, EvictAddress, RefillAddress, CrossAddress, IoAddress,
        AddressPhase, EvictWrite, EvictAnswered, RefillData, RefillBeat, RefillLast, CrossLow, CrossHigh,
        CrossDone, IoWrite, IoRead, IoAnswered, Complete
  <2>3. StoreTypes' /\ EntryInv' /\ MemoryInv' /\ InitInv' /\ WorkInv'
      BY <1>3, <2>2, InitStep, HitStep, RefillBeatStep, RefillLastStep, EvictWriteStep, DeviceStep,
        RefillWaitStep, LookupStep, MissStep, EvictStep, OtherStep DEF Machine
  <2> QED
      BY <2>1, <2>2, <2>3 DEF Inv
<1>4. CASE Stall
  <2>1. AskTypes' /\ shape' = shape
      BY <1>1, <1>4, EdgeTypes DEF Stall
  <2> QED
      BY <1>2, <1>4, <2>1 DEF Stall, ghostVars
<1>5. CASE Agents
  <2>1. AskTypes' /\ shape' = shape
      BY <1>1, <1>5, AgentTypes
  <2> QED
      BY <1>2, <1>5, <2>1 DEF Agents, AskCpu, AskMaster, SendData, ghostVars
<1>6. CASE UNCHANGED vars
  <2>1. AskTypes'
      BY <1>1, <1>6, ShapeStays DEF vars, busVars, AskTypes
  <2> QED
      BY <1>2, <1>6, <2>1 DEF vars, ghostVars
<1> QED
    BY <1>3, <1>4, <1>5, <1>6 DEF Next

\* The lines, the victims and the memory stay as the parts of Inv describe them, whatever the
\* agents ask for and however long the bus stalls.
THEOREM InvariantHolds == Spec => []Inv
<1>1. Init => Inv
    BY InitEstablishes
<1>2. Inv /\ [Next]_vars => Inv'
    BY StepKeeps
<1> QED
    BY <1>1, <1>2, PTL DEF Spec

\* Type correctness of the cache for any geometry: a request is served exactly while the machine
\* is out of ST_IDLE, and the registers that index the RAMs stay in range.
THEOREM TypeCorrect == Spec => []TypeOK
<1>1. Inv => TypeOK
    BY ShapeTypes DEF Inv, PathTypes, StoreTypes, TypeOK, Cpu
<1> QED
    BY <1>1, InvariantHolds, PTL

\* No eviction, refill or merge loses a store: a line is in one way at most, with the data that
\* the agents believe in, and is right in memory unless that way is dirty.
THEOREM CoherentHolds == Spec => []Coherent
<1>1. Inv => Coherent
  <2> SUFFICES ASSUME Inv, state # "INIT", NEW l \in Ram
               PROVE  /\ Cardinality(Resident(l)) <= 1
                      /\ \A w \in Resident(l) : HoldsBelief(l, ram[SetOf(l)][w].words)
                      /\ (\A w \in Resident(l) : ~ram[SetOf(l)][w].dirty)
                            => HoldsBelief(l, [w \in Word |-> memory[<<l, w>>]])
      BY DEF Coherent
  <2>1. SetOf(l) \in Sets /\ LineOf(SetOf(l), TagOf(l)) = l
      BY LineParts DEF Ram, Inv, PathTypes
  <2>2. Resident(l) = {w \in Way : Holds(SetOf(l), w, TagOf(l))}
      BY DEF Resident, Holds
  <2>3. \A w \in Resident(l) : /\ HoldsBelief(l, ram[SetOf(l)][w].words)
                               /\ \A v \in Resident(l) : v = w
      BY <2>1, <2>2 DEF Holds, Inv, EntryInv
  <2>4. Cardinality(Resident(l)) <= 1
    <3>1. CASE Resident(l) = {}
        BY <3>1, FS_EmptySet
    <3>2. CASE \E w \in Resident(l) : Resident(l) = {w}
        BY <3>2, FS_Singleton
    <3> QED
        BY <2>3, <3>1, <3>2
  <2>5. (\A w \in Resident(l) : ~ram[SetOf(l)][w].dirty)
            => HoldsBelief(l, [w \in Word |-> memory[<<l, w>>]])
      BY <2>2 DEF Inv, MemoryInv, HoldsBelief
  <2> QED
      BY <2>3, <2>4, <2>5
<1> QED
    BY <1>1, InvariantHolds, PTL

-----------------------------------------------------------------------------
(* The refinement: what the ports see of the cache. *)

\* What a port may ask for.
Offered(p, r) ==
    /\ r.wide => /\ ~r.write /\ r.line \in Ram /\ BeatEnd(r.word)
                 /\ Following(<<r.line, r.word>>)[1] \in Ram
    /\ r.line = IoLine /\ r.write => r.words = {0}
    /\ p = Slave => ~r.wide /\ r.line \in Ram
AskInv == \A p \in Port : ask[p] # None => Offered(p, ask[p])

\* The request under way is the one its port holds up.
LiveInv ==
    \A r \in {pipe, req} \ {None} : ask[r.port] # None /\ r = AsRequest(r.port, ask[r.port])

\* A response is shown while the machine is free, to the port that asked.
Unanswered == response = None /\ ~slave.b /\ slave.r = None
ReplyInv ==
    /\ slave.b \in BOOLEAN
    /\ ~Unanswered => state = "IDLE" /\ pipe = None
    /\ response # None =>
         /\ ~slave.b /\ slave.r = None
         /\ response.port \in Port \ {Slave} /\ ask[response.port] # None
         /\ Completes(response, response.port, ask[response.port])
    /\ slave.b \/ slave.r # None => ask[Slave] # None
    /\ slave.b => ask[Slave].write
    /\ \A p \in Port : Answered(p) => \A x \in Reliable(p, ask[p]) : Shown(p)[x] \in Value

\* A device is accessed once, at the moment that the agents believe in.
DeviceInv ==
    /\ memory[<<IoLine, 0>>] = golden[<<IoLine, 0>>]
    /\ done # None <=> state \in {"IO_B", "IO_R_RESULT"}
    /\ done # None => done.port = req.port
    /\ state \in {"IO_AW", "IO_W", "IO_B"} => req.write
    /\ state \in {"IO_AR", "IO_R", "IO_R_RESULT"} => ~req.write
    /\ state = "IO_R_RESULT" => done.data[<<IoLine, 0>>] = work.refill[0] /\ work.refill[0] \in Value

\* The data that a load collects.
Crossing == {"CROSS_AR0", "CROSS_R0", "CROSS_AR1", "CROSS_R1", "CROSS_DONE"}
Expected == Reliable(req.port, req)
DataInv ==
    /\ state \in Evicting \cup Refilling => ~req.wide
    /\ state \in Refilling /\ ~req.write /\ BeatOf(req.word) < work.beat =>
         \A w \in BeatWords(BeatOf(req.word)) : work.kept[w] = golden[<<req.line, w>>]
    /\ state \in Crossing => ~req.write /\ req.wide /\ (Expected # {} => Absent)
    /\ state \in {"CROSS_AR1", "CROSS_R1", "CROSS_DONE"} =>
         work.low \in Value /\ (Expected # {} => work.low = golden[<<req.line, req.word>>])
    /\ state = "CROSS_DONE" =>
         /\ work.high \in Value
         /\ Expected # {} /\ ~LineEnd(req.word) => work.high = golden[Following(<<req.line, req.word>>)]

\* The master's transaction is captured once: while it is under way, its valid is one that is seen.
Captured ==
    (pipe # None /\ pipe.port = Slave) \/ (req # None /\ req.port = Slave) \/ slave.b \/ slave.r # None
MasterInv ==
    LET r == ask[Slave] IN
    /\ r = None => axi.aw = None /\ axi.w = None /\ axi.late = None /\ axi.ar = None /\ slave.aw = None
    /\ r # None /\ r.write =>
         /\ {axi.aw, axi.w, axi.late, slave.aw} \subseteq {r, None} /\ axi.ar = None
         /\ axi.w = None \/ axi.late = None
         /\ ~Captured /\ slave.aw = None => Novel(slave.awSeen, axi.aw)
         /\ (Captured \/ slave.aw # None) /\ axi.aw # None => slave.awSeen = axi.aw
         /\ Captured => axi.w = None /\ axi.late = None /\ slave.aw = None
         /\ Captured /\ pipe = None /\ axi.aw # None => ~slave.awNovel
    /\ r # None /\ ~r.write =>
         /\ axi.aw = None /\ axi.w = None /\ axi.late = None /\ slave.aw = None
         /\ axi.ar \in {r, None}
         /\ ~Captured => Novel(slave.arSeen, axi.ar)
         /\ Captured /\ axi.ar # None => slave.arSeen = axi.ar
         /\ Captured /\ pipe = None /\ axi.ar # None => ~slave.arNovel

PortInv == AskInv /\ LiveInv /\ ReplyInv /\ DeviceInv /\ DataInv /\ MasterInv

\* None is apart from what the ports ask for and are told.
LEMMA NoneApart ==
    ASSUME shape \in Shapes
    PROVE  /\ None \notin Data(Word) /\ None \notin Asked /\ None \notin Served
           /\ None \notin [port : Port, write : BOOLEAN, address : (0 .. OutsideLine) \X Word \X BOOLEAN,
                           data : Data(Word)]
           /\ None \notin [port : Port, data : Data(Word)]
           /\ None \notin [request : [reads : SUBSET ((0 .. OutsideLine) \X Word), writes : Data(Word)],
                           answer : Data(Word) \cup {None}]
<1>1. Ram \cup {IoLine, OutsideLine} \subseteq 0 .. OutsideLine
    BY ShapeTypes DEF Ram, IoLine, OutsideLine
<1>2. Word = 0 .. shape.words - 1
    BY DEF Word
<1>3. /\ None \notin Data(Word)
      /\ None \notin [write : BOOLEAN, line : 0 .. OutsideLine, word : Word, wide : BOOLEAN,
                      words : SUBSET Word, value : Value]
      /\ None \notin [port : Port, write : BOOLEAN, line : 0 .. OutsideLine, word : Word, wide : BOOLEAN,
                      words : SUBSET Word, value : Value]
      /\ None \notin [port : Port, write : BOOLEAN, address : (0 .. OutsideLine) \X Word \X BOOLEAN,
                      data : Data(Word)]
      /\ None \notin [port : Port, data : Data(Word)]
      /\ None \notin [request : [reads : SUBSET ((0 .. OutsideLine) \X Word), writes : Data(Word)],
                      answer : Data(Word) \cup {None}]
    BY <1>2, NoneAssumption
<1>4. /\ Asked \subseteq [write : BOOLEAN, line : 0 .. OutsideLine, word : Word, wide : BOOLEAN,
                      words : SUBSET Word, value : Value]
      /\ Served \subseteq [port : Port, write : BOOLEAN, line : 0 .. OutsideLine, word : Word, wide : BOOLEAN,
                      words : SUBSET Word, value : Value]
    BY <1>1 DEF Asked, Served
<1> QED
    BY <1>3, <1>4

\* A port that holds no response up is not answered; at most one is.
LEMMA AnsweredOnce ==
    ASSUME ReplyInv
    PROVE  /\ \A p \in Port : Answered(p) => ~Unanswered /\ ask[p] # None
           /\ \A p, q \in Port : Answered(p) /\ Answered(q) => p = q
    BY DEF ReplyInv, Unanswered, Answered, Completes

\* An edge that answers nothing keeps what is asked.
LEMMA EdgeQuiet ==
    ASSUME AskTypes, ReplyInv, Unanswered, NEW reply, Edge(reply)
    PROVE  ask' = ask /\ shape' = shape
<1>1. \A p \in Port : ~Answered(p)
    BY AnsweredOnce
<1>2. ask' = [p \in Port |-> IF Answered(p) THEN None ELSE ask[p]] /\ shape' = shape
    BY DEF Edge
<1> QED
    BY <1>1, <1>2 DEF AskTypes

\* The requests offered.
LEMMA RequestsOffered ==
    ASSUME StoreTypes, shape \in Shapes, NEW p \in Port, NEW r \in Requests(p)
    PROVE  Offered(p, r)
<1>1. IoLine \notin Ram /\ OutsideLine \notin Ram /\ IoLine # OutsideLine
    BY ShapeTypes DEF Ram, IoLine, OutsideLine
<1>2. \A x \in BeatLoads : ~x.write /\ ~x.wide /\ x.line \in Ram
    BY DEF BeatLoads, Load
<1>3. \A ends \in SUBSET Word : \A x \in WideLoads(ends) :
        ~x.write /\ x.line \in Ram /\ x.word \in ends /\ Following(<<x.line, x.word>>)[1] \in Ram
  <2> TAKE ends \in SUBSET Word
  <2> TAKE x \in WideLoads(ends)
  <2>1. PICK y \in Ram \X ends : Following(y)[1] \in Ram /\ x = Load(y[1], y[2], TRUE)
      BY DEF WideLoads, Load
  <2>2. y = <<y[1], y[2]>>
      OBVIOUS
  <2> QED
      BY <2>1, <2>2 DEF Load
<1>4. \A sets : \A x \in Stores(sets) : ~x.wide /\ x.line \in Ram
  <2>1. \A l, ws : ~Store(l, ws).wide /\ Store(l, ws).line = l
      BY DEF Store
  <2> QED
      BY <2>1 DEF Stores
<1>5. \A w \in Word : LineEnd(w) => BeatEnd(w)
  <2>1. shape.words % shape.port = 0 /\ shape.words \in Nat \ {0}
      BY ShapeTypes
  <2> QED
      BY <2>1 DEF LineEnd, BeatEnd, Word
<1>6. CASE p[2] = "d"
  <2>1. r \in DataRequests
      BY <1>6 DEF Requests
  <2>2. \/ r \in BeatLoads \/ r \in WideLoads({w \in Word : BeatEnd(w) /\ shape.words > 1})
        \/ \E sets : r \in Stores(sets)
        \/ r \in {Load(IoLine, 0, FALSE), Store(IoLine, {0}), Load(OutsideLine, 0, FALSE)}
      BY <2>1 DEF DataRequests
  <2>3. p # Slave
      BY <1>6 DEF Slave
  <2>4. CASE r \in BeatLoads \/ \E sets : r \in Stores(sets)
      BY <1>1, <1>2, <1>4, <2>3, <2>4 DEF Offered
  <2>5. CASE r \in WideLoads({w \in Word : BeatEnd(w) /\ shape.words > 1})
      BY <1>1, <1>3, <2>3, <2>5 DEF Offered
  <2>6. CASE r \in {Load(IoLine, 0, FALSE), Store(IoLine, {0}), Load(OutsideLine, 0, FALSE)}
      BY <1>1, <2>3, <2>6 DEF Offered, Load, Store
  <2> QED
      BY <2>2, <2>4, <2>5, <2>6
<1>7. CASE p[2] = "i"
  <2>1. r \in FetchRequests
      BY <1>7 DEF Requests
  <2>2. r \in {Load(0, w, FALSE) : w \in FirstWords} \/ r \in WideLoads({w \in Word : LineEnd(w)})
      BY <2>1 DEF FetchRequests
  <2>3. p # Slave
      BY <1>7 DEF Slave
  <2>4. CASE r \in {Load(0, w, FALSE) : w \in FirstWords}
      BY <1>1, <2>3, <2>4, ShapeTypes DEF Offered, Load
  <2>5. CASE r \in WideLoads({w \in Word : LineEnd(w)})
      BY <1>1, <1>3, <1>5, <2>3, <2>5 DEF Offered
  <2> QED
      BY <2>2, <2>4, <2>5
<1>8. CASE p[2] \notin {"d", "i"}
  <2>1. r \in MasterRequests
      BY <1>8 DEF Requests
  <2>2. r \in BeatLoads \/ \E sets : r \in Stores(sets)
      BY <2>1 DEF MasterRequests
  <2> QED
      BY <1>1, <1>2, <1>4, <2>2 DEF Offered
<1> QED
    BY <1>6, <1>7, <1>8

\* The request under way is that of its port.
LEMMA UnderWay ==
    ASSUME Inv, AskInv, LiveInv, req # None
    PROVE  /\ req.port \in Port /\ ask[req.port] # None /\ ask[req.port] \in Asked
           /\ req = AsRequest(req.port, ask[req.port])
           /\ Offered(req.port, req)
           /\ Reliable(req.port, ask[req.port]) = Expected
           /\ Written(ask[req.port]) = Written(req)
           /\ Address(ask[req.port]) = Address(req) /\ ask[req.port].write = req.write
<1>1. /\ req.port \in Port /\ ask[req.port] # None
      /\ req = AsRequest(req.port, ask[req.port])
    BY DEF LiveInv, Inv, PathTypes, Served
<1>2. ask[req.port] \in Asked
    BY <1>1 DEF Inv, AskTypes
<1> DEFINE a == ask[req.port]
<1>3. /\ req.write = a.write /\ req.line = a.line /\ req.word = a.word /\ req.wide = a.wide
      /\ req.words = a.words /\ req.value = a.value
    BY <1>1 DEF AsRequest
<1>4. Offered(req.port, a)
    BY <1>1 DEF AskInv
<1> HIDE DEF a
<1>5. Offered(req.port, req)
    BY <1>3, <1>4 DEF Offered
<1>6. Reliable(req.port, a) = Expected
    BY <1>3 DEF Reliable, BeatPlaces, PairPlaces, Expected
<1>7. Written(a) = Written(req) /\ Address(a) = Address(req)
    BY <1>3 DEF Written, Address
<1> QED
    BY <1>1, <1>2, <1>3, <1>5, <1>6, <1>7 DEF a

\* What arbitration captures is the request its port holds up.
LEMMA ActiveHeld ==
    ASSUME Inv, MasterInv
    PROVE  /\ Active # None =>
                /\ Active.port \in Port /\ ask[Active.port] # None
                /\ Active = AsRequest(Active.port, ask[Active.port])
                /\ Active.port = Slave => WritePending \/ ReadPending
           /\ WritePending \/ ReadPending => Active # None /\ Active.port = Slave
           /\ WritePending => ask[Slave] # None /\ ask[Slave].write
           /\ ReadPending => ask[Slave] # None /\ ~ask[Slave].write
<1>1. /\ AskTypes /\ PathTypes /\ shape \in Shapes /\ Slave \in Port
    BY DEF Inv, PathTypes, Port
<1>2. \A p \in Port, r \in Asked : p[1] < shape.cpus =>
        AsRequest(p, r) \in Served /\ AsRequest(p, r).port = p
    BY DEF AsRequest, Asked, Served
<1>3. None \notin Served /\ None \notin Asked
    BY <1>1, NoneApart
<1>4. \A p \in Port : ask[p] # None => ask[p] \in Asked /\ p[1] < shape.cpus
    BY <1>1 DEF AskTypes
<1>5. CASE WritePending
  <2> DEFINE r == ask[Slave]
             address == IF slave.aw # None THEN slave.aw ELSE axi.aw
  <2>1. /\ r # None /\ r.write /\ axi.w = r /\ address = r
      BY <1>5 DEF WritePending, MasterInv
  <2>2. r \in Asked
      BY <1>1, <1>4, <2>1
  <2>3. [r EXCEPT !.words = r.words, !.value = r.value] = r
      BY <2>2 DEF Asked
  <2>4. Active = AsRequest(Slave, [address EXCEPT !.words = axi.w.words, !.value = axi.w.value])
      BY <1>5 DEF Active
  <2>5. Active = AsRequest(Slave, r)
      BY <2>1, <2>3, <2>4
  <2>6. ~ReadPending
      BY <2>1, <1>3, <2>2 DEF ReadPending, MasterInv
  <2> QED
      BY <1>1, <1>2, <1>3, <1>4, <1>5, <2>1, <2>5, <2>6
<1>6. CASE ~WritePending /\ ReadPending
  <2>1. ask[Slave] # None /\ ~ask[Slave].write /\ axi.ar = ask[Slave]
      BY <1>6 DEF ReadPending, MasterInv
  <2>2. Active = AsRequest(Slave, ask[Slave])
      BY <1>6, <2>1 DEF Active
  <2> QED
      BY <1>1, <1>2, <1>3, <1>4, <1>6, <2>1, <2>2
<1>7. CASE ~WritePending /\ ~ReadPending
  <2>1. SUFFICES ASSUME Active # None
                 PROVE  /\ Active.port \in Port \ {Slave} /\ ask[Active.port] # None
                        /\ Active = AsRequest(Active.port, ask[Active.port])
      BY <1>7
  <2>2. PICK c \in Cpu : Pending(c)
      BY <1>7, <2>1 DEF Active
  <2>3. Chosen \in Port \ {Slave} /\ ask[Chosen] # None
      BY <1>1, <2>2, ChosenAsks
  <2>4. Active = AsRequest(Chosen, ask[Chosen])
      BY <1>7, <2>2 DEF Active
  <2> QED
      BY <1>2, <1>4, <2>3, <2>4
<1> QED
    BY <1>5, <1>6, <1>7

\* While the machine is busy, the endpoint accepts nothing.
LEMMA MasterBusy ==
    ASSUME Inv, ReplyInv, MasterInv, ~Free, NEW reply, Edge(reply), Captured' <=> Captured
    PROVE  MasterInv'
<1>1. Unanswered
    BY DEF ReplyInv, Free
<1>2. ask' = ask
    BY <1>1, EdgeQuiet DEF Inv
<1>3. ~AwAccepted /\ ~WAccepted /\ ~ArAccepted
    BY DEF AwAccepted, WAccepted, ArAccepted
<1>4. /\ slave'.aw = slave.aw /\ axi'.w = axi.w /\ axi'.late = axi.late
      /\ slave'.awSeen = (IF axi.aw = None THEN None ELSE slave.awSeen)
      /\ slave'.arSeen = (IF axi.ar = None THEN None ELSE slave.arSeen)
      /\ slave'.awNovel = Novel(slave.awSeen, axi.aw) /\ slave'.arNovel = Novel(slave.arSeen, axi.ar)
      /\ axi'.aw \in {axi.aw, None} /\ axi'.ar \in {axi.ar, None}
      /\ axi'.aw # axi.aw => slave.awSeen = axi.aw
      /\ axi'.ar # axi.ar => slave.arSeen = axi.ar
    BY <1>3 DEF Edge, Held
<1>5. CASE ask[Slave] = None
    BY <1>2, <1>4, <1>5 DEF MasterInv
<1>6. CASE ask[Slave] # None /\ ask[Slave].write
  <2> DEFINE r == ask[Slave]
  <2>1. /\ {axi.aw, axi.w, axi.late, slave.aw} \subseteq {r, None} /\ axi.ar = None
        /\ axi.w = None \/ axi.late = None
        /\ ~Captured /\ slave.aw = None => Novel(slave.awSeen, axi.aw)
        /\ (Captured \/ slave.aw # None) /\ axi.aw # None => slave.awSeen = axi.aw
        /\ Captured => axi.w = None /\ axi.late = None /\ slave.aw = None
      BY <1>6 DEF MasterInv
  <2>2. ~Captured /\ slave.aw = None => Novel(slave'.awSeen, axi'.aw)
      BY <1>4, <2>1 DEF Novel
  <2>3. (Captured \/ slave.aw # None) /\ axi'.aw # None => slave'.awSeen = axi'.aw /\ ~slave'.awNovel
      BY <1>4, <2>1 DEF Novel
  <2> QED
      BY <1>2, <1>4, <1>6, <2>1, <2>2, <2>3 DEF MasterInv, Novel
<1>7. CASE ask[Slave] # None /\ ~ask[Slave].write
  <2> DEFINE r == ask[Slave]
  <2>1. /\ axi.aw = None /\ axi.w = None /\ axi.late = None /\ slave.aw = None
        /\ axi.ar \in {r, None}
        /\ ~Captured => Novel(slave.arSeen, axi.ar)
        /\ Captured /\ axi.ar # None => slave.arSeen = axi.ar
      BY <1>7 DEF MasterInv
  <2>2. ~Captured => Novel(slave'.arSeen, axi'.ar)
      BY <1>4, <2>1 DEF Novel
  <2>3. Captured /\ axi'.ar # None => slave'.arSeen = axi'.ar /\ ~slave'.arNovel
      BY <1>4, <2>1 DEF Novel
  <2> QED
      BY <1>2, <1>4, <1>7, <2>1, <2>2, <2>3 DEF MasterInv, Novel
<1> QED
    BY <1>5, <1>6, <1>7

\* While the machine is free, it captures the transaction that it has not captured yet, and the
\* answered one retires.
LEMMA MasterFree ==
    ASSUME Inv, ReplyInv, MasterInv, Arbitrate
    PROVE  MasterInv'
<1>1. /\ Free /\ state = "IDLE" /\ pipe = None /\ req = None /\ Edge(None) /\ state' = state /\ req' = req
      /\ Slave \in Port
    BY DEF Arbitrate, Free, Inv, PathTypes, Port
<1>2. /\ pipe' = (IF Active # None /\ ~Completes(response, Active.port, Active) THEN Active ELSE None)
      /\ response # None => response.port # Slave
    BY DEF Arbitrate, ReplyInv
<1>3. Captured <=> Answered(Slave)
    BY <1>1 DEF Captured, Answered
<1>4. /\ ask'[Slave] = IF Answered(Slave) THEN None ELSE ask[Slave]
      /\ ~slave'.b /\ slave'.r = None
    BY <1>1 DEF Edge
<1>5. Captured' <=> pipe' # None /\ pipe'.port = Slave
    BY <1>1, <1>4 DEF Captured
<1>6. /\ WritePending \/ ReadPending => Active # None /\ Active.port = Slave
      /\ Active # None /\ Active.port = Slave => WritePending \/ ReadPending
      /\ WritePending => ask[Slave] # None /\ ask[Slave].write
      /\ ReadPending => ask[Slave] # None /\ ~ask[Slave].write
    BY ActiveHeld
<1>7. Captured' <=> WritePending \/ ReadPending
    BY <1>2, <1>5, <1>6 DEF Completes
<1>8. /\ WAccepted <=> WritePending
      /\ ArAccepted <=> ReadPending
      /\ AwAccepted <=> axi.aw # None /\ slave.aw = None /\ slave.awNovel
    BY <1>1, <1>6 DEF WAccepted, ArAccepted, AwAccepted
<1>9. /\ slave'.aw = IF WAccepted THEN None ELSE IF AwAccepted THEN axi.aw ELSE slave.aw
      /\ slave'.awSeen = IF AwAccepted THEN axi.aw ELSE IF axi.aw = None THEN None ELSE slave.awSeen
      /\ slave'.arSeen = IF ArAccepted THEN axi.ar ELSE IF axi.ar = None THEN None ELSE slave.arSeen
      /\ slave'.awNovel = Novel(slave.awSeen, axi.aw) /\ slave'.arNovel = Novel(slave.arSeen, axi.ar)
      /\ axi'.late = axi.late /\ axi'.w = IF WAccepted THEN None ELSE axi.w
      /\ axi'.aw = Held(axi.aw, AwAccepted \/ slave.awSeen = axi.aw)
      /\ axi'.ar = Held(axi.ar, ArAccepted \/ slave.arSeen = axi.ar)
    BY <1>1 DEF Edge
<1>10. CASE ask[Slave] = None
  <2>1. axi.aw = None /\ axi.w = None /\ axi.late = None /\ axi.ar = None /\ slave.aw = None
      BY <1>10 DEF MasterInv
  <2>2. ask'[Slave] = None /\ ~WAccepted /\ ~AwAccepted
      BY <1>4, <1>6, <1>8, <1>10, <2>1
  <2> QED
      BY <1>9, <2>1, <2>2 DEF MasterInv, Held
<1>11. CASE ask[Slave] # None /\ ask[Slave].write
  <2> DEFINE r == ask[Slave]
  <2>1. /\ {axi.aw, axi.w, axi.late, slave.aw} \subseteq {r, None} /\ axi.ar = None
        /\ axi.w = None \/ axi.late = None
        /\ ~Captured /\ slave.aw = None => Novel(slave.awSeen, axi.aw)
        /\ (Captured \/ slave.aw # None) /\ axi.aw # None => slave.awSeen = axi.aw
        /\ Captured => axi.w = None /\ axi.late = None /\ slave.aw = None
        /\ Captured /\ axi.aw # None => ~slave.awNovel
      BY <1>1, <1>11 DEF MasterInv
  <2>2. ~ReadPending
      BY <1>6, <1>11
  <2>3. CASE Answered(Slave)
    <3>1. Captured
        BY <1>3, <2>3
    <3>2. ~WAccepted /\ ~AwAccepted
        BY <1>8, <2>1, <3>1 DEF WritePending
    <3>3. ask'[Slave] = None /\ axi'.aw = None /\ axi'.ar = None
        BY <1>4, <1>9, <2>1, <2>3, <3>1 DEF Held
    <3> QED
        BY <1>9, <2>1, <3>1, <3>2, <3>3 DEF MasterInv
  <2>4. CASE ~Answered(Slave) /\ WritePending
    <3>1. ~Captured /\ Captured' /\ pipe' # None
        BY <1>3, <1>5, <1>7, <2>4
    <3>2. axi.w = r /\ axi'.w = None /\ axi'.late = None /\ slave'.aw = None /\ axi'.ar = None
        BY <1>8, <1>9, <2>1, <2>4 DEF WritePending, Held
    <3>3. axi'.aw # None => axi'.aw = axi.aw /\ slave'.awSeen = axi.aw
        BY <1>8, <1>9, <2>1, <2>4 DEF WritePending, Held
    <3> QED
        BY <1>4, <1>11, <2>1, <2>4, <3>1, <3>2, <3>3 DEF MasterInv
  <2>5. CASE ~Answered(Slave) /\ ~WritePending
    <3>1. ~Captured /\ ~Captured' /\ ~WAccepted
        BY <1>3, <1>7, <1>8, <2>2, <2>5
    <3>2. axi'.w = axi.w /\ axi'.late = axi.late /\ axi'.ar = None /\ axi'.aw \in {axi.aw, None}
        BY <1>9, <2>1, <3>1 DEF Held
    <3>3. CASE AwAccepted
      <4>1. slave'.aw = axi.aw /\ axi.aw = r /\ slave'.awSeen = axi.aw
          BY <1>8, <1>9, <2>1, <3>1, <3>3
      <4> QED
          BY <1>4, <1>11, <2>1, <2>5, <3>1, <3>2, <4>1 DEF MasterInv
    <3>4. CASE ~AwAccepted
      <4>1. slave'.aw = slave.aw /\ slave'.awSeen = IF axi.aw = None THEN None ELSE slave.awSeen
          BY <1>9, <3>1, <3>4
      <4>2. slave.aw = None => Novel(slave'.awSeen, axi'.aw)
          BY <2>1, <3>1, <3>2, <4>1 DEF Novel
      <4>3. slave.aw # None /\ axi'.aw # None => slave'.awSeen = axi'.aw
          BY <2>1, <3>2, <4>1
      <4> QED
          BY <1>4, <1>11, <2>1, <2>5, <3>1, <3>2, <4>1, <4>2, <4>3 DEF MasterInv, Novel
    <3> QED
        BY <3>3, <3>4
  <2> QED
      BY <2>3, <2>4, <2>5
<1>12. CASE ask[Slave] # None /\ ~ask[Slave].write
  <2> DEFINE r == ask[Slave]
  <2>1. /\ axi.aw = None /\ axi.w = None /\ axi.late = None /\ slave.aw = None
        /\ axi.ar \in {r, None}
        /\ ~Captured => Novel(slave.arSeen, axi.ar)
        /\ Captured /\ axi.ar # None => slave.arSeen = axi.ar
        /\ Captured /\ axi.ar # None => ~slave.arNovel
      BY <1>1, <1>12 DEF MasterInv
  <2>2. ~WritePending /\ ~WAccepted /\ ~AwAccepted
      BY <1>6, <1>8, <1>12, <2>1
  <2>3. axi'.aw = None /\ axi'.w = None /\ axi'.late = None /\ slave'.aw = None /\ axi'.ar \in {axi.ar, None}
      BY <1>9, <2>1, <2>2 DEF Held
  <2>4. CASE Answered(Slave)
    <3>1. Captured
        BY <1>3, <2>4
    <3>2. ask'[Slave] = None /\ axi'.ar = None
        BY <1>4, <1>9, <2>1, <2>4, <3>1 DEF Held
    <3> QED
        BY <2>3, <3>2 DEF MasterInv
  <2>5. CASE ~Answered(Slave) /\ ReadPending
    <3>1. ~Captured /\ Captured' /\ pipe' # None /\ slave'.arSeen = axi.ar
        BY <1>3, <1>5, <1>7, <1>8, <1>9, <2>5
    <3> QED
        BY <1>4, <1>12, <2>1, <2>3, <2>5, <3>1 DEF MasterInv
  <2>6. CASE ~Answered(Slave) /\ ~ReadPending
    <3>1. ~Captured /\ ~Captured' /\ ~ArAccepted
        BY <1>3, <1>7, <1>8, <2>2, <2>6
    <3>2. Novel(slave'.arSeen, axi'.ar)
        BY <1>9, <2>1, <2>3, <3>1 DEF Novel
    <3> QED
        BY <1>4, <1>12, <2>1, <2>3, <2>6, <3>1, <3>2 DEF MasterInv
  <2> QED
      BY <2>4, <2>5, <2>6
<1> QED
    BY <1>10, <1>11, <1>12

\* What is offered stays so.
LEMMA AskKept ==
    ASSUME AskInv, shape' = shape, \A p \in Port : ask'[p] \in {ask[p], None}
    PROVE  AskInv'
<1>1. /\ Ram' = Ram /\ \A w : BeatEnd(w)' = BeatEnd(w)
      /\ \A x : Following(x)' = Following(x)
    BY ShapeStays DEF BeatEnd, Following
<1> QED
    BY <1>1 DEF AskInv, Offered

\* Steps that answer nothing and take no new request.
LEMMA QuietPorts ==
    ASSUME Inv, AskInv, LiveInv, ReplyInv, MasterInv, ~Free, Edge(None),
           \/ pipe' = pipe /\ req' = req
           \/ pipe' = None /\ req = None /\ req' = pipe
    PROVE  /\ AskInv' /\ LiveInv' /\ ReplyInv' /\ MasterInv'
           /\ ask' = ask /\ shape' = shape /\ Unanswered /\ Unanswered'
<1>1. Unanswered
    BY DEF ReplyInv, Free
<1>2. ask' = ask /\ shape' = shape
    BY <1>1, EdgeQuiet DEF Inv
<1>3. slave'.b = FALSE /\ slave'.r = None /\ response' = None
    BY DEF Edge
<1>4. Unanswered' /\ \A p \in Port : ~Answered(p)'
    BY <1>3 DEF Unanswered, Answered, Completes
<1>5. ReplyInv'
    BY <1>3, <1>4 DEF ReplyInv
<1>6. LiveInv'
    BY <1>2 DEF LiveInv, AsRequest
<1>7. MasterInv'
  <2>1. Captured' <=> Captured
      BY <1>1, <1>3 DEF Captured, Unanswered
  <2> QED
      BY <2>1, MasterBusy
<1>8. AskInv'
    BY <1>2, AskKept
<1> QED
    BY <1>1, <1>2, <1>4, <1>5, <1>6, <1>7, <1>8

\* Arbitration: what is answered retires, and what is captured is held up and not answered.
LEMMA ArbitratePorts ==
    ASSUME Inv, AskInv, ReplyInv, MasterInv, Arbitrate
    PROVE  AskInv' /\ LiveInv' /\ ReplyInv' /\ MasterInv' /\ Unanswered' /\ shape' = shape
<1>1. /\ Edge(None) /\ state = "IDLE" /\ pipe = None /\ req' = req /\ req = None
      /\ pipe' = (IF Active # None /\ ~Completes(response, Active.port, Active) THEN Active ELSE None)
      /\ Free
    BY DEF Arbitrate, Free, Inv, PathTypes
<1>2. slave'.b = FALSE /\ slave'.r = None /\ response' = None /\ shape' = shape
    BY <1>1 DEF Edge
<1>3. Unanswered' /\ \A p \in Port : ~Answered(p)'
    BY <1>2 DEF Unanswered, Answered, Completes
<1>4. ReplyInv'
    BY <1>2, <1>3 DEF ReplyInv
<1>5. MasterInv'
    BY MasterFree
<1>6. ask' = [p \in Port |-> IF Answered(p) THEN None ELSE ask[p]]
    BY <1>1 DEF Edge
<1>7. AskInv'
    BY <1>2, <1>6, AskKept
<1>8. LiveInv'
  <2>1. SUFFICES ASSUME pipe' # None
                 PROVE  ask'[pipe'.port] # None /\ pipe' = AsRequest(pipe'.port, ask'[pipe'.port])
      BY <1>1 DEF LiveInv, AsRequest
  <2> DEFINE p == Active.port
  <2>2. /\ pipe' = Active /\ p \in Port /\ ask[p] # None /\ Active = AsRequest(p, ask[p])
        /\ p = Slave => WritePending \/ ReadPending
        /\ ~Completes(response, p, Active)
        /\ WritePending => ask[Slave] # None /\ ask[Slave].write
        /\ ReadPending => ask[Slave] # None /\ ~ask[Slave].write
      BY <1>1, <2>1, ActiveHeld
  <2>3. ~Answered(p)
    <3>1. CASE p # Slave
      <4>1. Active.write = ask[p].write /\ Address(Active) = Address(ask[p])
          BY <2>2 DEF AsRequest, Address
      <4> QED
          BY <2>2, <3>1, <4>1 DEF Answered, Completes
    <3>2. CASE p = Slave
      <4> SUFFICES ASSUME Answered(Slave) PROVE FALSE
          BY <3>2
      <4>1. Captured
          BY DEF Answered, Captured
      <4>2. CASE WritePending
          BY <2>2, <4>1, <4>2 DEF MasterInv, WritePending
      <4>3. CASE ReadPending
          BY <1>1, <2>2, <4>1, <4>3 DEF MasterInv, ReadPending
      <4> QED
          BY <2>2, <3>2, <4>2, <4>3
    <3> QED
        BY <3>1, <3>2
  <2>4. ask'[p] = ask[p]
      BY <1>6, <2>2, <2>3
  <2> HIDE DEF p
  <2>5. pipe'.port = p
      BY <2>2 DEF AsRequest
  <2> QED
      BY <2>2, <2>4, <2>5
<1> QED
    BY <1>2, <1>3, <1>4, <1>5, <1>7, <1>8

\* The end of a request shows its data to the port that asked, and to no other.
LEMMA CompletePorts ==
    ASSUME Inv, AskInv, LiveInv, ReplyInv, MasterInv, state \notin {"INIT", "IDLE"},
           NEW data \in Data(Word), Complete(data), pipe' = pipe,
           \A x \in Expected : data[x] \in Value,
           NEW p, p = req.port
    PROVE  /\ AskInv' /\ LiveInv' /\ ReplyInv' /\ MasterInv'
           /\ ask' = ask /\ shape' = shape /\ Unanswered
           /\ Answered(p)' /\ \A q \in Port : q # p => ~Answered(q)'
           /\ \A x \in Expected : Shown(p)'[x] = data[x]
<1>1. /\ Unanswered /\ ~Free /\ pipe = None /\ req # None /\ shape \in Shapes
      /\ state' = "IDLE" /\ req' = None /\ Edge(Reply(data)) /\ req \in Served
    BY DEF ReplyInv, Free, Inv, PathTypes, Complete
<1>2. ask' = ask /\ shape' = shape
    BY <1>1, EdgeQuiet DEF Inv
<1>3. /\ p \in Port /\ ask[p] # None /\ ask[p] \in Asked
      /\ Reliable(p, ask[p]) = Expected
      /\ Address(ask[p]) = Address(req) /\ ask[p].write = req.write /\ req.write \in BOOLEAN
    BY <1>1, UnderWay DEF Served
<1>4. Reply(data) # None
  <2>1. req.line \in 0 .. OutsideLine
      BY <1>1, ShapeTypes DEF Served, Ram, IoLine, OutsideLine
  <2>2. Address(req) \in (0 .. OutsideLine) \X Word \X BOOLEAN
      BY <1>1, <2>1 DEF Served, Address
  <2>3. Reply(data) \in [port : Port, write : BOOLEAN, address : (0 .. OutsideLine) \X Word \X BOOLEAN,
                         data : Data(Word)]
      BY <1>3, <2>2 DEF Reply
  <2> QED
      BY <1>1, <2>3, NoneApart
<1> DEFINE reply == Reply(data)
<1>5. reply.port = p /\ reply.write = req.write /\ reply.address = Address(req) /\ reply.data = data
    BY DEF Reply
<1>6. data # None
    BY <1>1, NoneApart
<1> HIDE DEF reply
<1>7. /\ response' = IF p = Slave THEN None ELSE reply
      /\ slave'.b = (p = Slave /\ req.write)
      /\ slave'.r = IF p = Slave /\ ~req.write THEN data ELSE None
    BY <1>1, <1>4, <1>5 DEF Edge, reply
<1>8. \A q \in Port : Answered(q)' <=> q = p
    BY <1>2, <1>3, <1>4, <1>5, <1>6, <1>7 DEF Answered, Completes, Address, reply
<1>9. \A x \in Expected : Shown(p)'[x] = data[x]
  <2>1. req.write => Expected = {}
      BY DEF Expected, Reliable
  <2> QED
      BY <1>5, <1>7, <2>1 DEF Shown
<1>10. Reliable(p, ask[p])' = Expected
  <2>1. Reliable(p, ask[p])' = Reliable(p, ask[p])
      BY <1>2, ShapeStays DEF Reliable, BeatPlaces, PairPlaces, LineEnd, BeatWords, BeatOf, Following, Word
  <2> QED
      BY <1>3, <2>1
<1>11. ReplyInv'
  <2>1. \A q \in Port : Answered(q)' => \A x \in Reliable(q, ask[q])' : Shown(q)'[x] \in Value
      BY <1>8, <1>9, <1>10
  <2>2. slave'.b \in BOOLEAN
      BY <1>3, <1>7
  <2>3. response' # None => /\ ~slave'.b /\ slave'.r = None
         /\ response'.port \in Port \ {Slave} /\ ask'[response'.port] # None
         /\ Completes(response, response.port, ask[response.port])'
      BY <1>2, <1>3, <1>4, <1>5, <1>7 DEF Completes, Address, reply
  <2>4. slave'.b \/ slave'.r # None => ask'[Slave] # None
      BY <1>2, <1>3, <1>7
  <2>5. slave'.b => ask'[Slave].write
      BY <1>2, <1>3, <1>7
  <2> QED
      BY <1>1, <2>1, <2>2, <2>3, <2>4, <2>5 DEF ReplyInv
<1>12. LiveInv'
    BY <1>1 DEF LiveInv
<1>13. MasterInv'
  <2>1. Captured' <=> Captured
      BY <1>1, <1>3, <1>6, <1>7 DEF Captured, Unanswered
  <2> QED
      BY <1>1, <2>1, MasterBusy
<1>14. AskInv'
    BY <1>2, AskKept
<1> QED
    BY <1>1, <1>2, <1>3, <1>8, <1>9, <1>11, <1>12, <1>13, <1>14

\* A port asks for nothing while it waits; the master's new transaction is one it has not seen taken.
LEMMA AgentPorts ==
    ASSUME Inv, AskInv, LiveInv, ReplyInv, MasterInv, Agents
    PROVE  AskInv' /\ LiveInv' /\ ReplyInv' /\ MasterInv'
<1>1. /\ shape \in Shapes /\ AskTypes /\ Slave \in Port /\ StoreTypes
    BY DEF Inv, PathTypes, Port
<1>2. /\ response' = response /\ slave' = slave /\ pipe' = pipe /\ req' = req /\ state' = state
      /\ shape' = shape
    BY DEF Agents, AskCpu, AskMaster, SendData, pathVars
<1>3. Captured' = Captured /\ Unanswered' = Unanswered
    BY <1>2 DEF Captured, Unanswered
<1>4. ASSUME NEW p \in Port, ask[p] = None, NEW r \in Requests(p), ask' = [ask EXCEPT ![p] = r]
      PROVE  AskInv' /\ LiveInv' /\ ReplyInv' /\ (p = Slave => ~Captured)
  <2>1. Offered(p, r) /\ Offered(p, r)' = Offered(p, r)
    <3>1. /\ Ram' = Ram /\ \A w : BeatEnd(w)' = BeatEnd(w)
          /\ \A x : Following(x)' = Following(x)
        BY <1>2, ShapeStays DEF BeatEnd, Following
    <3> QED
        BY <1>1, <3>1, RequestsOffered DEF Offered
  <2>2. AskInv'
    <3>1. /\ Ram' = Ram /\ \A w : BeatEnd(w)' = BeatEnd(w)
          /\ \A x : Following(x)' = Following(x)
        BY <1>2, ShapeStays DEF BeatEnd, Following
    <3>2. \A x : \A q \in Port : Offered(q, x)' <=> Offered(q, x)
        BY <3>1 DEF Offered
    <3>3. \A q \in Port : ask'[q] = IF q = p THEN r ELSE ask[q]
        BY <1>1, <1>4 DEF AskTypes
    <3> QED
        BY <2>1, <3>2, <3>3 DEF AskInv
  <2>3. \A q \in Port : q # p => ask'[q] = ask[q]
      BY <1>1, <1>4 DEF AskTypes
  <2>4. \A x \in {pipe, req} \ {None} : x.port \in Port /\ x.port # p
      BY <1>4 DEF LiveInv, Inv, PathTypes, Served
  <2>5. LiveInv'
      BY <1>2, <2>3, <2>4 DEF LiveInv, AsRequest
  <2>6. p = Slave => ~slave.b /\ slave.r = None
      BY <1>4 DEF ReplyInv
  <2>7. response # None => response.port # p
      BY <1>4 DEF ReplyInv
  <2>8. ~Answered(p)'
      BY <1>2, <2>6, <2>7 DEF Answered, Completes
  <2>9. \A q \in Port : q # p => /\ Answered(q)' <=> Answered(q)
                                 /\ Shown(q)' = Shown(q)
                                 /\ Reliable(q, ask[q])' = Reliable(q, ask[q])
    <3> TAKE q \in Port
    <3> HAVE q # p
    <3>1. ask'[q] = ask[q]
        BY <2>3
    <3>2. (Answered(q)' <=> Answered(q)) /\ Shown(q)' = Shown(q)
        BY <1>2, <3>1 DEF Answered, Completes, Address, Shown
    <3>3. Reliable(q, ask[q])' = Reliable(q, ask[q])
        BY <1>2, <3>1, ShapeStays DEF Reliable, BeatPlaces, PairPlaces, LineEnd, BeatWords, BeatOf, Following, Word
    <3> QED
        BY <3>2, <3>3
  <2>10. \A q \in Port : Answered(q)' => \A x \in Reliable(q, ask[q])' : Shown(q)'[x] \in Value
      BY <2>8, <2>9 DEF ReplyInv
  <2>11. /\ response # None => ask'[response.port] # None /\ Completes(response, response.port, ask'[response.port])
         /\ slave.b \/ slave.r # None => ask'[Slave] # None
         /\ slave.b => ask'[Slave].write
      BY <1>1, <2>3, <2>6, <2>7 DEF ReplyInv, Completes, Address
  <2>12. ReplyInv'
      BY <1>2, <1>3, <2>10, <2>11 DEF ReplyInv, Completes, Address
  <2>13. p = Slave => ~Captured
      BY <2>4, <2>6 DEF Captured
  <2> QED
      BY <2>2, <2>5, <2>12, <2>13
<1>5. ASSUME NEW p \in Port, AskCpu(p) PROVE AskInv' /\ LiveInv' /\ ReplyInv' /\ MasterInv'
  <2>1. PICK r \in Requests(p) : ask' = [ask EXCEPT ![p] = r]
      BY <1>5 DEF AskCpu
  <2>2. p # Slave /\ ask[p] = None /\ axi' = axi
      BY <1>5 DEF AskCpu
  <2>3. ask'[Slave] = ask[Slave]
      BY <1>1, <2>1, <2>2 DEF AskTypes
  <2>4. MasterInv'
      BY <1>2, <1>3, <2>2, <2>3 DEF MasterInv, Novel, Address
  <2> QED
      BY <1>4, <2>1, <2>2, <2>4
<1>6. ASSUME AskMaster PROVE AskInv' /\ LiveInv' /\ ReplyInv' /\ MasterInv'
  <2>1. PICK r \in Requests(Slave), late \in BOOLEAN :
           /\ ask' = [ask EXCEPT ![Slave] = r]
           /\ IF r.write
              THEN /\ Novel(slave.awSeen, r)
                   /\ axi' = [axi EXCEPT !.aw = r, ![IF late THEN "late" ELSE "w"] = r]
              ELSE Novel(slave.arSeen, r) /\ axi' = [axi EXCEPT !.ar = r]
      BY <1>6 DEF AskMaster
  <2>2. ask[Slave] = None
      BY <1>6 DEF AskMaster
  <2>3. r \in Asked /\ r # None
      BY <1>1, RequestsAsked, NoneApart
  <2>4. AskInv' /\ LiveInv' /\ ReplyInv' /\ ~Captured
      BY <1>1, <1>4, <2>1, <2>2
  <2>5. axi.aw = None /\ axi.w = None /\ axi.late = None /\ axi.ar = None /\ slave.aw = None
      BY <2>2 DEF MasterInv
  <2>6. ask'[Slave] = r
      BY <1>1, <2>1 DEF AskTypes
  <2>7. CASE r.write
    <3>1. axi' = [aw |-> r, w |-> IF late THEN None ELSE r, late |-> IF late THEN r ELSE None, ar |-> None]
      <4>0. axi = [aw |-> None, w |-> None, late |-> None, ar |-> None]
          BY <1>1, <2>5 DEF AskTypes
      <4>1. CASE late
          BY <2>1, <2>7, <4>0, <4>1
      <4>2. CASE ~late
          BY <2>1, <2>7, <4>0, <4>2
      <4> QED
          BY <4>1, <4>2
    <3>2. /\ axi'.aw = r /\ axi'.ar = None
          /\ \/ axi'.w = None /\ axi'.late = r
             \/ axi'.w = r /\ axi'.late = None
        BY <3>1
    <3>3. Novel(slave'.awSeen, axi'.aw)
        BY <1>2, <2>1, <2>7, <3>2 DEF Novel, Address
    <3> QED
        BY <1>2, <1>3, <2>3, <2>4, <2>5, <2>6, <2>7, <3>2, <3>3 DEF MasterInv, Novel
  <2>8. CASE ~r.write
    <3>1. axi' = [aw |-> axi.aw, w |-> axi.w, late |-> axi.late, ar |-> r]
        BY <1>1, <2>1, <2>8 DEF AskTypes
    <3>2. Novel(slave'.arSeen, axi'.ar)
        BY <1>2, <2>1, <2>8, <3>1 DEF Novel, Address
    <3> QED
        BY <1>2, <1>3, <2>3, <2>4, <2>5, <2>6, <2>8, <3>1, <3>2 DEF MasterInv, Novel
  <2> QED
      BY <2>4, <2>7, <2>8
<1>7. ASSUME SendData PROVE AskInv' /\ LiveInv' /\ ReplyInv' /\ MasterInv'
  <2>1. ask' = ask
      BY <1>7 DEF SendData
  <2>2. axi.late # None /\ axi' = [aw |-> axi.aw, w |-> axi.late, late |-> None, ar |-> axi.ar]
      BY <1>1, <1>7 DEF SendData, AskTypes
  <2>3. AskInv' /\ LiveInv'
      BY <1>2, <2>1, AskKept DEF LiveInv, AsRequest
  <2>4. \A q \in Port : /\ Answered(q)' <=> Answered(q)
                        /\ Shown(q)' = Shown(q)
                        /\ Reliable(q, ask[q])' = Reliable(q, ask[q])
      BY <1>2, <2>1, ShapeStays DEF Answered, Completes, Address, Shown, Reliable, BeatPlaces, PairPlaces, LineEnd,
          BeatWords, BeatOf, Following, Word
  <2>5. ReplyInv'
    <3>1. \A q \in Port : Answered(q)' => \A x \in Reliable(q, ask[q])' : Shown(q)'[x] \in Value
        BY <2>4 DEF ReplyInv
    <3> QED
        BY <1>2, <1>3, <2>1, <3>1 DEF ReplyInv, Completes, Address
  <2>6. MasterInv'
    <3>1. ask[Slave] # None /\ ask[Slave].write /\ ~Captured /\ axi.late = ask[Slave]
        BY <2>2 DEF MasterInv
    <3> QED
        BY <1>2, <1>3, <2>1, <2>2, <3>1 DEF MasterInv, Novel, Address
  <2> QED
      BY <2>3, <2>5, <2>6
<1> QED
    BY <1>5, <1>6, <1>7 DEF Agents

-----------------------------------------------------------------------------
(* The memory that the ports see. *)

\* The words of a part of a line are data.
LEMMA RunData ==
    ASSUME NEW l \in 0 .. OutsideLine, NEW ws \in SUBSET Word, NEW f \in [{l} \X ws -> Value]
    PROVE  f \in Data(Word)
<1> DEFINE L == 0 .. OutsideLine
           W == SUBSET Word
<1>1. l \in L /\ ws \in W
    OBVIOUS
<1> HIDE DEF L, W
<1>2. {l} \X ws \in {{k} \X vs : k \in L, vs \in W}
    BY <1>1
<1> QED
    BY <1>2 DEF Data, L, W

\* Two places hold data.
LEMMA PairData ==
    ASSUME NEW x \in (0 .. OutsideLine) \X Word, NEW y \in (0 .. OutsideLine) \X Word,
           NEW f \in [{x, y} -> Value]
    PROVE  f \in Data(Word)
<1> DEFINE P == (0 .. OutsideLine) \X Word
<1>1. x \in P /\ y \in P
    OBVIOUS
<1> HIDE DEF P
<1>2. {x, y} \in {{u, v} : u \in P, v \in P}
    BY <1>1
<1> QED
    BY <1>2 DEF Data, P

\* What a load may rely on is a part of its line.
LEMMA ReliableRun ==
    ASSUME shape \in Shapes, NEW p, NEW r, r.line \in Ram \cup {IoLine, OutsideLine}, r.word \in Word
    PROVE  /\ \E ws \in SUBSET Word : Reliable(p, r) = {r.line} \X ws
           /\ r.line \in 0 .. OutsideLine
           /\ Reliable(p, r) \subseteq (0 .. OutsideLine) \X Word
           /\ r.line # OutsideLine => Reliable(p, r) \subseteq Backed
<1>1. /\ r.line \in 0 .. OutsideLine /\ IoLine # OutsideLine /\ IoLine \notin Ram /\ OutsideLine \notin Ram
      /\ 0 \in Word
    BY ShapeTypes DEF Ram, IoLine, OutsideLine, Word
<1>2. CASE r.write \/ r.line = OutsideLine
  <2>1. Reliable(p, r) = {r.line} \X {}
      BY <1>2 DEF Reliable
  <2> QED
      BY <1>1, <2>1
<1>3. CASE ~(r.write \/ r.line = OutsideLine) /\ r.line = IoLine
  <2>1. Reliable(p, r) = {<<IoLine, 0>>}
      BY <1>3 DEF Reliable
  <2>2. Reliable(p, r) = {r.line} \X {0}
      BY <1>3, <2>1
  <2> QED
      BY <1>1, <2>1, <2>2 DEF Backed
<1>4. CASE ~(r.write \/ r.line = OutsideLine) /\ r.line # IoLine
  <2>1. r.line \in Ram
      BY <1>4
  <2>2. \E ws \in SUBSET Word : Reliable(p, r) = {r.line} \X ws
    <3>1. CASE ~r.wide
      <4>1. Reliable(p, r) = {r.line} \X BeatWords(BeatOf(r.word))
          BY <1>4, <3>1 DEF Reliable, BeatPlaces
      <4> QED
          BY <4>1 DEF BeatWords
    <3>2. CASE r.wide /\ ~LineEnd(r.word)
      <4>1. r.word + 1 \in Word
          BY <3>2, ShapeTypes DEF LineEnd, Word
      <4>2. Reliable(p, r) = {<<r.line, r.word>>, <<r.line, r.word + 1>>}
          BY <1>4, <3>2 DEF Reliable, PairPlaces, Following, LineEnd
      <4>3. Reliable(p, r) = {r.line} \X {r.word, r.word + 1}
          BY <4>2
      <4> QED
          BY <4>1, <4>3
    <3>3. CASE r.wide /\ LineEnd(r.word) /\ p[2] = "d"
      <4>1. Reliable(p, r) = {<<r.line, r.word>>}
          BY <1>4, <3>3 DEF Reliable
      <4>2. Reliable(p, r) = {r.line} \X {r.word}
          BY <4>1
      <4> QED
          BY <4>2
    <3>4. CASE r.wide /\ LineEnd(r.word) /\ p[2] # "d"
      <4>1. Reliable(p, r) = {r.line} \X {}
          BY <1>4, <3>4 DEF Reliable
      <4> QED
          BY <4>1
    <3> QED
        BY <3>1, <3>2, <3>3, <3>4
  <2> QED
      BY <1>1, <2>1, <2>2 DEF Backed
<1> QED
    BY <1>2, <1>3, <1>4

\* A port that waits is not seen as one that does not.
LEMMA WaitsApart ==
    ASSUME shape \in Shapes, NEW p, NEW r \in Asked, NEW a \in Data(Word) \cup {None}
    PROVE  [request |-> [reads |-> Reliable(p, r), writes |-> Written(r)], answer |-> a] # None
<1>1. Reliable(p, r) \subseteq (0 .. OutsideLine) \X Word /\ r.line \in 0 .. OutsideLine
    BY ReliableRun DEF Asked
<1>2. Written(r) \in Data(Word)
  <2>1. r.words \in SUBSET Word /\ r.value \in Value
      BY DEF Asked
  <2>2. CASE r.line = OutsideLine
    <3>1. Written(r) \in [{r.line} \X {} -> Value]
        BY <2>2 DEF Written
    <3> QED
        BY <1>1, <3>1, RunData
  <2>3. CASE r.line # OutsideLine
    <3>1. {<<r.line, w>> : w \in r.words} = {r.line} \X r.words
        OBVIOUS
    <3>2. Written(r) \in [{r.line} \X r.words -> Value]
        BY <2>1, <2>3, <3>1 DEF Written
    <3> QED
        BY <1>1, <2>1, <3>2, RunData
  <2> QED
      BY <2>2, <2>3
<1>3. [request |-> [reads |-> Reliable(p, r), writes |-> Written(r)], answer |-> a]
        \in [request : [reads : SUBSET ((0 .. OutsideLine) \X Word), writes : Data(Word)],
             answer : Data(Word) \cup {None}]
    BY <1>1, <1>2
<1> QED
    BY <1>3, NoneApart

\* The memory after a request of a port is performed.
AfterPerform(p) ==
    [x \in DOMAIN golden |->
        IF x \in DOMAIN Written(ask[p]) THEN Written(ask[p])[x]
        ELSE IF x \in Reliable(p, ask[p]) \cap {<<IoLine, 0>>} THEN AfterRead(golden[x])
        ELSE golden[x]]

\* The moment at which the agents believe in a request is that at which its port sees it performed.
LEMMA BelievePerforms ==
    ASSUME Inv, AskInv, LiveInv, req # None, Believe, NEW p, p = req.port
    PROVE  golden' = AfterPerform(p)
<1>1. Reliable(p, ask[p]) = Reliable(req.port, req) /\ Written(ask[p]) = Written(req)
    BY UnderWay DEF Expected
<1>2. \A x \in DOMAIN Written(req) : Written(req)[x] = req.value
    BY DEF Written
<1>3. golden \in [Backed -> Value] /\ IoLine \notin Ram
    BY ShapeTypes DEF Inv, StoreTypes, PathTypes, Ram, IoLine
<1>4. \A x \in DOMAIN golden : x[1] = IoLine <=> x = <<IoLine, 0>>
    BY <1>3 DEF Backed
<1> QED
    BY <1>1, <1>2, <1>4 DEF Believe, AfterPerform

\* What is asked and what is answered make up what the ports see.
LEMMA PendQuiet ==
    ASSUME Unanswered, Unanswered', ReplyInv, ReplyInv', ask' = ask, shape' = shape, done' = done, golden' = golden
    PROVE  UNCHANGED Memory!vars
<1>1. \A p \in Port : ~Answered(p) /\ ~Answered(p)'
    BY AnsweredOnce DEF Unanswered, Answered, Completes
<1>2. \A p \in Port : /\ Reliable(p, ask[p])' = Reliable(p, ask[p])
                      /\ Written(ask[p])' = Written(ask[p])
    BY ShapeStays DEF Reliable, BeatPlaces, PairPlaces, LineEnd, BeatWords, BeatOf, Following, Word, Written
<1>3. \A p \in Port : Demand(p)' = Demand(p) /\ Answer(p)' = Answer(p)
    BY <1>1, <1>2 DEF Demand, Answer
<1>4. Pend' = Pend
    BY <1>1, <1>3 DEF Pend
<1> QED
    BY <1>4 DEF Memory!vars

\* A request is performed at one moment: with its response, or before it for a device.
LEMMA PerformStep ==
    ASSUME Inv, AskInv, LiveInv, ReplyInv, Unanswered, req # None, done = None,
           ask' = ask, shape' = shape, NEW p, p = req.port, golden' = AfterPerform(p),
           \A q \in Port : Answered(q)' => q = p,
           \/ Answered(p)' /\ done' = None /\ \A x \in Expected : Shown(p)'[x] = golden[x]
           \/ ~Answered(p)' /\ done' # None /\ done'.port = p /\ \A x \in Expected : done'.data[x] = golden[x]
    PROVE  Memory!Next
<1>1. /\ p \in Port /\ ask[p] # None /\ ask[p] \in Asked /\ Reliable(p, ask[p]) = Expected
      /\ shape \in Shapes
    BY UnderWay DEF Inv, PathTypes
<1>2. \A q \in Port : ~Answered(q)
    BY AnsweredOnce
<1>3. \A q \in Port : Reliable(q, ask[q])' = Reliable(q, ask[q]) /\ Written(ask[q])' = Written(ask[q])
    BY ShapeStays DEF Reliable, BeatPlaces, PairPlaces, LineEnd, BeatWords, BeatOf, Following, Word, Written
<1>4. \A q \in Port : Demand(q)' = Demand(q)
    BY <1>3 DEF Demand
<1>5. Pend[p] = [request |-> Demand(p), answer |-> None]
    BY <1>1, <1>2 DEF Pend
<1>6. Pend[p] # None
    BY <1>1, <1>5, WaitsApart DEF Demand
<1>7. Answer(p)' = [x \in Expected |-> golden[x]]
  <2>1. CASE Answered(p)'
      BY <1>1, <1>3, <2>1 DEF Answer
  <2>2. CASE ~Answered(p)'
      BY <1>1, <1>3, <2>2 DEF Answer
  <2> QED
      BY <2>1, <2>2
<1>8. Pend'[p] = [request |-> Demand(p), answer |-> [x \in Expected |-> golden[x]]]
    BY <1>1, <1>4, <1>7 DEF Pend
<1>9. \A q \in Port : q # p => Pend'[q] = Pend[q]
  <2> TAKE q \in Port
  <2> HAVE q # p
  <2>1. ~Answered(q) /\ ~Answered(q)' /\ ~(done' # None /\ done'.port = q)
      BY <1>2
  <2>2. Pend[q] = IF ask[q] = None THEN None ELSE [request |-> Demand(q), answer |-> None]
      BY <2>1 DEF Pend
  <2>3. Pend'[q] = IF ask[q] = None THEN None ELSE [request |-> Demand(q), answer |-> None]
      BY <1>4, <2>1 DEF Pend
  <2> QED
      BY <2>2, <2>3
<1>10. Demand(p).reads = Expected /\ Demand(p).writes = Written(ask[p])
    BY <1>1 DEF Demand
<1>11. Pend' = [Pend EXCEPT ![p].answer = [x \in Expected |-> golden[x]]]
  <2>1. Pend = [q \in Port |-> Pend[q]] /\ Pend' = [q \in Port |-> Pend'[q]]
      BY DEF Pend
  <2>2. [Pend[p] EXCEPT !.answer = [x \in Expected |-> golden[x]]]
            = [request |-> Demand(p), answer |-> [x \in Expected |-> golden[x]]]
      BY <1>5
  <2> HIDE DEF Pend
  <2> QED
      BY <1>1, <1>8, <1>9, <2>1, <2>2
<1>12. Memory!Perform(p)
  <2>1. Pend[p].answer = None /\ Pend[p].request = Demand(p)
      BY <1>5
  <2>2. golden' = [x \in DOMAIN golden |->
                    IF x \in DOMAIN Demand(p).writes THEN Demand(p).writes[x]
                    ELSE IF x \in Demand(p).reads \cap {<<IoLine, 0>>} THEN AfterRead(golden[x])
                    ELSE golden[x]]
      BY <1>1, <1>10 DEF AfterPerform
  <2> QED
      BY <1>6, <1>10, <1>11, <2>1, <2>2 DEF Memory!Perform
<1> QED
    BY <1>1, <1>12 DEF Memory!Next

\* A response that is answered retires, and only that.
LEMMA RespondStep ==
    ASSUME Inv, AskInv, ReplyInv, ReplyInv', Arbitrate, Unanswered', shape' = shape, done = None, done' = None
    PROVE  Memory!Next \/ UNCHANGED Memory!vars
<1>1. /\ ask' = [p \in Port |-> IF Answered(p) THEN None ELSE ask[p]] /\ golden' = golden /\ shape \in Shapes
      /\ ask \in [Port -> Asked \cup {None}]
    BY DEF Arbitrate, Edge, ghostVars, Inv, PathTypes, AskTypes
<1>2. \A q \in Port : ~Answered(q)'
    BY AnsweredOnce DEF Unanswered, Answered, Completes
<1>3. CASE Unanswered
  <2>1. ask' = ask
      BY <1>1, <1>3, AnsweredOnce
  <2> QED
      BY <1>1, <1>3, <2>1, PendQuiet
<1>4. CASE ~Unanswered
  <2>1. PICK p \in Port : Answered(p)
    <3>1. CASE response # None
        BY <3>1 DEF ReplyInv, Answered
    <3>2. CASE response = None
        BY <1>4, <3>2 DEF Unanswered, Answered, Port
    <3> QED
        BY <3>1, <3>2
  <2>2. ask[p] # None /\ ask[p] \in Asked /\ \A q \in Port : Answered(q) => q = p
      BY <1>1, <2>1, AnsweredOnce
  <2>3. ask'[p] = None /\ \A q \in Port : q # p => ask'[q] = ask[q]
      BY <1>1, <2>1, <2>2
  <2>4. \A x \in Reliable(p, ask[p]) : Shown(p)[x] \in Value
      BY <2>1 DEF ReplyInv
  <2>5. Answer(p) \in Data(Word)
    <3>1. Answer(p) \in [Reliable(p, ask[p]) -> Value]
        BY <2>1, <2>4 DEF Answer
    <3>2. /\ \E ws \in SUBSET Word : Reliable(p, ask[p]) = {ask[p].line} \X ws
          /\ ask[p].line \in 0 .. OutsideLine
        BY <1>1, <2>2, ReliableRun DEF Asked
    <3> QED
        BY <3>1, <3>2, RunData
  <2>6. Pend[p] = [request |-> Demand(p), answer |-> Answer(p)]
      BY <2>1, <2>2 DEF Pend
  <2>7. Pend[p] # None /\ Pend[p].answer # None
    <3>1. Pend[p] # None
        BY <1>1, <2>2, <2>5, <2>6, WaitsApart DEF Demand
    <3>2. Answer(p) # None
        BY <1>1, <2>5, NoneApart
    <3> QED
        BY <2>6, <3>1, <3>2
  <2>8. Pend'[p] = None
      BY <2>3 DEF Pend
  <2>9. \A q \in Port : q # p => Pend'[q] = Pend[q]
    <3> TAKE q \in Port
    <3> HAVE q # p
    <3>1. ~Answered(q) /\ ~Answered(q)' /\ ask'[q] = ask[q]
        BY <1>2, <2>2, <2>3
    <3>2. Demand(q)' = Demand(q)
        BY <3>1, ShapeStays DEF Demand, Reliable, BeatPlaces, PairPlaces, LineEnd, BeatWords, BeatOf, Following, Word,
            Written
    <3> QED
        BY <3>1, <3>2 DEF Pend
  <2>10. Pend' = [Pend EXCEPT ![p] = None]
    <3>1. Pend = [q \in Port |-> Pend[q]] /\ Pend' = [q \in Port |-> Pend'[q]]
        BY DEF Pend
    <3> HIDE DEF Pend
    <3> QED
        BY <2>8, <2>9, <3>1
  <2>11. Memory!Respond(p)
      BY <1>1, <2>7, <2>10 DEF Memory!Respond
  <2> QED
      BY <2>11 DEF Memory!Next
<1> QED
    BY <1>3, <1>4

\* An agent asks, or sends the data of what it asked.
LEMMA AskStep ==
    ASSUME Inv, AskInv, LiveInv, ReplyInv, DeviceInv, ReplyInv', Agents
    PROVE  Memory!Next \/ UNCHANGED Memory!vars
<1>1. /\ shape \in Shapes /\ shape' = shape /\ response' = response /\ slave' = slave
      /\ golden' = golden /\ done' = done /\ Slave \in Port /\ ask \in [Port -> Asked \cup {None}]
      /\ StoreTypes
    BY DEF Inv, PathTypes, AskTypes, Agents, AskCpu, AskMaster, SendData, ghostVars, Port
<1>2. done # None => done.port \in Port /\ ask[done.port] # None
  <2> SUFFICES ASSUME done # None PROVE done.port \in Port /\ ask[done.port] # None
      OBVIOUS
  <2>1. req # None /\ done.port = req.port
      BY DEF DeviceInv, Inv, PathTypes
  <2> QED
      BY <2>1, UnderWay
<1>3. \A q \in Port : ask'[q] = ask[q] =>
        /\ Demand(q)' = Demand(q) /\ Answer(q)' = Answer(q) /\ Answered(q)' = Answered(q)
    BY <1>1, ShapeStays DEF Demand, Reliable, BeatPlaces, PairPlaces, LineEnd, BeatWords, BeatOf, Following, Word,
        Written, Answer, Answered, Completes, Shown, Address
<1>4. \A q \in Port : ask'[q] = ask[q] => Pend'[q] = Pend[q]
    BY <1>1, <1>3 DEF Pend
<1>5. ASSUME NEW p \in Port, ask[p] = None, NEW r \in Requests(p), ask' = [ask EXCEPT ![p] = r]
      PROVE  Memory!Next
  <2>1. r \in Asked /\ r # None
      BY <1>1, RequestsAsked, NoneApart
  <2>2. ask'[p] = r /\ \A q \in Port : q # p => ask'[q] = ask[q]
      BY <1>1, <1>5
  <2>3. ~Answered(p)'
    <3>1. CASE p = Slave
        BY <1>1, <1>5, <3>1 DEF ReplyInv, Answered
    <3>2. CASE p # Slave
        BY <1>1, <1>5, <3>2 DEF ReplyInv, Answered, Completes
    <3> QED
        BY <3>1, <3>2
  <2>4. ~(done' # None /\ done'.port = p)
      BY <1>1, <1>2, <1>5
  <2> DEFINE d == [reads |-> Reliable(p, r), writes |-> Written(r)]
  <2>5. Demand(p)' = d
      BY <1>1, <2>2, ShapeStays DEF Demand, Reliable, BeatPlaces, PairPlaces, LineEnd, BeatWords, BeatOf, Following,
          Word, Written
  <2>6. Pend'[p] = [request |-> d, answer |-> None]
      BY <2>1, <2>2, <2>3, <2>4, <2>5 DEF Pend
  <2>7. Pend[p] = None
      BY <1>5 DEF Pend
  <2>8. Pend'[p] # None
      BY <1>1, <2>1, <2>6, WaitsApart
  <2>9. Memory!IsRequest(d)
    <3>1. r.line \in 0 .. OutsideLine /\ Reliable(p, r) \subseteq (0 .. OutsideLine) \X Word
        BY <1>1, <2>1, ReliableRun DEF Asked
    <3>2. Word \subseteq Nat
        BY DEF Word
    <3>3. Reliable(p, r) \subseteq Place
        BY <3>1, <3>2 DEF Place
    <3>4. DOMAIN Written(r) = IF r.line = OutsideLine THEN {} ELSE {<<r.line, w>> : w \in r.words}
        BY DEF Written
    <3>5. r.words \subseteq Word
        BY <2>1 DEF Asked
    <3>6. \A w \in r.words : <<r.line, w>> \in Place
        BY <3>1, <3>2, <3>5 DEF Place
    <3>7. DOMAIN Written(r) \subseteq Place
        BY <3>4, <3>6, Zenon
    <3> QED
        BY <3>3, <3>7 DEF Memory!IsRequest
  <2>10. Pend' = [Pend EXCEPT ![p] = [request |-> d, answer |-> None]]
    <3>1. Pend = [q \in Port |-> Pend[q]] /\ Pend' = [q \in Port |-> Pend'[q]]
        BY DEF Pend
    <3> HIDE DEF Pend, d
    <3> QED
        BY <1>4, <2>2, <2>6, <3>1
  <2>11. Pend'[p].request = d
      BY <2>6
  <2> HIDE DEF Pend, d
  <2>12. Memory!Ask(p)
      BY <1>1, <2>7, <2>8, <2>9, <2>10, <2>11 DEF Memory!Ask
  <2> QED
      BY <2>12 DEF Memory!Next
<1>6. ASSUME NEW p \in Port, AskCpu(p) PROVE Memory!Next
  <2>1. ask[p] = None /\ \E r \in Requests(p) : ask' = [ask EXCEPT ![p] = r]
      BY <1>6 DEF AskCpu
  <2> QED
      BY <1>5, <2>1
<1>7. ASSUME AskMaster PROVE Memory!Next
  <2>1. ask[Slave] = None /\ \E r \in Requests(Slave) : ask' = [ask EXCEPT ![Slave] = r]
      BY <1>7 DEF AskMaster
  <2> QED
      BY <1>1, <1>5, <2>1
<1>8. ASSUME SendData PROVE UNCHANGED Memory!vars
  <2>1. ask' = ask
      BY <1>8 DEF SendData
  <2>2. Pend' = Pend
    <3>1. Pend = [q \in Port |-> Pend[q]] /\ Pend' = [q \in Port |-> Pend'[q]]
        BY DEF Pend
    <3> HIDE DEF Pend
    <3> QED
        BY <1>4, <2>1, <3>1
  <2> QED
      BY <1>1, <2>2 DEF Memory!vars
<1> QED
    BY <1>6, <1>7, <1>8 DEF Agents

-----------------------------------------------------------------------------
(* What the devices and the loads hold. *)

\* Steps that change nothing of a request's data.
LEMMA DataFrozen ==
    ASSUME DeviceInv, DataInv, UNCHANGED <<shape, state, req, work, ram, memory, golden, done>>
    PROVE  DeviceInv' /\ DataInv'
    BY ShapeStays DEF DeviceInv, DataInv, Evicting, Refilling, Crossing, Expected, Reliable, BeatPlaces,
        PairPlaces, LineEnd, BeatWords, BeatOf, Following, Word, Way, Absent, Holds, Filling, SetOf, TagOf

\* No data is collected between two requests and before the lookup.
LEMMA DataIdle ==
    ASSUME DeviceInv, state' \in {"INIT", "IDLE", "LOOKUP_CAPTURE", "LOOKUP", "LOOKUP_RESULT"}, done' = None,
           memory' = memory, golden'[<<IoLine, 0>>] = golden[<<IoLine, 0>>]
    PROVE  DeviceInv' /\ DataInv'
    BY DEF DeviceInv, DataInv, Evicting, Refilling, Crossing

\* An instruction that crosses the end of a line is sent past the lookup.
LEMMA AcceptData ==
    ASSUME Inv, AskInv, LiveInv, DeviceInv, Accept, shape' = shape
    PROVE  DeviceInv' /\ DataInv'
<1>1. /\ state = "IDLE" /\ pipe # None /\ memory' = memory /\ golden' = golden /\ done' = done /\ done = None
      /\ req = None /\ shape \in Shapes /\ pipe \in Served
    BY DEF Accept, ghostVars, DeviceInv, Inv, PathTypes
<1>2. CASE state' # "CROSS_AR0"
  <2>1. state' \in {"IDLE", "LOOKUP_CAPTURE"}
      BY <1>1, <1>2 DEF Accept
  <2> QED
      BY <1>1, <2>1, DataIdle
<1>3. CASE state' = "CROSS_AR0"
  <2>1. req' = pipe /\ pipe.port[2] = "i" /\ pipe.wide /\ LineEnd(pipe.word)
      BY <1>1, <1>3 DEF Accept
  <2>2. Offered(pipe.port, ask[pipe.port]) /\ pipe = AsRequest(pipe.port, ask[pipe.port])
      BY <1>1 DEF AskInv, LiveInv, Served
  <2>3. ~pipe.write /\ pipe.line \in Ram
      BY <2>1, <2>2 DEF Offered, AsRequest
  <2>4. Expected' = {}
    <3>1. pipe.line # IoLine /\ pipe.line # OutsideLine /\ LineEnd(req.word)'
        BY <1>1, <2>1, <2>3, ShapeTypes DEF Ram, IoLine, OutsideLine, LineEnd
    <3> QED
        BY <2>1, <2>3, <3>1 DEF Expected, Reliable
  <2> QED
      BY <1>1, <1>3, <2>1, <2>3, <2>4 DEF DeviceInv, DataInv, Evicting, Refilling, Crossing
<1> QED
    BY <1>2, <1>3

\* A request that misses is refilled when it is narrow, and read beside the cache when it is wide.
LEMMA MissData ==
    ASSUME Inv, AskInv, LiveInv, DeviceInv, ResultMiss, shape' = shape
    PROVE  DeviceInv' /\ DataInv'
<1>1. /\ state = "LOOKUP_RESULT" /\ req.line \in Ram /\ ~work.hit
      /\ state' = IF CrossBeatRead /\ req.port # Slave THEN "CROSS_AR0"
                  ELSE IF work.evict.valid /\ work.evict.dirty THEN "EVICT_AW" ELSE "AXI_AR"
      /\ work' = [work EXCEPT !.way = victim, !.beat = 0, !.out = 0]
      /\ req' = req /\ ram' = ram /\ memory' = memory /\ golden' = golden /\ done' = done
    BY DEF ResultMiss, CachedResult, pathVars, ghostVars, ramVars
<1>2. /\ work = [hit |-> work.hit, way |-> work.way, evict |-> work.evict, beat |-> work.beat,
                 out |-> work.out, refill |-> work.refill, kept |-> work.kept, low |-> work.low,
                 high |-> work.high]
      /\ shape \in Shapes /\ req # None /\ req \in Served
    BY <1>1 DEF Inv, PathTypes
<1>3. work'.beat = 0
    BY <1>1, <1>2
<1>4. Offered(req.port, req)
    BY <1>2, UnderWay
<1>5. DeviceInv'
    BY <1>1 DEF DeviceInv
<1>6. CASE state' = "CROSS_AR0"
  <2>1. ~req.write /\ req.wide
      BY <1>1, <1>6 DEF CrossBeatRead
  <2>2. Absent'
    <3>1. Absent
        BY <1>1 DEF Inv, WorkInv
    <3> QED
        BY <1>1, <1>6, <3>1, ShapeStays DEF Absent, Holds, Filling
  <2> QED
      BY <1>1, <1>5, <1>6, <2>1, <2>2 DEF DataInv, Evicting, Refilling, Crossing
<1>7. CASE state' # "CROSS_AR0"
  <2>1. state' \in {"EVICT_AW", "AXI_AR"}
      BY <1>1, <1>7
  <2>2. ~req.wide
    <3> SUFFICES ASSUME req.wide PROVE FALSE
        OBVIOUS
    <3>1. CrossBeatRead /\ req.port # Slave
        BY <1>4 DEF Offered, CrossBeatRead
    <3> QED
        BY <1>1, <1>7, <3>1
  <2>3. ~(BeatOf(req.word) < 0) /\ BeatOf(req.word)' = BeatOf(req.word)
      BY <1>1, <1>2, BeatParts, ShapeStays DEF Served, BeatOf
  <2> QED
      BY <1>1, <1>3, <1>5, <2>1, <2>2, <2>3 DEF DataInv, Evicting, Refilling, Crossing
<1> QED
    BY <1>6, <1>7

\* A victim is written to the memory of its own line.
LEMMA EvictData ==
    ASSUME Inv, DeviceInv, DataInv, EvictAddress \/ EvictWrite \/ EvictAnswered, shape' = shape
    PROVE  DeviceInv' /\ DataInv'
<1>1. /\ state \in Evicting /\ state' \in Evicting \cup {"AXI_AR"}
      /\ req' = req /\ golden' = golden /\ done' = done
    BY DEF EvictAddress, AddressPhase, EvictWrite, EvictAnswered, Evicting, pathVars, ghostVars
<1>2. work'.beat = work.beat
  <2>1. work = [hit |-> work.hit, way |-> work.way, evict |-> work.evict, beat |-> work.beat,
                 out |-> work.out, refill |-> work.refill, kept |-> work.kept, low |-> work.low,
                 high |-> work.high]
      BY DEF Inv, PathTypes
  <2>2. work' = work \/ work' = [work EXCEPT !.out = work.out + 1]
      BY DEF EvictAddress, AddressPhase, EvictWrite, EvictAnswered
  <2> QED
      BY <2>1, <2>2
<1>3. /\ req.line \in Ram /\ work.way = victim /\ work.beat = 0 /\ Victim.valid /\ work.evict = Victim
      /\ shape \in Shapes /\ req # None /\ req \in Served /\ ~req.wide
    BY <1>1 DEF Inv, PathTypes, WorkInv, DataInv, Evicting
<1>4. memory'[<<IoLine, 0>>] = memory[<<IoLine, 0>>]
  <2>1. CASE ~EvictWrite
      BY <2>1 DEF EvictAddress, AddressPhase, EvictAnswered
  <2>2. CASE EvictWrite
    <3>1. LineOf(SetOf(req.line), work.evict.tag) \in Ram
      <4>1. SetOf(req.line) \in Sets /\ victim \in Way /\ state # "INIT" /\ ~Filling(SetOf(req.line), victim)
          BY <1>1, <1>3, LineParts DEF Ram, Inv, PathTypes, Evicting, Filling
      <4> QED
          BY <1>3, <4>1 DEF Inv, EntryInv, Victim
    <3>2. IoLine \notin Ram /\ <<IoLine, 0>> \in Backed
        BY <1>3, ShapeTypes DEF Ram, IoLine, Backed
    <3>3. DOMAIN memory = Backed
        BY DEF Inv, StoreTypes
    <3> QED
        BY <2>2, <3>1, <3>2, <3>3 DEF EvictWrite
  <2> QED
      BY <2>1, <2>2
<1>5. ~(BeatOf(req.word) < 0) /\ BeatOf(req.word)' = BeatOf(req.word)
    BY <1>1, <1>3, BeatParts, ShapeStays DEF Served, BeatOf
<1>6. DeviceInv'
    BY <1>1, <1>4 DEF DeviceInv, Evicting
<1>7. DataInv'
    BY <1>1, <1>2, <1>3, <1>5 DEF DataInv, Evicting, Refilling, Crossing
<1> QED
    BY <1>6, <1>7

\* The beat that was asked for is kept as memory held it.
LEMMA RefillKeeps ==
    ASSUME Inv, DeviceInv, DataInv, RefillAddress \/ RefillData \/ RefillBeat, shape' = shape
    PROVE  DeviceInv' /\ DataInv'
<1>1. /\ state \in Refilling /\ state' \in Refilling
      /\ req' = req /\ golden' = golden /\ memory' = memory /\ done' = done
    BY DEF RefillAddress, AddressPhase, RefillData, RefillBeat, Refilling, pathVars, ghostVars
<1>2. /\ ~req.wide /\ shape \in Shapes /\ req # None /\ req \in Served /\ work.beat \in Nat
      /\ work = [hit |-> work.hit, way |-> work.way, evict |-> work.evict, beat |-> work.beat,
                 out |-> work.out, refill |-> work.refill, kept |-> work.kept, low |-> work.low,
                 high |-> work.high]
    BY <1>1, BeatParts DEF Inv, PathTypes, DataInv, Refilling
<1>3. DeviceInv'
    BY <1>1 DEF DeviceInv, Refilling
<1>4. /\ BeatOf(req.word)' = BeatOf(req.word)
      /\ \A b : BeatWords(b)' = BeatWords(b)
      /\ BeatOf(req.word) \in Nat
    BY <1>1, <1>2, BeatParts, ShapeStays DEF BeatOf, Served
<1>5. CASE RefillAddress \/ RefillData
  <2>1. work'.beat = work.beat /\ work'.kept = work.kept
      BY <1>2, <1>5 DEF RefillAddress, AddressPhase, RefillData
  <2>2. DataInv'
      BY <1>1, <1>2, <1>4, <2>1 DEF DataInv, Refilling, Crossing
  <2> QED
      BY <1>3, <2>2
<1>6. CASE RefillBeat
  <2>1. state = "AXI_R_WRITE" /\ work' = [work EXCEPT !.beat = @ + 1, !.kept = KeptBeat]
      BY <1>6 DEF RefillBeat
  <2>2. work'.beat = work.beat + 1 /\ work'.kept = KeptBeat
      BY <1>2, <2>1
  <2>3. work.refill = [w \in BeatWords(work.beat) |-> golden[<<req.line, w>>]]
      BY <2>1 DEF Inv, WorkInv
  <2>4. ~req.write /\ BeatOf(req.word) < work.beat + 1 =>
            \A w \in BeatWords(BeatOf(req.word)) : KeptBeat[w] = golden[<<req.line, w>>]
    <3>1. CASE BeatOf(req.word) = work.beat
        BY <2>3, <3>1 DEF KeptBeat
    <3>2. CASE BeatOf(req.word) # work.beat
        BY <1>1, <1>2, <1>4, <3>2 DEF DataInv, KeptBeat
    <3> QED
        BY <3>1, <3>2
  <2>5. DataInv'
      BY <1>1, <1>2, <1>4, <2>2, <2>4 DEF DataInv, Refilling, Crossing
  <2> QED
      BY <1>3, <2>5
<1> QED
    BY <1>5, <1>6

\* The two halves of a wide load that misses are read from memory, which has the line.
LEMMA CrossData ==
    ASSUME Inv, AskInv, LiveInv, DeviceInv, DataInv, CrossAddress \/ CrossLow \/ CrossHigh, shape' = shape
    PROVE  DeviceInv' /\ DataInv'
<1>1. /\ state \in Crossing \ {"CROSS_DONE"} /\ state' \in Crossing
      /\ req' = req /\ ram' = ram /\ golden' = golden /\ memory' = memory /\ done' = done
    BY DEF CrossAddress, AddressPhase, CrossLow, CrossHigh, Crossing, pathVars, ghostVars, ramVars
<1>2. /\ ~req.write /\ req.wide /\ (Expected # {} => Absent)
      /\ shape \in Shapes /\ req # None /\ req \in Served /\ state # "INIT"
      /\ work = [hit |-> work.hit, way |-> work.way, evict |-> work.evict, beat |-> work.beat,
                 out |-> work.out, refill |-> work.refill, kept |-> work.kept, low |-> work.low,
                 high |-> work.high]
      /\ memory \in [Backed -> Value]
    BY <1>1 DEF Inv, PathTypes, StoreTypes, DataInv, Crossing
<1>3. DeviceInv'
    BY <1>1 DEF DeviceInv, Crossing
<1>4. /\ Expected' = Expected /\ LineEnd(req.word)' = LineEnd(req.word)
      /\ Following(<<req.line, req.word>>)' = Following(<<req.line, req.word>>)
    BY <1>1, ShapeStays DEF Expected, Reliable, BeatPlaces, PairPlaces, LineEnd, Following, BeatWords, BeatOf, Word
<1>5. Absent' <=> Absent
    BY <1>1, ShapeStays DEF Absent, Holds, Filling, Crossing
<1>6. /\ req.line \in Ram /\ req.word \in Word /\ Following(<<req.line, req.word>>)[1] \in Ram
      /\ Following(<<req.line, req.word>>)[2] \in Word
  <2>1. req.line \in Ram /\ req.word \in Word /\ Following(<<req.line, req.word>>)[1] \in Ram
      BY <1>2, UnderWay DEF Offered, Served
  <2>2. Following(<<req.line, req.word>>)[2] \in Word
      BY <1>2, <2>1, ShapeTypes DEF Following, Word
  <2> QED
      BY <2>1, <2>2
<1>7. /\ memory[<<req.line, req.word>>] \in Value
      /\ memory[Following(<<req.line, req.word>>)] \in Value
  <2>1. Following(<<req.line, req.word>>)
            = <<Following(<<req.line, req.word>>)[1], Following(<<req.line, req.word>>)[2]>>
      BY DEF Following
  <2> QED
      BY <1>2, <1>6, <2>1 DEF Backed
<1>8. Expected # {} => \A w \in Word : memory[<<req.line, w>>] = golden[<<req.line, w>>]
    BY <1>2, <1>6 DEF Inv, MemoryInv, Absent
<1>9. CASE CrossAddress
  <2>1. work' = work /\ state' # "CROSS_DONE" /\ (state' = "CROSS_R1" => state = "CROSS_AR1")
        /\ state' # "CROSS_AR1"
      BY <1>9 DEF CrossAddress, AddressPhase
  <2> QED
      BY <1>1, <1>2, <1>3, <1>4, <1>5, <2>1 DEF DataInv, Crossing, Evicting, Refilling
<1>10. CASE CrossLow
  <2>1. state' = "CROSS_AR1" /\ work' = [work EXCEPT !.low = memory[<<req.line, req.word>>]]
      BY <1>10 DEF CrossLow
  <2>2. work'.low = memory[<<req.line, req.word>>]
      BY <1>2, <2>1
  <2> QED
      BY <1>1, <1>2, <1>3, <1>4, <1>5, <1>6, <1>7, <1>8, <2>1, <2>2 DEF DataInv, Crossing, Evicting, Refilling
<1>11. CASE CrossHigh
  <2>1. state = "CROSS_R1" /\ state' = "CROSS_DONE"
        /\ work' = [work EXCEPT !.high = memory[Following(<<req.line, req.word>>)]]
      BY <1>11 DEF CrossHigh
  <2>2. work'.high = memory[Following(<<req.line, req.word>>)] /\ work'.low = work.low
      BY <1>2, <2>1
  <2>3. Expected # {} /\ ~LineEnd(req.word) =>
            memory[Following(<<req.line, req.word>>)] = golden[Following(<<req.line, req.word>>)]
    <3>1. ~LineEnd(req.word) => Following(<<req.line, req.word>>)[1] = req.line
        BY DEF LineEnd, Following
    <3>2. Following(<<req.line, req.word>>)
            = <<Following(<<req.line, req.word>>)[1], Following(<<req.line, req.word>>)[2]>>
        BY DEF Following
    <3> QED
        BY <1>6, <1>8, <3>1, <3>2
  <2>4. work.low \in Value /\ (Expected # {} => work.low = golden[<<req.line, req.word>>])
      BY <2>1 DEF DataInv
  <2> QED
      BY <1>1, <1>2, <1>3, <1>4, <1>5, <1>7, <2>1, <2>2, <2>3, <2>4 DEF DataInv, Crossing, Evicting, Refilling
<1> QED
    BY <1>9, <1>10, <1>11

\* A device holds what the agents believe in, and the datum read from it waits for its response.
LEMMA IoData ==
    ASSUME Inv, AskInv, LiveInv, DeviceInv, ResultUncached \/ IoAddress \/ IoWrite \/ IoRead, shape' = shape
    PROVE  DeviceInv' /\ DataInv'
<1>1. /\ req # None /\ req \in Served /\ shape \in Shapes /\ req' = req /\ req.line = IoLine
      /\ golden \in [Backed -> Value] /\ memory \in [Backed -> Value]
      /\ work = [hit |-> work.hit, way |-> work.way, evict |-> work.evict, beat |-> work.beat,
                 out |-> work.out, refill |-> work.refill, kept |-> work.kept, low |-> work.low,
                 high |-> work.high]
    BY DEF Inv, PathTypes, StoreTypes, WorkInv, Uncached, ResultUncached, IoAddress, AddressPhase, IoWrite, IoRead,
        pathVars
<1>2. <<IoLine, 0>> \in Backed /\ IoLine # OutsideLine
    BY DEF Backed, IoLine, OutsideLine
<1>3. CASE ResultUncached \/ IoAddress
  <2>1. /\ memory' = memory /\ golden' = golden /\ done' = done
        /\ state \in {"LOOKUP_RESULT", "IO_AW", "IO_AR"}
        /\ state' \in {"IO_AW", "IO_W"} => (state = "LOOKUP_RESULT" /\ req.write) \/ state = "IO_AW"
        /\ state' \in {"IO_AR", "IO_R"} => (state = "LOOKUP_RESULT" /\ ~req.write) \/ state = "IO_AR"
        /\ state' \in {"IO_AW", "IO_W", "IO_AR", "IO_R"}
      BY <1>3 DEF ResultUncached, IoAddress, AddressPhase, ghostVars
  <2> QED
      BY <1>1, <2>1 DEF DeviceInv, DataInv, Evicting, Refilling, Crossing
<1>4. CASE IoWrite
  <2>1. /\ state = "IO_W" /\ state' = "IO_B" /\ Believe /\ req.write
        /\ memory' = [memory EXCEPT ![<<IoLine, 0>>] = req.value]
        /\ done' = [port |-> req.port, data |-> <<>>]
      BY <1>4 DEF IoWrite, DeviceInv
  <2>2. req.words = {0}
      BY <1>1, <2>1, UnderWay DEF Offered
  <2>3. golden'[<<IoLine, 0>>] = req.value
    <3>1. <<IoLine, 0>> \in DOMAIN Written(req)
        BY <1>1, <1>2, <2>2 DEF Written
    <3> QED
        BY <1>1, <1>2, <2>1, <3>1 DEF Believe
  <2>4. done' # None
    <3>1. <<>> \in [{0} \X {} -> Value]
        OBVIOUS
    <3>2. 0 \in 0 .. OutsideLine
        BY DEF OutsideLine
    <3>3. <<>> \in Data(Word)
        BY <3>1, <3>2, RunData
    <3> QED
        BY <1>1, <2>1, <3>3, NoneApart DEF Served
  <2> QED
      BY <1>1, <1>2, <2>1, <2>3, <2>4 DEF DeviceInv, DataInv, Evicting, Refilling, Crossing
<1>5. CASE IoRead
  <2>1. /\ state = "IO_R" /\ state' = "IO_R_RESULT" /\ Believe /\ ~req.write
        /\ memory' = [memory EXCEPT ![<<IoLine, 0>>] = AfterRead(memory[<<IoLine, 0>>])]
        /\ work' = [work EXCEPT !.refill = [w \in {0} |-> memory[<<IoLine, 0>>]]]
        /\ done' = [port |-> req.port, data |-> [x \in {<<IoLine, 0>>} |-> memory[x]]]
        /\ memory[<<IoLine, 0>>] = golden[<<IoLine, 0>>]
      BY <1>5 DEF IoRead, DeviceInv
  <2>2. golden'[<<IoLine, 0>>] = AfterRead(golden[<<IoLine, 0>>])
    <3>1. <<IoLine, 0>> \notin DOMAIN Written(req)
        BY <1>1, <2>1 DEF Written, Served
    <3>2. <<IoLine, 0>> \in Reliable(req.port, req)
        BY <1>1, <1>2, <2>1 DEF Reliable
    <3> QED
        BY <1>1, <1>2, <2>1, <3>1, <3>2 DEF Believe
  <2>3. work'.refill[0] = memory[<<IoLine, 0>>]
      BY <1>1, <2>1
  <2>4. done' # None
    <3> DEFINE d == [x \in {<<IoLine, 0>>} |-> memory[x]]
    <3>1. d \in [{IoLine} \X {0} -> Value]
      <4>1. {<<IoLine, 0>>} = {IoLine} \X {0}
          OBVIOUS
      <4>2. memory[<<IoLine, 0>>] \in Value
          BY <1>1, <1>2
      <4> QED
          BY <4>1, <4>2
    <3>2. done' = [port |-> req.port, data |-> d]
        BY <2>1
    <3> HIDE DEF d
    <3>3. IoLine \in 0 .. OutsideLine /\ {0} \in SUBSET Word
        BY <1>1, ShapeTypes DEF IoLine, OutsideLine, Word
    <3>4. d \in Data(Word)
        BY <3>1, <3>3, RunData
    <3> QED
        BY <1>1, <3>2, <3>4, NoneApart DEF Served
  <2> QED
      BY <1>1, <1>2, <2>1, <2>2, <2>3, <2>4 DEF DeviceInv, DataInv, Evicting, Refilling, Crossing
<1> QED
    BY <1>3, <1>4, <1>5

-----------------------------------------------------------------------------
(* The end of a request. *)

\* What a load relies on is what the agents believe in, of the type of memory.
LEMMA ExpectedTypes ==
    ASSUME Inv, req # None
    PROVE  /\ \A x \in Expected : golden[x] \in Value
           /\ req.write => Expected = {}
           /\ ~req.write => req.words = {} /\ Written(req) = <<>>
<1>1. req \in Served /\ shape \in Shapes /\ golden \in [Backed -> Value]
    BY DEF Inv, PathTypes, StoreTypes
<1>2. req.line # OutsideLine => Expected \subseteq Backed
    BY <1>1, ReliableRun DEF Expected, Served
<1>3. req.line = OutsideLine \/ req.write => Expected = {}
    BY DEF Expected, Reliable
<1>4. ~req.write => req.words = {} /\ Written(req) = <<>>
    BY <1>1 DEF Served, Written
<1> QED
    BY <1>1, <1>2, <1>3, <1>4

\* No data is data.
LEMMA NothingData == <<>> \in Data(Word)
<1>1. <<>> \in [{0} \X {} -> Value]
    OBVIOUS
<1>2. 0 \in 0 .. OutsideLine
    BY DEF OutsideLine
<1> QED
    BY <1>1, <1>2, RunData

\* A read of RAM, and an access to no region, leaves the memory as it is.
LEMMA ReadPerforms ==
    ASSUME Inv, AskInv, LiveInv, req # None, req.line # IoLine, req.line = OutsideLine \/ ~req.write,
           golden' = golden, NEW p, p = req.port
    PROVE  golden' = AfterPerform(p)
<1>1. Reliable(p, ask[p]) = Expected /\ Written(ask[p]) = Written(req) /\ req \in Served /\ shape \in Shapes
    BY UnderWay DEF Inv, PathTypes
<1>2. DOMAIN Written(req) = {}
    BY <1>1 DEF Written, Served
<1>3. <<IoLine, 0>> \notin Expected
  <2>1. \E ws \in SUBSET Word : Expected = {req.line} \X ws
      BY <1>1, ReliableRun DEF Expected, Served
  <2> QED
      BY <2>1
<1>4. golden = [x \in DOMAIN golden |-> golden[x]]
    BY DEF Inv, StoreTypes
<1> QED
    BY <1>1, <1>2, <1>3, <1>4 DEF AfterPerform

\* The end of a request performs it, with the data of that moment.
LEMMA CompleteStep ==
    ASSUME Inv, PortInv, state \notin {"INIT", "IDLE"}, NEW data \in Data(Word), Complete(data), pipe' = pipe,
           \A x \in Expected : data[x] = golden[x], done = None, memory' = memory,
           golden'[<<IoLine, 0>>] = golden[<<IoLine, 0>>], NEW p, p = req.port, golden' = AfterPerform(p)
    PROVE  PortInv' /\ Memory!Next
<1>1. AskInv /\ LiveInv /\ ReplyInv /\ DeviceInv /\ DataInv /\ MasterInv
    BY DEF PortInv
<1>2. req # None /\ state' = "IDLE" /\ done' = None
    BY DEF Inv, PathTypes, Complete
<1>3. \A x \in Expected : data[x] \in Value
    BY <1>2, ExpectedTypes
<1>4. /\ AskInv' /\ LiveInv' /\ ReplyInv' /\ MasterInv'
      /\ ask' = ask /\ shape' = shape /\ Unanswered
      /\ Answered(p)' /\ \A q \in Port : q # p => ~Answered(q)'
      /\ \A x \in Expected : Shown(p)'[x] = data[x]
    BY <1>1, <1>3, CompletePorts
<1>5. DeviceInv' /\ DataInv'
    BY <1>1, <1>2, DataIdle
<1>6. Memory!Next
  <2>1. \A x \in Expected : Shown(p)'[x] = golden[x]
      BY <1>4
  <2> QED
      BY <1>1, <1>2, <1>4, <2>1, PerformStep
<1> QED
    BY <1>4, <1>5, <1>6 DEF PortInv

\* An access outside the regions ends with no data.
LEMMA OutsideEnds ==
    ASSUME Inv, PortInv, ResultOutside
    PROVE  PortInv' /\ Memory!Next
<1>1. /\ state = "LOOKUP_RESULT" /\ req # None /\ req.line = OutsideLine /\ Complete(<<>>) /\ pipe' = pipe
      /\ memory' = memory /\ golden' = golden /\ done = None
    BY DEF ResultOutside, Inv, PathTypes, PortInv, DeviceInv
<1>2. PICK p : p = req.port
    OBVIOUS
<1>3. golden' = AfterPerform(p)
    BY <1>1, <1>2, ReadPerforms DEF PortInv, IoLine, OutsideLine
<1>4. Expected = {}
    BY <1>1 DEF Expected, Reliable
<1> QED
    BY <1>1, <1>2, <1>3, <1>4, NothingData, CompleteStep

\* A hit ends with the data of its line.
LEMMA HitEnds ==
    ASSUME Inv, PortInv, ResultHit
    PROVE  PortInv' /\ Memory!Next
<1>1. /\ state = "LOOKUP_RESULT" /\ req # None /\ req \in Served /\ req.line \in Ram /\ pipe' = pipe
      /\ memory' = memory /\ done = None /\ Believe /\ StoreTypes /\ shape \in Shapes
      /\ Complete(IF req.write THEN <<>> ELSE HitData) /\ work.hit
    BY DEF ResultHit, CachedResult, Inv, PathTypes, PortInv, DeviceInv
<1>2. PICK p : p = req.port
    OBVIOUS
<1>3. golden' = AfterPerform(p)
    BY <1>1, <1>2, BelievePerforms DEF PortInv
<1>g. shape \in Shapes /\ req.line \in Ram
    BY <1>1
<1>r. Ram \subseteq 0 .. OutsideLine
    BY <1>g, ShapeTypes DEF Ram, IoLine, OutsideLine
<1>4. golden'[<<IoLine, 0>>] = golden[<<IoLine, 0>>]
    BY <1>1, Believed
<1>5. /\ \A w \in Word : Line.words[w] = golden[<<req.line, w>>]
      /\ Line.words \in [Word -> Value]
  <2>1. SetOf(req.line) \in Sets /\ TagOf(req.line) \in Nat
            /\ LineOf(SetOf(req.line), TagOf(req.line)) = req.line
      BY <1>g, LineParts DEF Ram
  <2>2. Holds(SetOf(req.line), work.way, TagOf(req.line)) /\ work.way \in Way
      BY <1>1 DEF Inv, WorkInv, PathTypes
  <2> QED
      BY <1>1, <2>1, <2>2 DEF Line, Holds, Inv, EntryInv, HoldsBelief, StoreTypes, Entry
<1>6. CASE req.write
    BY <1>1, <1>2, <1>3, <1>4, <1>6, ExpectedTypes, NothingData, CompleteStep
<1>7. CASE ~req.write
  <2>1. Offered(req.port, req) /\ req.line # IoLine /\ req.line # OutsideLine
      BY <1>1, UnderWay, ShapeTypes DEF PortInv, Ram, IoLine, OutsideLine
  <2>2. CASE CrossBeatRead
    <3>1. req.wide
        BY <2>2 DEF CrossBeatRead
    <3>2. HitData = [x \in PairPlaces(req) |-> IF x[1] = req.line THEN Line.words[x[2]] ELSE 0]
        BY <2>2 DEF HitData
    <3>3. /\ PairPlaces(req) = {<<req.line, req.word>>, Following(<<req.line, req.word>>)}
          /\ <<req.line, req.word>> \in (0 .. OutsideLine) \X Word
          /\ Following(<<req.line, req.word>>) \in (0 .. OutsideLine) \X Word
      <4>2. req.word \in Word /\ Following(<<req.line, req.word>>)[1] \in Ram
          BY <1>1, <2>1, <3>1 DEF Offered, Served
      <4>3. Following(<<req.line, req.word>>)[2] \in Word
        <5>1. shape.words \in Nat \ {0}
            BY <1>g, ShapeTypes
        <5>2. \A w \in Word : IF w = shape.words - 1 THEN 0 \in Word ELSE w + 1 \in Word
            BY <5>1 DEF Word
        <5>3. Following(<<req.line, req.word>>)[2]
              = IF req.word = shape.words - 1 THEN 0 ELSE req.word + 1
            BY DEF Following
        <5> QED
            BY <4>2, <5>2, <5>3
      <4>4. Following(<<req.line, req.word>>)
            = <<Following(<<req.line, req.word>>)[1], Following(<<req.line, req.word>>)[2]>>
          BY DEF Following
      <4> QED
          BY <1>g, <1>r, <4>2, <4>3, <4>4 DEF PairPlaces
    <3>4. \A x \in PairPlaces(req) : HitData[x] \in Value
      <4>1. 0 \in Value
          BY <1>1, ShapeTypes DEF Value
      <4>2. \A x \in PairPlaces(req) : x[2] \in Word
          BY <3>3
      <4> QED
          BY <1>5, <3>2, <4>1, <4>2
    <3>5. HitData \in Data(Word)
      <4>1. HitData \in [PairPlaces(req) -> Value]
          BY <3>2, <3>4
      <4> QED
          BY <3>3, <4>1, PairData
    <3>6. \A x \in Expected : HitData[x] = golden[x]
      <4>1. Expected \subseteq PairPlaces(req)
          BY <1>7, <2>1, <3>1, <3>3 DEF Expected, Reliable
      <4>2. \A x \in Expected : x = <<req.line, x[2]>> /\ x[2] \in Word
        <5>1. \E ws \in SUBSET Word : Expected = {req.line} \X ws
            BY <1>1, ReliableRun DEF Expected, Served
        <5> QED
            BY <5>1
      <4> QED
          BY <1>5, <3>2, <4>1, <4>2
    <3> QED
        BY <1>1, <1>2, <1>3, <1>4, <1>7, <3>5, <3>6, CompleteStep
  <2>3. CASE ~CrossBeatRead
    <3>1. ~req.wide
        BY <1>7, <2>1, <2>3 DEF Offered, CrossBeatRead
    <3>2. HitData = [x \in BeatPlaces(req) |-> Line.words[x[2]]]
        BY <2>3 DEF HitData
    <3>3. BeatPlaces(req) = {req.line} \X BeatWords(BeatOf(req.word)) /\ BeatWords(BeatOf(req.word)) \in SUBSET Word
        BY DEF BeatPlaces, BeatWords
    <3>4. Expected = BeatPlaces(req)
        BY <1>7, <2>1, <3>1 DEF Expected, Reliable
    <3>5. \A x \in BeatPlaces(req) : x = <<req.line, x[2]>> /\ x[2] \in Word
        BY <3>3
    <3>6. HitData \in Data(Word)
      <4>1. HitData \in [{req.line} \X BeatWords(BeatOf(req.word)) -> Value]
          BY <1>5, <3>2, <3>3, <3>5
      <4>2. req.line \in 0 .. OutsideLine
          BY <1>g, <1>r
      <4> QED
          BY <3>3, <4>1, <4>2, RunData
    <3>7. \A x \in Expected : HitData[x] = golden[x]
        BY <1>5, <3>2, <3>4, <3>5
    <3> QED
        BY <1>1, <1>2, <1>3, <1>4, <1>7, <3>6, <3>7, CompleteStep
  <2> QED
      BY <2>2, <2>3
<1> QED
    BY <1>6, <1>7

\* A refill ends with the beat that was asked for.
LEMMA RefillEnds ==
    ASSUME Inv, PortInv, RefillLast
    PROVE  PortInv' /\ Memory!Next
<1> DEFINE d == [x \in BeatPlaces(req) |-> KeptBeat[x[2]]]
<1>1. /\ state = "AXI_R_WRITE" /\ req # None /\ req \in Served /\ pipe' = pipe /\ memory' = memory /\ done = None
      /\ Believe /\ StoreTypes /\ work.beat = Beats - 1 /\ Complete(IF req.write THEN <<>> ELSE d)
    BY DEF RefillLast, Inv, PathTypes, PortInv, DeviceInv
<1>g. shape \in Shapes /\ req.line \in Ram /\ req.word \in Word
    BY <1>1 DEF Inv, PathTypes, WorkInv, Refilling, Served
<1>r. req.line \in 0 .. OutsideLine /\ req.line # IoLine /\ req.line # OutsideLine
    BY <1>g, ShapeTypes DEF Ram, IoLine, OutsideLine
<1>2. PICK p : p = req.port
    OBVIOUS
<1>3. golden' = AfterPerform(p)
    BY <1>1, <1>2, BelievePerforms DEF PortInv
<1>4. golden'[<<IoLine, 0>>] = golden[<<IoLine, 0>>]
    BY <1>1, <1>g, Believed
<1>5. CASE req.write
    BY <1>1, <1>2, <1>3, <1>4, <1>5, ExpectedTypes, NothingData, CompleteStep
<1>6. CASE ~req.write
  <2>1. ~req.wide
      BY <1>1 DEF PortInv, DataInv, Refilling
  <2>2. BeatPlaces(req) = {req.line} \X BeatWords(BeatOf(req.word)) /\ BeatWords(BeatOf(req.word)) \in SUBSET Word
      BY DEF BeatPlaces, BeatWords
  <2>3. Expected = BeatPlaces(req)
      BY <1>6, <1>r, <2>1 DEF Expected, Reliable
  <2>4. \A w \in BeatWords(BeatOf(req.word)) : KeptBeat[w] = golden[<<req.line, w>>]
    <3>1. CASE BeatOf(req.word) = work.beat
      <4>1. work.refill = [w \in BeatWords(work.beat) |-> golden[<<req.line, w>>]]
          BY <1>1 DEF Inv, WorkInv
      <4> QED
          BY <1>6, <3>1, <4>1 DEF KeptBeat
    <3>2. CASE BeatOf(req.word) # work.beat
      <4>1. BeatOf(req.word) < work.beat
          BY <1>1, <1>g, <3>2, BeatParts
      <4> QED
          BY <1>1, <1>6, <3>2, <4>1 DEF PortInv, DataInv, Refilling, KeptBeat
    <3> QED
        BY <3>1, <3>2
  <2>5. \A x \in BeatPlaces(req) : x = <<req.line, x[2]>> /\ x[2] \in BeatWords(BeatOf(req.word))
      BY <2>2
  <2>6. \A x \in Expected : d[x] = golden[x]
      BY <2>3, <2>4, <2>5
  <2>7. d \in [{req.line} \X BeatWords(BeatOf(req.word)) -> Value]
    <3>1. \A x \in Expected : d[x] \in Value
        BY <1>1, <2>6, ExpectedTypes
    <3> QED
        BY <2>2, <2>3, <3>1
  <2> HIDE DEF d
  <2>8. d \in Data(Word)
      BY <1>r, <2>2, <2>7, RunData
  <2> QED
      BY <1>1, <1>2, <1>3, <1>4, <1>6, <2>6, <2>8, CompleteStep
<1> QED
    BY <1>5, <1>6

\* A load that crosses lines ends with what memory has.
LEMMA CrossEnds ==
    ASSUME Inv, PortInv, CrossDone
    PROVE  PortInv' /\ Memory!Next
<1> DEFINE x0 == <<req.line, req.word>>
           d == [x \in PairPlaces(req) |-> IF x = x0 THEN work.low ELSE work.high]
<1>1. /\ state = "CROSS_DONE" /\ req # None /\ req \in Served /\ pipe' = pipe /\ memory' = memory /\ done = None
      /\ golden' = golden /\ Complete(d)
    BY DEF CrossDone, Inv, PathTypes, PortInv, DeviceInv
<1>2. PICK p : p = req.port
    OBVIOUS
<1>3. /\ ~req.write /\ req.wide /\ work.low \in Value /\ (Expected # {} => work.low = golden[x0])
      /\ work.high \in Value
      /\ Expected # {} /\ ~LineEnd(req.word) => work.high = golden[Following(x0)]
    BY <1>1 DEF PortInv, DataInv, Crossing
<1>g. shape \in Shapes /\ req.word \in Word /\ req.line \in Ram /\ Following(x0)[1] \in Ram
  <2>1. Offered(req.port, req)
      BY <1>1, UnderWay DEF PortInv
  <2> QED
      BY <1>1, <1>3, <2>1 DEF Inv, PathTypes, Served, Offered
<1>r. Ram \subseteq 0 .. OutsideLine /\ req.line # IoLine /\ req.line # OutsideLine
    BY <1>g, ShapeTypes DEF Ram, IoLine, OutsideLine
<1>4. golden' = AfterPerform(p)
    BY <1>1, <1>2, <1>3, <1>r, ReadPerforms DEF PortInv
<1>5. /\ PairPlaces(req) = {x0, Following(x0)}
      /\ x0 \in (0 .. OutsideLine) \X Word
      /\ Following(x0) \in (0 .. OutsideLine) \X Word
  <2>1. Following(x0)[2] \in Word
      BY <1>g, ShapeTypes DEF Following, Word
  <2>2. Following(x0) = <<Following(x0)[1], Following(x0)[2]>>
      BY DEF Following
  <2> QED
      BY <1>g, <1>r, <2>1, <2>2 DEF PairPlaces
<1>6. d \in Data(Word)
  <2>1. d \in [{x0, Following(x0)} -> Value]
      BY <1>3, <1>5
  <2> HIDE DEF d, x0
  <2> QED
      BY <1>5, <2>1, PairData
<1>7. \A x \in Expected : d[x] = golden[x]
  <2>1. CASE LineEnd(req.word)
    <3>1. Expected \subseteq {x0}
        BY <1>3, <1>r, <2>1 DEF Expected, Reliable
    <3> QED
        BY <1>3, <1>5, <3>1
  <2>2. CASE ~LineEnd(req.word)
    <3>1. Expected = PairPlaces(req)
        BY <1>3, <1>r, <2>2 DEF Expected, Reliable
    <3> QED
        BY <1>3, <1>5, <2>2, <3>1
  <2> QED
      BY <2>1, <2>2
<1> HIDE DEF d
<1> QED
    BY <1>1, <1>2, <1>4, <1>6, <1>7, CompleteStep

\* The response of a device carries what its access returned: the ports see nothing new.
LEMMA IoEnds ==
    ASSUME Inv, PortInv, IoAnswered
    PROVE  PortInv' /\ UNCHANGED Memory!vars
<1> DEFINE d == IF req.write THEN <<>> ELSE [x \in {<<IoLine, 0>>} |-> work.refill[0]]
<1>1. /\ state \in {"IO_B", "IO_R_RESULT"} /\ req # None /\ req \in Served /\ pipe' = pipe /\ memory' = memory
      /\ golden' = golden /\ Complete(d) /\ shape \in Shapes
    BY DEF IoAnswered, Inv, PathTypes
<1>2. /\ AskInv /\ LiveInv /\ ReplyInv /\ DeviceInv /\ MasterInv
      /\ done # None /\ done.port = req.port
      /\ state = "IO_B" => req.write
      /\ state = "IO_R_RESULT" => /\ ~req.write /\ done.data[<<IoLine, 0>>] = work.refill[0]
                                  /\ work.refill[0] \in Value
    BY <1>1 DEF PortInv, DeviceInv
<1>3. PICK p : p = req.port
    OBVIOUS
<1>4. req.line = IoLine /\ IoLine # OutsideLine
    BY <1>1 DEF Inv, WorkInv, Uncached, IoLine, OutsideLine
<1>5. /\ req.write => Expected = {}
      /\ ~req.write => Expected = {<<IoLine, 0>>}
    BY <1>4 DEF Expected, Reliable
<1>6. \A x \in Expected : d[x] = done.data[x] /\ d[x] \in Value
    BY <1>1, <1>2, <1>5
<1>7. d \in Data(Word)
  <2>1. CASE req.write
      BY <2>1, NothingData
  <2>2. CASE ~req.write
    <3>1. {<<IoLine, 0>>} = {IoLine} \X {0}
        OBVIOUS
    <3>2. d \in [{IoLine} \X {0} -> Value]
        BY <1>1, <1>2, <2>2, <3>1
    <3> HIDE DEF d
    <3>3. IoLine \in 0 .. OutsideLine /\ {0} \in SUBSET Word
        BY <1>1, ShapeTypes DEF IoLine, OutsideLine, Word
    <3> QED
        BY <3>2, <3>3, RunData
  <2> QED
      BY <2>1, <2>2
<1>8. state' = "IDLE" /\ done' = None
    BY <1>1 DEF Complete
<1> HIDE DEF d
<1>9. PICK e : e = d
    OBVIOUS
<1>10. /\ AskInv' /\ LiveInv' /\ ReplyInv' /\ MasterInv'
       /\ ask' = ask /\ shape' = shape /\ Unanswered
       /\ Answered(p)' /\ \A q \in Port : q # p => ~Answered(q)'
       /\ \A x \in Expected : Shown(p)'[x] = e[x]
    BY <1>1, <1>2, <1>3, <1>6, <1>7, <1>9, CompletePorts
<1>11. DeviceInv' /\ DataInv'
    BY <1>1, <1>2, <1>8, DataIdle
<1>12. /\ p \in Port /\ ask[p] # None /\ Reliable(p, ask[p]) = Expected
    BY <1>1, <1>2, <1>3, UnderWay
<1>13. \A q \in Port : Reliable(q, ask[q])' = Reliable(q, ask[q]) /\ Written(ask[q])' = Written(ask[q])
    BY <1>10, ShapeStays DEF Reliable, BeatPlaces, PairPlaces, LineEnd, BeatWords, BeatOf, Following, Word, Written
<1>14. \A q \in Port : Demand(q)' = Demand(q)
    BY <1>10, <1>13 DEF Demand
<1>15. \A q \in Port : ~Answered(q)
    BY <1>2, <1>10, AnsweredOnce
<1>16. Answer(p) = [x \in Expected |-> done.data[x]]
    BY <1>12, <1>15 DEF Answer
<1>17. Answer(p)' = [x \in Expected |-> done.data[x]]
  <2>1. Answer(p)' = [x \in Expected |-> Shown(p)'[x]]
      BY <1>10, <1>12, <1>13 DEF Answer
  <2>2. \A x \in Expected : Shown(p)'[x] = done.data[x]
      BY <1>6, <1>9, <1>10
  <2> QED
      BY <2>1, <2>2
<1>18. Pend'[p] = Pend[p]
  <2>1. Pend[p] = [request |-> Demand(p), answer |-> Answer(p)]
      BY <1>2, <1>3, <1>12, <1>15 DEF Pend
  <2>2. Pend'[p] = [request |-> Demand(p)', answer |-> Answer(p)']
      BY <1>10, <1>12 DEF Pend
  <2> QED
      BY <1>12, <1>14, <1>16, <1>17, <2>1, <2>2
<1>19. \A q \in Port : q # p => Pend'[q] = Pend[q]
  <2> TAKE q \in Port
  <2> HAVE q # p
  <2>1. Pend[q] = IF ask[q] = None THEN None ELSE [request |-> Demand(q), answer |-> None]
      BY <1>2, <1>3, <1>15 DEF Pend
  <2>2. Pend'[q] = IF ask[q] = None THEN None ELSE [request |-> Demand(q), answer |-> None]
      BY <1>8, <1>10, <1>14 DEF Pend
  <2> QED
      BY <2>1, <2>2
<1>20. Pend' = Pend
  <2>1. Pend = [q \in Port |-> Pend[q]] /\ Pend' = [q \in Port |-> Pend'[q]]
      BY DEF Pend
  <2> HIDE DEF Pend
  <2> QED
      BY <1>18, <1>19, <2>1
<1> QED
    BY <1>1, <1>10, <1>11, <1>20 DEF PortInv, Memory!vars

-----------------------------------------------------------------------------
(* The cache implements one memory. *)

\* Steps that answer nothing and perform nothing.
LEMMA StutterStep ==
    ASSUME Inv, PortInv, ~Free, Edge(None), DeviceInv', DataInv', done' = done, golden' = golden,
           \/ pipe' = pipe /\ req' = req
           \/ pipe' = None /\ req = None /\ req' = pipe
    PROVE  PortInv' /\ UNCHANGED Memory!vars
<1>1. /\ AskInv' /\ LiveInv' /\ ReplyInv' /\ MasterInv'
      /\ ask' = ask /\ shape' = shape /\ Unanswered /\ Unanswered'
    BY QuietPorts DEF PortInv
<1>2. UNCHANGED Memory!vars
    BY <1>1, PendQuiet DEF PortInv
<1> QED
    BY <1>1, <1>2 DEF PortInv

\* A device is accessed before its response is shown.
LEMMA DevicePerforms ==
    ASSUME Inv, PortInv, IoWrite \/ IoRead
    PROVE  PortInv' /\ Memory!Next
<1>1. /\ state \in {"IO_W", "IO_R"} /\ Edge(None) /\ pipe' = pipe /\ req' = req /\ Believe /\ ~Free
      /\ done'.port = req.port /\ done = None /\ req # None /\ state' \in {"IO_B", "IO_R_RESULT"}
    BY DEF IoWrite, IoRead, pathVars, Free, PortInv, DeviceInv, Inv, PathTypes
<1>2. /\ AskInv' /\ LiveInv' /\ ReplyInv' /\ MasterInv'
      /\ ask' = ask /\ shape' = shape /\ Unanswered /\ Unanswered'
    BY <1>1, QuietPorts DEF PortInv
<1>3. DeviceInv' /\ DataInv'
    BY <1>2, IoData DEF PortInv
<1>4. done' # None
    BY <1>1, <1>3 DEF DeviceInv
<1>5. \A x \in Expected : done'.data[x] = golden[x]
  <2>1. CASE IoWrite
    <3>1. req.write
        BY <2>1 DEF IoWrite, PortInv, DeviceInv
    <3> QED
        BY <1>1, <3>1, ExpectedTypes
  <2>2. CASE IoRead
    <3>1. ~req.write /\ req.line = IoLine /\ IoLine # OutsideLine
        BY <2>2 DEF IoRead, PortInv, DeviceInv, Inv, WorkInv, Uncached, IoLine, OutsideLine
    <3>2. Expected = {<<IoLine, 0>>}
        BY <3>1 DEF Expected, Reliable
    <3>3. done'.data[<<IoLine, 0>>] = memory[<<IoLine, 0>>]
        BY <2>2 DEF IoRead
    <3> QED
        BY <3>2, <3>3 DEF PortInv, DeviceInv
  <2> QED
      BY <1>1, <2>1, <2>2
<1>6. PICK p : p = req.port
    OBVIOUS
<1>7. golden' = AfterPerform(p)
    BY <1>1, <1>6, BelievePerforms DEF PortInv
<1>8. \A q \in Port : ~Answered(q)'
    BY <1>2, AnsweredOnce DEF Unanswered, Answered, Completes
<1>9. p \in Port
    BY <1>1, <1>6 DEF Inv, PathTypes, Served
<1>10. Memory!Next
    BY <1>1, <1>2, <1>4, <1>5, <1>6, <1>7, <1>8, <1>9, PerformStep DEF PortInv
<1> QED
    BY <1>2, <1>3, <1>10 DEF PortInv

\* Every step of the cache is a step of the memory, or one that the memory does not see.
LEMMA RefinementStep ==
    ASSUME Inv, PortInv, [Next]_vars
    PROVE  PortInv' /\ [Memory!Next]_(Memory!vars)
<1>1. /\ AskInv /\ LiveInv /\ ReplyInv /\ DeviceInv /\ DataInv /\ MasterInv
      /\ PathTypes /\ AskTypes
    BY DEF PortInv, Inv
<1>2. CASE InitSet
  <2>1. /\ state = "INIT" /\ Edge(None) /\ pipe' = pipe /\ req' = req /\ done' = done /\ golden' = golden
        /\ memory' = memory /\ ~Free /\ done = None /\ state' \in {"INIT", "IDLE"}
      BY <1>1, <1>2 DEF InitSet, pathVars, ghostVars, Free, DeviceInv
  <2>2. DeviceInv' /\ DataInv'
      BY <1>1, <2>1, DataIdle
  <2> QED
      BY <2>1, <2>2, StutterStep
<1>3. CASE Arbitrate
  <2>1. /\ AskInv' /\ LiveInv' /\ ReplyInv' /\ MasterInv' /\ Unanswered' /\ shape' = shape
      BY <1>1, <1>3, ArbitratePorts
  <2>2. /\ state = "IDLE" /\ state' = "IDLE" /\ done' = done /\ done = None /\ golden' = golden /\ memory' = memory
      BY <1>1, <1>3 DEF Arbitrate, Free, ghostVars, DeviceInv
  <2>3. DeviceInv' /\ DataInv'
      BY <1>1, <2>2, DataIdle
  <2>4. Memory!Next \/ UNCHANGED Memory!vars
      BY <1>1, <1>3, <2>1, <2>2, RespondStep
  <2> QED
      BY <2>1, <2>3, <2>4 DEF PortInv
<1>4. CASE Accept
  <2>1. /\ state = "IDLE" /\ pipe # None /\ Edge(None) /\ done' = done /\ golden' = golden /\ pipe' = None
        /\ ~Free /\ req = None /\ shape' = shape
      BY <1>1, <1>4, EdgeTypes DEF Accept, ghostVars, Free, PathTypes
  <2>2. ~Completes(response, pipe.port, pipe)
      BY <1>1, <2>1 DEF ReplyInv, Unanswered, Completes
  <2>3. req' = pipe
      BY <1>4, <2>2 DEF Accept
  <2>4. DeviceInv' /\ DataInv'
      BY <1>1, <1>4, <2>1, AcceptData
  <2> QED
      BY <2>1, <2>3, <2>4, StutterStep
<1>5. CASE Capture \/ Lookup
  <2>1. /\ state \in {"LOOKUP_CAPTURE", "LOOKUP"} /\ state' \in {"LOOKUP", "LOOKUP_RESULT"} /\ Edge(None)
        /\ pipe' = pipe /\ req' = req /\ done' = done /\ golden' = golden /\ memory' = memory /\ ~Free
        /\ done = None
      BY <1>1, <1>5 DEF Capture, Lookup, pathVars, ghostVars, Free, DeviceInv
  <2>2. DeviceInv' /\ DataInv'
      BY <1>1, <2>1, DataIdle
  <2> QED
      BY <2>1, <2>2, StutterStep
<1>6. CASE ResultOutside \/ ResultHit \/ RefillLast \/ CrossDone
    BY <1>6, OutsideEnds, HitEnds, RefillEnds, CrossEnds
<1>7. CASE IoAnswered
    BY <1>7, IoEnds
<1>8. CASE IoWrite \/ IoRead
    BY <1>8, DevicePerforms
<1>9. CASE \/ ResultUncached \/ ResultMiss \/ EvictAddress \/ EvictWrite \/ EvictAnswered
           \/ RefillAddress \/ RefillData \/ RefillBeat \/ CrossAddress \/ CrossLow \/ CrossHigh \/ IoAddress
  <2>1. state # "IDLE" /\ Edge(None) /\ pipe' = pipe /\ req' = req /\ done' = done /\ golden' = golden
      BY <1>9 DEF ResultUncached, ResultMiss, CachedResult, EvictAddress, AddressPhase, EvictWrite, EvictAnswered,
        RefillAddress, RefillData, RefillBeat, CrossAddress, CrossLow, CrossHigh, IoAddress, pathVars, ghostVars
  <2>2. shape' = shape /\ ~Free
      BY <1>1, <2>1, EdgeTypes DEF Free
  <2>3. DeviceInv' /\ DataInv'
      BY <1>1, <1>9, <2>2, IoData, MissData, EvictData, RefillKeeps, CrossData
  <2> QED
      BY <2>1, <2>2, <2>3, StutterStep
<1>10. CASE Stall
  <2>1. /\ state # "IDLE" /\ Edge(None) /\ pipe' = pipe /\ req' = req /\ done' = done /\ golden' = golden
        /\ UNCHANGED <<state, work, ram, memory>>
      BY <1>10 DEF Stall, BusStates, pathVars, ramVars, ghostVars
  <2>2. shape' = shape /\ ~Free
      BY <1>1, <2>1, EdgeTypes DEF Free
  <2>3. DeviceInv' /\ DataInv'
      BY <1>1, <2>1, <2>2, DataFrozen
  <2> QED
      BY <2>1, <2>2, <2>3, StutterStep
<1>11. CASE Agents
  <2>1. AskInv' /\ LiveInv' /\ ReplyInv' /\ MasterInv'
      BY <1>1, <1>11, AgentPorts
  <2>2. UNCHANGED <<shape, state, req, work, ram, memory, golden, done>>
      BY <1>11 DEF Agents, AskCpu, AskMaster, SendData, pathVars, ramVars, ghostVars
  <2>3. DeviceInv' /\ DataInv'
      BY <1>1, <2>2, DataFrozen
  <2>4. Memory!Next \/ UNCHANGED Memory!vars
      BY <1>1, <1>11, <2>1, AskStep
  <2> QED
      BY <2>1, <2>3, <2>4 DEF PortInv
<1>12. CASE UNCHANGED vars
  <2>1. UNCHANGED <<shape, ask, axi, slave, response, state, pipe, req, rr, victim, work, ram, initSet, memory,
                    golden, done>>
      BY <1>12 DEF vars, busVars, pathVars, ramVars, ghostVars
  <2>2. DeviceInv' /\ DataInv'
      BY <1>1, <2>1, DataFrozen
  <2>3. \A p \in Port : /\ Reliable(p, ask[p])' = Reliable(p, ask[p]) /\ Written(ask[p])' = Written(ask[p])
                        /\ Answered(p)' = Answered(p) /\ Shown(p)' = Shown(p)
      BY <2>1, ShapeStays DEF Reliable, BeatPlaces, PairPlaces, LineEnd, BeatWords, BeatOf, Following, Word, Written,
        Answered, Completes, Address, Shown
  <2>4. Pend' = Pend
    <3>1. \A p \in Port : Demand(p)' = Demand(p) /\ Answer(p)' = Answer(p)
        BY <2>1, <2>3 DEF Demand, Answer
    <3> QED
        BY <2>1, <2>3, <3>1 DEF Pend
  <2>5. AskInv'
      BY <1>1, <2>1, AskKept
  <2>6. LiveInv' /\ MasterInv'
      BY <1>1, <2>1 DEF LiveInv, AsRequest, MasterInv, Captured, Novel, Address
  <2>7. ReplyInv'
      BY <1>1, <2>1, <2>3 DEF ReplyInv, Unanswered, Completes, Address
  <2> QED
      BY <2>1, <2>2, <2>4, <2>5, <2>6, <2>7 DEF PortInv, Memory!vars
<1> QED
    BY <1>2, <1>3, <1>4, <1>5, <1>6, <1>7, <1>8, <1>9, <1>10, <1>11, <1>12 DEF Next, Machine

\* At reset no port asks, and the memory holds what the agents believe in.
LEMMA RefinementInit ==
    ASSUME Init
    PROVE  PortInv /\ Memory!Init
<1>1. /\ ask = [p \in Port |-> None] /\ response = None /\ state = "INIT" /\ pipe = None /\ req = None
      /\ axi = [aw |-> None, w |-> None, late |-> None, ar |-> None]
      /\ slave = [aw |-> None, awSeen |-> None, arSeen |-> None, awNovel |-> FALSE, arNovel |-> FALSE,
                  b |-> FALSE, r |-> None]
      /\ golden = memory /\ done = None
    BY DEF Init
<1>2. \A p \in Port : ~Answered(p)
    BY <1>1 DEF Answered
<1>3. AskInv /\ LiveInv /\ DeviceInv /\ DataInv
    BY <1>1 DEF AskInv, LiveInv, DeviceInv, DataInv, Evicting, Refilling, Crossing
<1>4. ReplyInv
    BY <1>1, <1>2 DEF ReplyInv, Unanswered
<1>5. MasterInv
    BY <1>1 DEF MasterInv, Slave, Port
<1>6. Memory!Init
    BY <1>1 DEF Memory!Init, Pend
<1> QED
    BY <1>3, <1>4, <1>5, <1>6 DEF PortInv

\* The cache implements one memory for any geometry and any number of cores: every request is
\* performed once, at one moment between its question and its answer, a device is read and written
\* once for it, and a master that holds its valid after the handshake is not served again.
THEOREM ImplementsSharedMemory == Spec => MemorySpec
<1>1. Init => PortInv /\ Memory!Init
    BY RefinementInit
<1>2. Inv /\ PortInv /\ [Next]_vars => PortInv' /\ [Memory!Next]_(Memory!vars)
    BY RefinementStep
<1> QED
    BY <1>1, <1>2, InvariantHolds, PTL DEF Spec, MemorySpec, Memory!Spec
=============================================================================
