------------------------- MODULE L1CoherenceProofs --------------------------
(***************************************************************************)
(* Proofs about the L1 cache of one core for any geometry, any number of    *)
(* peers and epochs, and any order of stores and announcements.             *)
(***************************************************************************)
EXTENDS L1Coherence, SequenceTheorems, WellFoundedInduction, TLAPS

\* A request in the controller is the load that the core holds.
RequestInv ==
    /\ req # None =>
         /\ ask # None /\ ask.op # "store"
         /\ req = [word |-> ask.word, cacheable |-> ask.op = "load"]
    /\ response # None => response.word = req.word

\* Before the index of the walk every tag is clear.
WalkInv ==
    state = "init" => selected = None /\ \A s \in Set, w \in Way : s < initSet => ram[s][w] = None

\* A store that a copy may still miss, since the core is yet to be told of it.
Due(x) ==
    \/ x \in dma
    \/ \E p \in Peer : peer[p] # None /\ peer[p].word = x
    \/ ask # None /\ ask.op = "store" /\ ask.word = x

\* The core loads nothing on the edge that makes it drop the copies of a word.
Dropping(x) == ask = None /\ \E p \in Announced : peer[p].word = x

\* A version that a load may return.
Good(x, v) ==
    /\ v <= mem[x] /\ (v = mem[x] \/ Due(x))
    /\ floor[x] <= v \/ Dropping(x)
GoodLine(l, words) == \A i \in DOMAIN words : Good(WordAt(l, i), words[i])

\* The mailbox holds the store of the core, the beat of its refill, or what is left
\* of a request that was withdrawn.
PortInv ==
    port # None =>
      /\ port.op = "store" => ask # None /\ ask.op = "store" /\ ask.word = port.word
      /\ port.op = "load" /\ ~port.orphan =>
           /\ ask # None /\ ask.op # "store" /\ state \in {"refill", "idle", "init"}
           /\ state = "refill" =>
                /\ port.word = Driven.word
                /\ port.answer # None => Good(port.word, port.answer)
      /\ port.answer # None => port.answer <= mem[port.word]

\* Nothing that is remembered is ahead of memory.
HistoryInv ==
    /\ \A p \in Peer : peer[p] # None => peer[p].version <= mem[peer[p].word]
    /\ \A x \in Word : floor[x] <= mem[x]

\* Outside a walk the tags are of the present generation, none ahead of its set.
Settling == ~wrapping /\ state # "init"
EpochInv ==
    Settling => \A s \in Set, w \in Way : ram[s][w] # None =>
      /\ ram[s][w].epoch = tagEpoch /\ ram[s][w].setEpoch <= setEpoch[s]
      /\ SetOf(ram[s][w].line) = s

\* The live copies of a line are good and the same.
CopyInv ==
    Settling =>
      /\ \A s \in Set, w \in Way : Live(s, w) =>
           /\ GoodLine(ram[s][w].line, ram[s][w].words)
           /\ \A v \in Way : Live(s, v) /\ ram[s][v].line = ram[s][w].line => v = w
           /\ selected # None /\ selected.line = ram[s][w].line => selected.words = ram[s][w].words
      /\ selected # None => GoodLine(selected.line, selected.words)

\* What the present request has collected: the set of its line, the line it hit, the
\* beats of its refill, or its answer.
Ours == LineOf(req.word)
Elsewhere == selected = None \/ selected.line # Ours
OursIn(w) == Live(SetOf(Ours), w) /\ ram[SetOf(Ours)][w].line = Ours
HeldCopy ==
    /\ req.cacheable /\ GoodLine(Ours, held)
    /\ \A w \in Way : OursIn(w) => ram[SetOf(Ours)][w].words = held

HeldInv ==
    ~wrapping =>
      /\ state \in {"lookup", "compare"} => held = ram[SetOf(Ours)]
      /\ state \in {"lookup", "compare", "select", "refill"} /\ req.cacheable => Elsewhere
      /\ state = "select" /\ held # None => HeldCopy
      /\ state = "assemble" => HeldCopy /\ (Elsewhere \/ selected.words = held)
      /\ state \in {"select", "refill"} /\ (state = "select" => held = None) /\ req.cacheable =>
            \A w \in Way : ~OursIn(w)
      /\ state = "refill" => GoodLine(Ours, held) /\ (~req.cacheable => held = <<>>)
      /\ state = "done" =>
            /\ Good(req.word, response.version)
            /\ req.cacheable => \A v \in Copies(req.word) : v = response.version

Inv ==
    /\ TypeOK /\ RequestInv /\ WalkInv /\ PortInv /\ HistoryInv
    /\ EpochInv /\ CopyInv /\ HeldInv

-----------------------------------------------------------------------------
(* Geometry, sequences and maxima. *)

\* A quotient and a remainder give their number, and a number gives them.
LEMMA Division ==
    ASSUME NEW n \in Nat \ {0}, NEW x \in Nat
    PROVE  /\ x \div n \in Nat /\ x % n \in 0 .. n - 1
           /\ x = (x \div n) * n + (x % n)
    BY SMTT(30)

\* The quotient and the remainder are unique.
LEMMA DivisionUnique ==
    ASSUME NEW n \in Nat \ {0}, NEW q \in Nat, NEW r \in 0 .. n - 1
    PROVE  (q * n + r) \div n = q /\ (q * n + r) % n = r
<1> DEFINE x == q * n + r
<1>1. q * n \in Nat /\ x \in Nat
    OBVIOUS
<1> DEFINE p == x \div n
           s == x % n
<1>2. p \in Nat /\ s \in 0 .. n - 1 /\ x = p * n + s
    BY <1>1, Division
<1> HIDE DEF p, s
<1>3. p = q
  <2>1. CASE p < q
    <3>1. p + 1 <= q /\ q - (p + 1) \in Nat
        BY <1>2, <2>1
    <3>2. q * n = p * n + n + (q - (p + 1)) * n /\ (q - (p + 1)) * n \in Nat
        BY <1>2, <3>1
    <3>3. p * n \in Nat
        BY <1>2
    <3> QED
        BY <1>1, <1>2, <3>2, <3>3
  <2>2. CASE q < p
    <3>1. q + 1 <= p /\ p - (q + 1) \in Nat
        BY <1>2, <2>2
    <3>2. p * n = q * n + n + (p - (q + 1)) * n /\ (p - (q + 1)) * n \in Nat
        BY <1>2, <3>1
    <3> QED
        BY <1>1, <1>2, <3>2
  <2> QED
      BY <1>2, <2>1, <2>2
<1>4. s = r
    BY <1>1, <1>2, <1>3
<1> QED
    BY <1>3, <1>4 DEF p, s

\* A word is a line and a place in it.
LEMMA Geometry ==
    /\ \A x \in Word : /\ LineOf(x) \in Line /\ Place(x) \in 1 .. Beats
                       /\ WordAt(LineOf(x), Place(x)) = x
    /\ \A l \in Line, i \in 1 .. Beats : /\ WordAt(l, i) \in Word
                                         /\ LineOf(WordAt(l, i)) = l /\ Place(WordAt(l, i)) = i
    /\ \A l \in Line : SetOf(l) \in Set
<1>0. Beats \in Nat \ {0} /\ Lines \in Nat \ {0} /\ Sets \in Nat \ {0} /\ Lines * Beats \in Nat
    BY CacheAssumption
<1>1. ASSUME NEW x \in Word
      PROVE  LineOf(x) \in Line /\ Place(x) \in 1 .. Beats /\ WordAt(LineOf(x), Place(x)) = x
  <2> DEFINE q == x \div Beats
             r == x % Beats
  <2>1. x \in Nat /\ x < Lines * Beats
      BY <1>0 DEF Word
  <2>2. q \in Nat /\ r \in 0 .. Beats - 1 /\ x = q * Beats + r
      BY <1>0, <2>1, Division
  <2>3. LineOf(x) = q /\ Place(x) = r + 1
      BY DEF LineOf, Place
  <2> HIDE DEF q, r
  <2>4. q < Lines
    <3>1. SUFFICES ASSUME Lines <= q PROVE FALSE
        BY <1>0, <2>2
    <3>2. q * Beats = Lines * Beats + (q - Lines) * Beats /\ (q - Lines) * Beats \in Nat
        BY <1>0, <2>2, <3>1
    <3> QED
        BY <1>0, <2>1, <2>2, <3>2
  <2>5. WordAt(q, r + 1) = x
      BY <1>0, <2>2 DEF WordAt
  <2> QED
      BY <1>0, <2>2, <2>3, <2>4, <2>5 DEF Line
<1>2. ASSUME NEW l \in Line, NEW i \in 1 .. Beats
      PROVE  /\ WordAt(l, i) \in Word
             /\ LineOf(WordAt(l, i)) = l /\ Place(WordAt(l, i)) = i
  <2>1. l \in Nat /\ l + 1 <= Lines /\ i - 1 \in 0 .. Beats - 1
      BY <1>0 DEF Line
  <2>2. WordAt(l, i) = l * Beats + (i - 1) /\ l * Beats \in Nat
      BY <1>0, <2>1 DEF WordAt
  <2>3. (l * Beats + (i - 1)) \div Beats = l /\ (l * Beats + (i - 1)) % Beats = i - 1
      BY <1>0, <2>1, DivisionUnique
  <2>4. Lines * Beats = l * Beats + Beats + (Lines - (l + 1)) * Beats /\ (Lines - (l + 1)) * Beats \in Nat
      BY <1>0, <2>1
  <2>5. WordAt(l, i) \in Word
      BY <1>0, <2>1, <2>2, <2>4 DEF Word
  <2>6. LineOf(WordAt(l, i)) = l /\ Place(WordAt(l, i)) = i
      BY <2>1, <2>2, <2>3 DEF LineOf, Place
  <2> QED
      BY <2>5, <2>6
<1>3. ASSUME NEW l \in Line PROVE SetOf(l) \in Set
    BY <1>0, Division DEF SetOf, Set, Line
<1> QED
    BY <1>1, <1>2, <1>3

\* A nonempty set of bounded naturals has a maximum.
LEMMA MaxIs ==
    ASSUME NEW n \in Nat, NEW S \in SUBSET (0 .. n), S # {}
    PROVE  Max(S) \in S /\ \A y \in S : y <= Max(S)
<1> DEFINE R == OpToRel(<, Nat)
           T == {n - x : x \in S}
<1>1. T \in SUBSET Nat /\ T # {}
  <2>1. PICK x \in S : x \in 0 .. n
      OBVIOUS
  <2>2. n - x \in T
      OBVIOUS
  <2>3. \A y \in T : y \in Nat
      OBVIOUS
  <2> QED
      BY <2>2, <2>3
<1>2. IsWellFoundedOn(R, Nat)
    BY NatLessThanWellFounded
<1>3. \A x, y \in Nat : x < y => <<x, y>> \in R
    BY DEF OpToRel
<1> HIDE DEF R
<1>4. PICK m \in T : \A y \in T : ~(<<y, m>> \in R)
    BY <1>1, <1>2, WFMin, Zenon
<1>5. \A y \in T : ~(y < m)
    BY <1>1, <1>3, <1>4
<1>6. PICK x \in S : m = n - x
    BY <1>4
<1>7. \A y \in S : n - y \in T
    OBVIOUS
<1>8. \A y \in S : x >= y
    BY <1>5, <1>6, <1>7
<1> DEFINE P(z) == z \in S /\ \A y \in S : z >= y
<1>9. \E z : P(z)
    BY <1>8
<1>10. Max(S) = CHOOSE z : P(z)
    BY DEF Max
<1>11. P(Max(S))
    BY <1>9, <1>10, Zenon
<1> QED
    BY <1>11

\* A beat is added at the end.
LEMMA AppendIs ==
    ASSUME NEW n \in Nat, NEW s \in [1 .. n -> Version], NEW e \in Version
    PROVE  /\ Len(s) = n /\ DOMAIN Append(s, e) = 1 .. n + 1
           /\ Append(s, e) \in [1 .. n + 1 -> Version]
           /\ Append(s, e)[n + 1] = e /\ \A i \in 1 .. n : Append(s, e)[i] = s[i]
<1>1. s \in Seq(Version) /\ Len(s) = n
    OBVIOUS
<1>2. Append(s, e) \in Seq(Version) /\ Len(Append(s, e)) = n + 1
    BY <1>1
<1>3. Append(s, e) \in [1 .. n + 1 -> Version] /\ DOMAIN Append(s, e) = 1 .. n + 1
    BY <1>2, LenProperties
<1>4. Append(s, e)[n + 1] = e /\ \A i \in 1 .. n : Append(s, e)[i] = s[i]
    BY <1>1
<1> QED
    BY <1>1, <1>3, <1>4

-----------------------------------------------------------------------------
(* Types. *)

\* A refill has collected less than a line.
LEMMA Collected ==
    ASSUME TypeOK, state = "refill"
    PROVE  Len(held) \in 0 .. Beats - 1 /\ held \in [1 .. Len(held) -> Version]
<1>1. held \in UNION {[1 .. n -> Version] : n \in 0 .. Beats - 1}
    BY DEF TypeOK, HeldType
<1>2. PICK n \in 0 .. Beats - 1 : held \in [1 .. n -> Version]
    BY <1>1
<1>3. Beats \in Nat \ {0}
    BY CacheAssumption
<1>4. held \in Seq(Version) /\ Len(held) = n
    BY <1>2, <1>3
<1> QED
    BY <1>2, <1>4

\* What the registers show is of its type.
LEMMA Shown ==
    ASSUME TypeOK, RequestInv
    PROVE  /\ req # None => req \in Current /\ Ours \in Line /\ SetOf(Ours) \in Set /\ ~Writing
           /\ Driven # None => Driven.op \in {"load", "store"} /\ Driven.word \in Word
           /\ state = "refill" =>
                /\ Driven # None /\ Driven.op = "load"
                /\ Driven.word = IF req.cacheable THEN WordAt(Ours, Len(held) + 1) ELSE req.word
           /\ Writing =>
                /\ Driven # None /\ Driven.op = "store" /\ Driven.word = ask.word
                /\ ask \in Request /\ ask.word \in Shared /\ state = "idle"
           /\ ~Writing /\ state # "refill" => Driven = None
           /\ Taken => port \in Transfer /\ port.answer \in Version
           /\ Loaded => ask \in Request /\ LoadedVersion \in Version
           /\ SelectedHit => ask \in Request
<1>1. ASSUME req # None
      PROVE  req \in Current /\ Ours \in Line /\ SetOf(Ours) \in Set /\ ~Writing
    BY <1>1, Geometry DEF TypeOK, Current, RequestInv, Writing, Ours
<1>2. ASSUME Writing
      PROVE  /\ Driven = [op |-> "store", word |-> ask.word] /\ Driven # None
             /\ ask \in Request /\ ask.word \in Shared /\ ask.word \in Word /\ state = "idle"
  <2>1. ask \in Request /\ ask.op = "store"
      BY <1>2 DEF TypeOK, Writing
  <2>2. ask.word \in Shared /\ ask.word \in Word
      BY <2>1, CacheAssumption DEF Request, Word
  <2>3. state = "idle"
      BY <1>2, <1>1 DEF TypeOK, Writing, Busy
  <2>4. Driven = [op |-> "store", word |-> ask.word]
      BY <1>2, <2>3 DEF Driven
  <2> QED
      BY <2>1, <2>2, <2>3, <2>4, NoneAssumption
<1>3. ASSUME state = "refill"
      PROVE  /\ Driven = [op |-> "load", word |-> IF req.cacheable THEN WordAt(Ours, Len(held) + 1)
                                                                ELSE req.word]
             /\ Driven # None /\ Driven.word \in Word
  <2>1. req # None
      BY <1>3 DEF TypeOK
  <2>2. Len(held) + 1 \in 1 .. Beats
      BY <1>3, Collected, CacheAssumption
  <2>3. WordAt(Ours, Len(held) + 1) \in Word /\ req.word \in Word
      BY <1>1, <2>1, <2>2, Geometry DEF Current
  <2>4. ~Writing
      BY <1>1, <2>1
  <2>5. Driven = [op |-> "load", word |-> IF req.cacheable THEN WordAt(Ours, Len(held) + 1)
                                                             ELSE req.word]
      BY <1>3, <2>4 DEF Driven, Ours
  <2> QED
      BY <2>3, <2>5, NoneAssumption
<1>4. ~Writing /\ state # "refill" => Driven = None
    BY DEF Driven
<1>5. Taken => port \in Transfer /\ port.answer \in Version
    BY DEF Taken, TypeOK, Transfer
<1>6. ASSUME Loaded PROVE ask \in Request /\ LoadedVersion \in Version
  <2>1. ask \in Request
      BY <1>6 DEF Loaded, TypeOK
  <2>2. CASE response # None
    <3>1. response \in Reply
        BY <2>2 DEF TypeOK
    <3> QED
        BY <2>1, <2>2, <3>1 DEF LoadedVersion, Reply
  <2>3. CASE response = None
    <3>1. selected \in Copy /\ ask.op # "store"
        BY <1>6, <2>3 DEF Loaded, SelectedHit, TypeOK
    <3>2. Place(ask.word) \in 1 .. Beats
        BY <2>1, <3>1, Geometry DEF Request
    <3> QED
        BY <2>1, <2>3, <3>1, <3>2 DEF LoadedVersion, Copy, Words
  <2> QED
      BY <2>1, <2>2, <2>3
<1>7. SelectedHit => ask \in Request
    BY DEF SelectedHit, Reading, TypeOK
<1> QED
    BY <1>1, <1>2, <1>3, <1>4, <1>5, <1>6, <1>7

\* A last beat completes a line.
LEMMA Completes ==
    ASSUME TypeOK, RequestInv, LastBeat
    PROVE  /\ Append(held, port.answer) \in Words /\ Installed \in Entry
           /\ Append(held, port.answer)[Beats] = port.answer
           /\ \A i \in 1 .. Beats - 1 : Append(held, port.answer)[i] = held[i]
           /\ Len(held) = Beats - 1
<1>1. Len(held) = Beats - 1 /\ held \in [1 .. Beats - 1 -> Version] /\ port.answer \in Version
    BY Collected, Shown DEF LastBeat
<1>2. Beats - 1 \in Nat /\ Beats - 1 + 1 = Beats
    BY CacheAssumption
<1>3. /\ Append(held, port.answer) \in Words
      /\ Append(held, port.answer)[Beats] = port.answer
      /\ \A i \in 1 .. Beats - 1 : Append(held, port.answer)[i] = held[i]
  <2>1. LET m == Beats - 1 IN
          /\ Append(held, port.answer) \in [1 .. m + 1 -> Version]
          /\ Append(held, port.answer)[m + 1] = port.answer
          /\ \A i \in 1 .. m : Append(held, port.answer)[i] = held[i]
    <3> DEFINE m == Beats - 1
    <3>1. m \in Nat /\ held \in [1 .. m -> Version] /\ port.answer \in Version
        BY <1>1, <1>2
    <3> HIDE DEF m
    <3>2. /\ Append(held, port.answer) \in [1 .. m + 1 -> Version]
          /\ Append(held, port.answer)[m + 1] = port.answer
          /\ \A i \in 1 .. m : Append(held, port.answer)[i] = held[i]
        BY <3>1, AppendIs
    <3> QED
        BY <3>2 DEF m
  <2> QED
      BY <1>2, <2>1 DEF Words
<1>4. Ours \in Line /\ SetOf(Ours) \in Set
    BY Shown DEF LastBeat, TypeOK
<1>5. Installed \in Entry
    BY <1>3, <1>4 DEF Installed, Entry, TypeOK, Ours
<1> QED
    BY <1>1, <1>3, <1>5

\* What the edge of the controller leaves in selected_line_reg.
LEMMA SelectedIs ==
    ASSUME NEW next, NEW invalidate, Selecting(next, invalidate)
    PROVE  selected' \in {next, None}
    BY DEF Selecting

\* It is kept or cleared, unless a line has been found or completed.
LEMMA SelectedStep ==
    ASSUME TypeOK, RequestInv, NEW external \in BOOLEAN, Control(external)
    PROVE  /\ \/ selected' \in {selected, None}
              \/ SelectHit /\ selected' = [line |-> Ours, words |-> held]
              \/ RefillLast /\ selected' = [line |-> Ours, words |-> Append(held, port.answer)]
           /\ selected' \in Copy \cup {None}
<1>1. \/ selected' \in {selected, None}
      \/ SelectHit /\ selected' = [line |-> Ours, words |-> held]
      \/ RefillLast /\ selected' = [line |-> Ours, words |-> Append(held, port.answer)]
  <2>1. CASE SelectHit
      BY <2>1, SelectedIs DEF SelectHit, Ours
  <2>2. CASE RefillLast
      BY <2>2, SelectedIs DEF RefillLast, Ours
  <2>3. CASE ClearAfterWrap(external) \/ Abort(external) \/ ClearAll(external)
      BY <2>3, SelectedIs DEF ClearAfterWrap, Abort, ClearAll
  <2>4. CASE InitSet \/ Idle \/ Accept \/ Lookup \/ Compare \/ SelectMiss
      BY <2>4, SelectedIs DEF InitSet, Idle, Accept, Lookup, Compare, SelectMiss, Stay
  <2>5. CASE Assemble \/ RefillWait \/ RefillBeat \/ RefillDirect \/ Retire
      BY <2>5, SelectedIs DEF Assemble, RefillWait, RefillBeat, RefillDirect, Retire, Stay
  <2> QED
      BY <2>1, <2>2, <2>3, <2>4, <2>5 DEF Control
<1>2. selected \in Copy \cup {None}
    BY DEF TypeOK
<1>3. ASSUME SelectHit PROVE [line |-> Ours, words |-> held] \in Copy
  <2>1. held \in Words /\ req # None
      BY <1>3 DEF SelectHit, TypeOK, HeldType
  <2> QED
      BY <2>1, Shown DEF Copy
<1>4. ASSUME RefillLast PROVE [line |-> Ours, words |-> Append(held, port.answer)] \in Copy
  <2>1. Append(held, port.answer) \in Words /\ req # None
      BY <1>4, Completes DEF RefillLast, LastBeat, TypeOK
  <2> QED
      BY <2>1, Shown DEF Copy
<1> QED
    BY <1>1, <1>2, <1>3, <1>4

\* The chain of states keeps the types of its registers.
LEMMA ControlTypes ==
    ASSUME TypeOK, RequestInv, NEW external \in BOOLEAN, Control(external)
    PROVE  /\ state' \in State /\ req' \in Current \cup {None}
           /\ (state' \in {"init", "idle"} <=> req' = None)
           /\ held' \in HeldType'
           /\ response' \in Reply \cup {None} /\ (response' # None <=> state' = "done")
           /\ victim' \in Way /\ initSet' \in Set /\ wrapping' \in BOOLEAN
<1> DEFINE Requests == state' \in State /\ req' \in Current \cup {None}
                       /\ (state' \in {"init", "idle"} <=> req' = None)
           Replies == response' \in Reply \cup {None} /\ (response' # None <=> state' = "done")
           Indexes == victim' \in Way /\ initSet' \in Set
           Types == Requests /\ held' \in HeldType' /\ Replies /\ Indexes
<1>a. wrapping' \in BOOLEAN
    BY DEF Control, ClearAfterWrap, Abort, ClearAll, Calm, Overflow
<1> SUFFICES Types
    BY <1>a
<1>0. /\ state \in State /\ req \in Current \cup {None} /\ (state \in {"init", "idle"} <=> req = None)
      /\ held \in HeldType /\ response \in Reply \cup {None} /\ (response # None <=> state = "done")
      /\ victim \in Way /\ initSet \in Set
    BY DEF TypeOK
<1>00. Sets \in Nat \ {0} /\ Ways \in Nat \ {0} /\ Beats \in Nat \ {0} /\ 0 \in Set
    BY CacheAssumption DEF Set
<1>1. ASSUME Walk PROVE Types
    BY <1>0, <1>00, <1>1 DEF Walk, State, HeldType
<1>2. CASE ClearAfterWrap(external) \/ ClearAll(external)
    BY <1>1, <1>2 DEF ClearAfterWrap, ClearAll
<1>3. CASE Abort(external)
    BY <1>0, <1>3 DEF Abort, State, HeldType
<1>5. CASE InitSet
  <2>1. Requests /\ Replies /\ held' \in HeldType'
      BY <1>0, <1>5 DEF InitSet, State, HeldType
  <2>2. Indexes
      BY <1>0, <1>00, <1>5 DEF InitSet, Set
  <2> QED
      BY <2>1, <2>2
<1>6. CASE Idle
    BY <1>0, <1>6 DEF Idle, Stay, HeldType
<1>7. CASE Accept
  <2>1. ask \in Request /\ ask.word \in Word
      BY <1>7, CacheAssumption DEF Accept, Reading, TypeOK, Request, Word
  <2>2. req' \in Current
      BY <1>7, <2>1 DEF Accept, Current
  <2>3. SetOf(LineOf(ask.word)) \in Set
      BY <2>1, Geometry
  <2>4. held' \in [Way -> Entry \cup {None}]
      BY <1>7, <2>3 DEF Accept, TypeOK
  <2>5. held' \in HeldType'
      BY <1>7, <2>4 DEF Accept, HeldType
  <2>6. Requests
      BY <1>7, <2>2, NoneAssumption DEF Accept, State
  <2>7. Replies /\ Indexes
      BY <1>0, <1>7 DEF Accept
  <2> QED
      BY <2>5, <2>6, <2>7
<1>8. CASE Lookup
  <2>1. Requests /\ Replies /\ Indexes
      BY <1>0, <1>8 DEF Lookup, Stay, State
  <2>2. held' \in HeldType'
      BY <1>0, <1>8 DEF Lookup, HeldType
  <2> QED
      BY <2>1, <2>2
<1>9. CASE Compare
  <2>1. state = "compare" /\ state' = "select" /\ held \in [Way -> Entry \cup {None}]
      BY <1>0, <1>9 DEF Compare, HeldType
  <2> DEFINE hits == {w \in Way : Matching(w)}
  <2>2. held' = IF hits = {} THEN None ELSE held[Max(hits)].words
      BY <1>9 DEF Compare
  <2>3. held' \in Words \cup {None}
    <3>1. CASE hits # {}
      <4>1. Ways - 1 \in Nat /\ hits \in SUBSET (0 .. Ways - 1)
          BY <1>00 DEF Way
      <4>2. Max(hits) \in hits
          BY <3>1, <4>1, MaxIs
      <4>3. held[Max(hits)] \in Entry
          BY <2>1, <4>2 DEF Matching
      <4> QED
          BY <2>2, <3>1, <4>3 DEF Entry
    <3> QED
        BY <2>2, <3>1
  <2>4. held' \in HeldType'
      BY <2>1, <2>3 DEF HeldType
  <2>5. Requests /\ Replies /\ Indexes
      BY <1>0, <1>9 DEF Compare, Stay, State
  <2> QED
      BY <2>4, <2>5
<1>10. CASE SelectHit
  <2>1. held' \in HeldType'
      BY <1>0, <1>10 DEF SelectHit, HeldType
  <2>2. Requests /\ Replies /\ Indexes
      BY <1>0, <1>10 DEF SelectHit, State
  <2> QED
      BY <2>1, <2>2
<1>11. CASE SelectMiss
  <2>1. held' \in [1 .. 0 -> Version] /\ 0 \in 0 .. Beats - 1
      BY <1>00, <1>11 DEF SelectMiss
  <2>2. held' \in HeldType'
      BY <1>11, <2>1 DEF SelectMiss, HeldType
  <2>3. Requests /\ Replies /\ Indexes
      BY <1>0, <1>11 DEF SelectMiss, Stay, State
  <2> QED
      BY <2>2, <2>3
<1>12. CASE Assemble
  <2>1. held \in Words /\ req \in Current
      BY <1>0, <1>12 DEF Assemble, HeldType
  <2>2. Place(req.word) \in 1 .. Beats /\ req.word \in Word
      BY <2>1, Geometry DEF Current
  <2>3. held[Place(req.word)] \in Version
      BY <2>1, <2>2 DEF Words
  <2>4. response' \in Reply
      BY <1>12, <2>2, <2>3 DEF Assemble, Reply
  <2>5. Replies
      BY <1>12, <2>4, NoneAssumption DEF Assemble
  <2>6. Requests /\ Indexes /\ held' \in HeldType'
      BY <1>0, <1>12 DEF Assemble, State, HeldType
  <2> QED
      BY <2>5, <2>6
<1>13. CASE RefillWait
  <2>1. Requests /\ Replies /\ Indexes
      BY <1>0, <1>13 DEF RefillWait, Stay
  <2>2. held' \in HeldType'
      BY <1>0, <1>13 DEF RefillWait, HeldType
  <2> QED
      BY <2>1, <2>2
<1>14. CASE RefillBeat
  <2>1. port.answer \in Version /\ Len(held) \in 0 .. Beats - 2 /\ held \in [1 .. Len(held) -> Version]
      BY <1>00, <1>14, Shown, Collected DEF RefillBeat, LastBeat
  <2>2. Append(held, port.answer) \in [1 .. Len(held) + 1 -> Version]
      BY <2>1, AppendIs
  <2>3. held' \in [1 .. Len(held) + 1 -> Version] /\ Len(held) + 1 \in 0 .. Beats - 1
      BY <1>00, <1>14, <2>1, <2>2 DEF RefillBeat
  <2>4. held' \in UNION {[1 .. n -> Version] : n \in 0 .. Beats - 1}
      BY <2>3
  <2>5. held' \in HeldType'
      BY <1>14, <2>4 DEF RefillBeat, HeldType
  <2>6. Requests /\ Replies /\ Indexes
      BY <1>0, <1>14 DEF RefillBeat, Stay
  <2> QED
      BY <2>5, <2>6
<1>15. CASE RefillLast
  <2> DEFINE line == Append(held, port.answer)
  <2>1. line \in Words /\ req \in Current
      BY <1>0, <1>15, Completes DEF RefillLast, LastBeat
  <2> HIDE DEF line
  <2>2. Place(req.word) \in 1 .. Beats /\ req.word \in Word
      BY <2>1, Geometry DEF Current
  <2>3. line[Place(req.word)] \in Version
      BY <2>1, <2>2 DEF Words
  <2>4. response' = [word |-> req.word, version |-> line[Place(req.word)]]
      BY <1>15 DEF RefillLast, line
  <2>5. response' \in Reply
      BY <2>2, <2>3, <2>4 DEF Reply
  <2>6. Replies
      BY <1>15, <2>5, NoneAssumption DEF RefillLast
  <2>7. Requests /\ held' \in HeldType'
      BY <1>0, <1>15 DEF RefillLast, LastBeat, State, HeldType
  <2>8. Indexes
      BY <1>0, <1>00, <1>15, Division DEF RefillLast, Way
  <2> QED
      BY <2>6, <2>7, <2>8
<1>16. CASE RefillDirect
  <2>1. req \in Current /\ port.answer \in Version
      BY <1>0, <1>16, Shown DEF RefillDirect
  <2>2. response' \in Reply
      BY <1>16, <2>1 DEF RefillDirect, Reply, Current
  <2>3. Replies
      BY <1>16, <2>2, NoneAssumption DEF RefillDirect
  <2>4. Requests /\ Indexes /\ held' \in HeldType'
      BY <1>0, <1>16 DEF RefillDirect, State, HeldType
  <2> QED
      BY <2>3, <2>4
<1>17. CASE Retire
    BY <1>0, <1>17 DEF Retire, State, HeldType
<1> QED
    BY <1>2, <1>3, <1>5, <1>6, <1>7, <1>8, <1>9, <1>10, <1>11, <1>12, <1>13, <1>14, <1>15,
       <1>16, <1>17 DEF Control

-----------------------------------------------------------------------------
(* What an edge does around the chain of states. *)

\* The core keeps its request until it is answered.
LEMMA CoreStep ==
    ASSUME TypeOK, NEW own \in BOOLEAN, CoreEdge(own)
    PROVE  /\ ask' \in Request \cup {None} /\ performed' \in 0 .. 2
           /\ ask # None => ask' = IF Loaded \/ Stored THEN None ELSE ask
<1>1. ask \in Request \cup {None} /\ performed \in 0 .. 2
    BY DEF TypeOK
<1>2. performed' \in 0 .. 2
    BY <1>1 DEF CoreEdge
<1>3. CASE ask = None
    BY <1>1, <1>2, <1>3 DEF CoreEdge
<1>4. CASE ask # None
    BY <1>1, <1>2, <1>4 DEF CoreEdge
<1> QED
    BY <1>3, <1>4

\* The mailbox takes what is driven, performs it and shows its answer for a cycle.
LEMMA PortStep ==
    ASSUME TypeOK, RequestInv, NEW own \in BOOLEAN, NEW answers \in SUBSET Version,
           PortEdge(own, IF ~own THEN {None} ELSE answers), own => port # None /\ port.answer = None
    PROVE  /\ port' \in Transfer \cup {None}
           /\ port = None => port' = IF Driven = None THEN None
                                     ELSE [op |-> Driven.op, word |-> Driven.word,
                                           orphan |-> FALSE, answer |-> None]
           /\ port # None /\ port.answer # None => port' = None
           /\ port # None /\ port.answer = None =>
                /\ port' \in Transfer /\ port'.op = port.op /\ port'.word = port.word
                /\ port'.orphan = (port.orphan \/ Driven = None)
                /\ own => port'.answer \in answers
                /\ ~own => port'.answer = None
<1>1. port \in Transfer \cup {None}
    BY DEF TypeOK
<1>2. CASE port = None
  <2>1. port' = IF Driven = None THEN None
                ELSE [op |-> Driven.op, word |-> Driven.word, orphan |-> FALSE, answer |-> None]
      BY <1>2 DEF PortEdge
  <2>2. port' \in Transfer \cup {None}
      BY <2>1, Shown DEF Transfer
  <2> QED
      BY <1>2, <2>1, <2>2
<1>3. CASE port # None /\ port.answer # None
    BY <1>3 DEF PortEdge
<1>4. CASE port # None /\ port.answer = None
  <2>1. port \in Transfer
      BY <1>1, <1>4
  <2>2. PICK a \in (IF ~own THEN {None} ELSE answers) :
          port' = [port EXCEPT !.orphan = @ \/ Driven = None, !.answer = IF own THEN a ELSE None]
      BY <1>4 DEF PortEdge
  <2> DEFINE b == IF own THEN a ELSE None
             o == port.orphan \/ Driven = None
  <2>3. b \in Version \cup {None} /\ o \in BOOLEAN /\ (own => b \in answers) /\ (~own => b = None)
      BY <2>2
  <2>4. port' = [port EXCEPT !.orphan = o, !.answer = b]
      BY <2>2
  <2> HIDE DEF b
  <2>5. port' \in Transfer /\ port'.op = port.op /\ port'.word = port.word /\ port'.answer = b
        /\ port'.orphan = o
      BY <2>1, <2>3, <2>4 DEF Transfer
  <2> QED
      BY <1>4, <2>3, <2>5
<1> QED
    BY <1>2, <1>3, <1>4

\* Memory moves forward, and each store leaves a trace until the core is told of it.
LEMMA MemoryStep ==
    ASSUME TypeOK, RequestInv, NEW external \in BOOLEAN, NEW own \in BOOLEAN,
           MemoryEdge(external, own), own => port # None /\ port.answer = None
    PROVE  /\ mem' \in [Word -> Version] /\ \A x \in Word : mem[x] <= mem'[x]
           /\ peer' \in [Peer -> PeerStore \cup {None}] /\ dma' \subseteq Shared
           /\ ~external => dma \subseteq dma'
           /\ \A x \in Word : mem'[x] # mem[x] =>
                \/ x \in dma'
                \/ \E p \in Peer : peer'[p] # None /\ peer'[p].word = x
                \/ own /\ port.op = "store" /\ port.word = x
           /\ \A p \in Peer : peer[p] # None /\ p \notin Announced =>
                /\ peer'[p] # None /\ peer'[p].word = peer[p].word
                /\ peer[p].at = "answered" => peer'[p].at = "announced"
           /\ \A p \in Peer : peer'[p] # None =>
                \/ peer'[p].version = mem'[peer'[p].word]
                \/ /\ peer[p] # None /\ peer'[p].word = peer[p].word
                   /\ peer'[p].version = peer[p].version
           /\ \E answers \in SUBSET Version :
                /\ PortEdge(own, IF ~own THEN {None} ELSE answers)
                /\ own => answers = IF port.op = "store" THEN {mem'[port.word]}
                                    ELSE {mem[port.word], mem'[port.word]}
<1> DEFINE ownStore == IF own /\ port.op = "store" THEN {port.word} ELSE {}
           Performed(stores, words) ==
             /\ \A p \in Peer : stores[p] # None => Storing(p, stores[p]) /\ stores[p] \in words
             /\ mem' = Advance(mem, words \cup ownStore)
             /\ \E withdrawn \in SUBSET {p \in Peer : stores[p] # None /\ peer[p] = None} :
                  PeerEdge(stores, withdrawn)
<1>1. \/ \E stores \in [Peer -> Shared \cup {None}] :
           /\ Performed(stores, {stores[p] : p \in Peer} \ {None})
           /\ dma' = IF external THEN {} ELSE dma
      \/ \E w \in Shared :
           /\ ~external /\ ~own
           /\ Performed([p \in Peer |-> None], {w})
           /\ dma' = dma \cup {w}
  <2>1. CASE \E stores \in [Peer -> Shared \cup {None}] :
               LET words == {stores[p] : p \in Peer} \ {None} IN
               /\ \A p \in Peer : stores[p] # None => Storing(p, stores[p])
               /\ mem' = Advance(mem, words \cup ownStore)
               /\ \E withdrawn \in SUBSET {p \in Peer : stores[p] # None /\ peer[p] = None} :
                    PeerEdge(stores, withdrawn)
               /\ dma' = IF external THEN {} ELSE dma
      BY <2>1
  <2>2. CASE \E w \in Shared :
               /\ ~external /\ ~own /\ mem[w] < MaxVersion
               /\ mem' = Advance(mem, {w})
               /\ PeerEdge([p \in Peer |-> None], {})
               /\ dma' = dma \cup {w}
    <3>1. PICK w \in Shared : /\ ~external /\ ~own
                              /\ mem' = Advance(mem, {w})
                              /\ PeerEdge([p \in Peer |-> None], {})
                              /\ dma' = dma \cup {w}
        BY <2>2
    <3>2. {w} \cup ownStore = {w}
        BY <3>1
    <3>3. Performed([p \in Peer |-> None], {w})
        BY <3>1, <3>2
    <3> QED
        BY <3>1, <3>3
  <2> QED
      BY <2>1, <2>2 DEF MemoryEdge
<1>2. PICK stores \in [Peer -> Shared \cup {None}], words \in SUBSET Shared :
          /\ Performed(stores, words)
          /\ dma' \subseteq Shared /\ (~external => dma \subseteq dma')
          /\ \A x \in words : x \in dma' \/ \E p \in Peer : stores[p] = x
  <2>1. CASE \E stores \in [Peer -> Shared \cup {None}] :
               /\ Performed(stores, {stores[p] : p \in Peer} \ {None})
               /\ dma' = IF external THEN {} ELSE dma
    <3>1. PICK stores \in [Peer -> Shared \cup {None}] :
               /\ Performed(stores, {stores[p] : p \in Peer} \ {None})
               /\ dma' = IF external THEN {} ELSE dma
        BY <2>1
    <3> DEFINE words == {stores[p] : p \in Peer} \ {None}
    <3>2. words \in SUBSET Shared /\ \A x \in words : \E p \in Peer : stores[p] = x
        OBVIOUS
    <3>3. dma' \subseteq Shared /\ (~external => dma \subseteq dma')
        BY <3>1 DEF TypeOK
    <3> HIDE DEF words, Performed
    <3>4. Performed(stores, words)
        BY <3>1 DEF words
    <3> QED
        BY <3>2, <3>3, <3>4
  <2>2. CASE \E w \in Shared :
               /\ ~external /\ ~own
               /\ Performed([p \in Peer |-> None], {w})
               /\ dma' = dma \cup {w}
    <3>1. PICK w \in Shared : /\ ~external /\ ~own
                              /\ Performed([p \in Peer |-> None], {w})
                              /\ dma' = dma \cup {w}
        BY <2>2
    <3>2. dma' \subseteq Shared /\ dma \subseteq dma' /\ w \in dma'
        BY <3>1 DEF TypeOK
    <3>3. [p \in Peer |-> None] \in [Peer -> Shared \cup {None}] /\ {w} \in SUBSET Shared
        OBVIOUS
    <3> HIDE DEF Performed
    <3> QED
        BY <3>1, <3>2, <3>3
  <2> QED
      BY <1>1, <2>1, <2>2
<1>3. mem \in [Word -> Version] /\ peer \in [Peer -> PeerStore \cup {None}] /\ Shared \subseteq Word
      /\ MaxVersion \in Nat
    BY CacheAssumption DEF TypeOK, Word
<1>4. /\ mem' \in [Word -> Version] /\ \A x \in Word : mem[x] <= mem'[x]
      /\ \A x \in Word : mem'[x] # mem[x] => x \in words \cup ownStore
  <2> HIDE DEF ownStore
  <2>1. mem' = Advance(mem, words \cup ownStore)
      BY <1>2
  <2>2. \A x \in Word : mem'[x] = IF x \in words \cup ownStore /\ mem[x] < MaxVersion
                                   THEN mem[x] + 1 ELSE mem[x]
      BY <2>1 DEF Advance
  <2>3. \A x \in Word : mem[x] \in Version
      BY <1>3
  <2>4. \A x \in Word : mem'[x] \in Version /\ mem[x] <= mem'[x]
      BY <1>3, <2>2, <2>3 DEF Version
  <2>5. mem' \in [Word -> Version]
      BY <2>1, <2>4 DEF Advance
  <2> QED
      BY <2>2, <2>4, <2>5
<1>5. PICK withdrawn \in SUBSET {p \in Peer : stores[p] # None /\ peer[p] = None} :
          PeerEdge(stores, withdrawn)
    BY <1>2
<1>6. ASSUME NEW p \in Peer, stores[p] # None
      PROVE  /\ stores[p] \in Shared
             /\ peer[p] # None => peer[p].at = "withdrawn" /\ peer[p].word = stores[p]
             /\ peer'[p] \in PeerStore /\ peer'[p] # None
             /\ peer'[p].word = stores[p] /\ peer'[p].version = mem'[stores[p]]
             /\ peer'[p].at \in {"withdrawn", "answered"}
  <2>1. stores[p] \in Shared /\ mem'[stores[p]] \in Version
      BY <1>3, <1>4, <1>6
  <2>4. peer[p] # None => peer[p].at = "withdrawn" /\ peer[p].word = stores[p]
      BY <1>2, <1>6 DEF Storing
  <2>2. peer'[p] = [word |-> stores[p], version |-> mem'[stores[p]],
                    at |-> IF p \in withdrawn THEN "withdrawn" ELSE "answered"]
    <3>1. ~(peer[p] # None /\ peer[p].at = "answered") /\ p \notin Announced
        BY <2>4 DEF Announced
    <3> QED
        BY <1>5, <1>6, <3>1 DEF PeerEdge
  <2>3. peer'[p] \in PeerStore
      BY <2>1, <2>2 DEF PeerStore
  <2> QED
      BY <2>1, <2>2, <2>3, <2>4, NoneAssumption
<1>7. ASSUME NEW p \in Peer, stores[p] = None
      PROVE  /\ peer'[p] \in PeerStore \cup {None}
             /\ peer[p] # None /\ p \notin Announced => peer'[p] # None
             /\ peer'[p] # None =>
                  /\ peer[p] # None /\ peer'[p].word = peer[p].word
                  /\ peer'[p].version = peer[p].version
                  /\ peer[p].at = "answered" => peer'[p].at = "announced"
  <2>1. peer[p] \in PeerStore \cup {None}
      BY <1>3
  <2>2. CASE peer[p] # None /\ peer[p].at = "answered"
    <3>1. p \notin Announced
        BY <2>2 DEF Announced
    <3>2. peer'[p] = [peer[p] EXCEPT !.at = "announced"]
        BY <1>5, <1>7, <2>2, <3>1 DEF PeerEdge
    <3>3. peer'[p] \in PeerStore
        BY <2>1, <2>2, <3>2 DEF PeerStore
    <3> QED
        BY <2>1, <2>2, <3>2, <3>3, NoneAssumption DEF PeerStore
  <2>3. CASE p \in Announced
      BY <1>5, <1>7, <2>3 DEF PeerEdge, Announced
  <2>4. CASE ~(peer[p] # None /\ peer[p].at = "answered") /\ p \notin Announced
      BY <1>5, <1>7, <2>1, <2>4 DEF PeerEdge
  <2> QED
      BY <2>2, <2>3, <2>4
<1>8. peer' \in [Peer -> PeerStore \cup {None}]
  <2>1. \A p \in Peer : peer'[p] \in PeerStore \cup {None}
      BY <1>6, <1>7
  <2> QED
      BY <1>5, <2>1 DEF PeerEdge
<1>9. \A x \in Word : mem'[x] # mem[x] =>
        \/ x \in dma'
        \/ \E p \in Peer : peer'[p] # None /\ peer'[p].word = x
        \/ own /\ port.op = "store" /\ port.word = x
  <2> SUFFICES ASSUME NEW x \in words, x \notin dma'
               PROVE  \E p \in Peer : peer'[p] # None /\ peer'[p].word = x
      BY <1>4
  <2>1. PICK p \in Peer : stores[p] = x
      BY <1>2
  <2>2. stores[p] # None
      BY <2>1, NoneAssumption
  <2> QED
      BY <1>6, <2>1, <2>2
<1>10. \A p \in Peer : peer[p] # None /\ p \notin Announced =>
         /\ peer'[p] # None /\ peer'[p].word = peer[p].word
         /\ peer[p].at = "answered" => peer'[p].at = "announced"
    BY <1>6, <1>7
<1>11. \A p \in Peer : peer'[p] # None =>
         \/ peer'[p].version = mem'[peer'[p].word]
         \/ /\ peer[p] # None /\ peer'[p].word = peer[p].word
            /\ peer'[p].version = peer[p].version
    BY <1>6, <1>7
<1>12. \E answers \in SUBSET Version :
         /\ PortEdge(own, IF ~own THEN {None} ELSE answers)
         /\ own => answers = IF port.op = "store" THEN {mem'[port.word]}
                             ELSE {mem[port.word], mem'[port.word]}
  <2> DEFINE own_ == IF port.op = "store" THEN {mem'[port.word]} ELSE {mem[port.word], mem'[port.word]}
  <2>1. PortEdge(own, IF ~own THEN {None} ELSE own_)
    <3>1. PortEdge(own, IF ~own THEN {None}
                        ELSE IF port.op = "store" THEN {mem'[port.word]}
                        ELSE {mem[port.word], mem'[port.word]})
        BY DEF MemoryEdge
    <3> QED
        BY <3>1
  <2>2. CASE own
    <3>1. port \in Transfer
        BY <2>2 DEF TypeOK
    <3>2. own_ \in SUBSET Version
        BY <1>3, <1>4, <3>1 DEF Transfer
    <3> QED
        BY <2>1, <3>2
  <2>3. CASE ~own
    <3>1. {} \in SUBSET Version /\ (IF ~own THEN {None} ELSE own_) = (IF ~own THEN {None} ELSE {})
        BY <2>3
    <3> QED
        BY <2>1, <2>3, <3>1
  <2> QED
      BY <2>2, <2>3
<1> QED
    BY <1>2, <1>4, <1>8, <1>9, <1>10, <1>11, <1>12

\* The tags: cleared by the walk and by a store, written by a last beat.
LEMMA RamStep ==
    ASSUME TypeOK, RequestInv, TagEdge
    PROVE  /\ ram' \in [Set -> [Way -> Entry \cup {None}]]
           /\ \A s \in Set, w \in Way :
                \/ ram'[s][w] \in {None, ram[s][w]}
                \/ LastBeat /\ s = SetOf(Ours) /\ w = victim /\ ram'[s][w] = Installed
           /\ state = "init" => \A w \in Way : ram'[initSet][w] = None
           /\ Writing => \A w \in Way : ram'[SetOf(LineOf(ask.word))][w] = None
           /\ LastBeat => SetOf(Ours) \in Set /\ ram'[SetOf(Ours)][victim] = Installed
           /\ state # "init" /\ ~Writing /\ ~LastBeat => ram' = ram
<1> DEFINE cleared == CASE state = "init" -> {initSet}
                        [] Writing -> {SetOf(LineOf(ask.word))}
                        [] OTHER -> {}
<1>1. ram' = [s \in Set |-> [w \in Way |->
                IF s \in cleared THEN None
                ELSE IF LastBeat /\ s = SetOf(LineOf(req.word)) /\ w = victim
                THEN Installed
                ELSE ram[s][w]]]
    BY DEF TagEdge
<1>2. /\ state = "init" => cleared = {initSet} /\ initSet \in Set
      /\ Writing => cleared = {SetOf(LineOf(ask.word))} /\ SetOf(LineOf(ask.word)) \in Set
      /\ state # "init" /\ ~Writing => cleared = {}
  <2>1. Writing => state = "idle"
      BY Shown
  <2>2. Writing => ask.word \in Word
      BY Shown, CacheAssumption DEF Word
  <2> QED
      BY <2>1, <2>2, Geometry DEF TypeOK
<1> HIDE DEF cleared
<1>3. ram \in [Set -> [Way -> Entry \cup {None}]]
    BY DEF TypeOK
<1>4. ASSUME LastBeat
      PROVE  Installed \in Entry /\ SetOf(Ours) \in Set /\ victim \in Way /\ cleared = {}
  <2>1. req # None /\ state = "refill"
      BY <1>4 DEF LastBeat, TypeOK
  <2> QED
      BY <1>2, <1>4, <2>1, Completes, Shown DEF TypeOK
<1>5. \A s \in Set, w \in Way :
        ram'[s][w] = IF s \in cleared THEN None
                     ELSE IF LastBeat /\ s = SetOf(Ours) /\ w = victim THEN Installed
                     ELSE ram[s][w]
    BY <1>1 DEF Ours
<1>6. ram' \in [Set -> [Way -> Entry \cup {None}]]
  <2>1. \A s \in Set, w \in Way : ram'[s][w] \in Entry \cup {None}
      BY <1>3, <1>4, <1>5
  <2> QED
      BY <1>1, <2>1
<1>7. ASSUME state # "init", ~Writing, ~LastBeat PROVE ram' = ram
  <2>1. \A s \in Set, w \in Way : ram'[s][w] = ram[s][w]
      BY <1>2, <1>5, <1>7
  <2>2. \A s \in Set : ram'[s] = ram[s]
      BY <1>3, <1>6, <2>1
  <2> QED
      BY <1>3, <1>6, <2>2
<1> QED
    BY <1>2, <1>4, <1>5, <1>6, <1>7

\* A snooped set has a new epoch, and the tags a new generation at the wrap.
LEMMA SnoopStep ==
    ASSUME TypeOK, Snoop
    PROVE  /\ setEpoch' \in [Set -> Epoch] /\ tagEpoch' \in BOOLEAN
           /\ ~Overflow => tagEpoch' = tagEpoch
           /\ \A s \in Set : ~SnoopedSet(s) => setEpoch'[s] = setEpoch[s]
           /\ \A s \in Set : SnoopedSet(s) /\ ~Overflow => setEpoch'[s] = setEpoch[s] + 1
<1>1. Epochs \in Nat \ {0} /\ setEpoch \in [Set -> Epoch] /\ tagEpoch \in BOOLEAN
    BY CacheAssumption DEF TypeOK
<1>2. \A s \in Set : setEpoch'[s] = IF SnoopedSet(s) THEN (setEpoch[s] + 1) % Epochs ELSE setEpoch[s]
    BY DEF Snoop
<1>3. ASSUME NEW s \in Set
      PROVE  setEpoch'[s] \in Epoch /\ (SnoopedSet(s) /\ ~Overflow => setEpoch'[s] = setEpoch[s] + 1)
  <2>1. setEpoch[s] \in 0 .. Epochs - 1
      BY <1>1 DEF Epoch
  <2>2. (setEpoch[s] + 1) % Epochs \in 0 .. Epochs - 1
      BY <1>1, <2>1, Division
  <2>3. SnoopedSet(s) /\ ~Overflow => setEpoch[s] # Epochs - 1
      BY DEF Overflow
  <2>4. setEpoch[s] # Epochs - 1 => (setEpoch[s] + 1) % Epochs = setEpoch[s] + 1
      BY <1>1, <2>1, SMTT(30)
  <2> QED
      BY <1>2, <2>1, <2>2, <2>3, <2>4 DEF Epoch
<1>4. setEpoch' \in [Set -> Epoch]
    BY <1>3 DEF Snoop
<1>5. tagEpoch' \in BOOLEAN /\ (~Overflow => tagEpoch' = tagEpoch)
  <2>1. tagEpoch' = (tagEpoch # Overflow)
      BY DEF Snoop
  <2>2. tagEpoch' \in BOOLEAN
      BY <2>1, Zenon
  <2>3. ASSUME ~Overflow PROVE tagEpoch' = tagEpoch
    <3>1. Overflow = FALSE
        BY <2>3, Zenon DEF Overflow
    <3>2. tagEpoch' = (tagEpoch # FALSE)
        BY <2>1, <3>1, Zenon
    <3>3. tagEpoch = TRUE \/ tagEpoch = FALSE
        BY <1>1, Zenon
    <3>4. CASE tagEpoch = TRUE
        BY <3>2, <3>4, Zenon
    <3>5. CASE tagEpoch = FALSE
        BY <3>2, <3>5, Zenon
    <3> QED
        BY <3>3, <3>4, <3>5, Zenon
  <2> QED
      BY <2>2, <2>3
<1> QED
    BY <1>2, <1>3, <1>4, <1>5

\* The oldest version that may be returned is raised by what the core is told, stores or loads.
LEMMA FloorStep ==
    ASSUME TypeOK, RequestInv, NEW external \in BOOLEAN, FloorEdge(external)
    PROVE  /\ floor' \in [Word -> Version]
           /\ \A x \in Word :
                \/ floor'[x] = floor[x]
                \/ \E p \in Announced : peer[p].word = x /\ floor'[x] = peer[p].version
                \/ external /\ x \in dma /\ floor'[x] = mem[x]
                \/ Stored /\ x = ask.word /\ floor'[x] = port.answer
                \/ Loaded /\ x = ask.word /\ Settled(x) /\ floor'[x] = LoadedVersion
<1> DEFINE all(x) ==
      {floor[x]} \cup {peer[p].version : p \in {q \in Announced : peer[q].word = x}}
        \cup (IF external /\ x \in dma THEN {mem[x]} ELSE {})
        \cup (IF Stored /\ x = ask.word THEN {port.answer} ELSE {})
        \cup (IF Loaded /\ x = ask.word /\ Settled(x) THEN {LoadedVersion} ELSE {})
<1>1. floor' = [x \in Word |-> Max(all(x))]
    BY DEF FloorEdge
<1>2. ASSUME NEW x \in Word PROVE Max(all(x)) \in all(x) /\ Max(all(x)) \in Version
  <2>1. floor[x] \in Version /\ mem[x] \in Version
      BY DEF TypeOK
  <2>2. \A p \in Announced : peer[p].version \in Version
      BY DEF Announced, TypeOK, PeerStore
  <2>3. (Stored => port.answer \in Version) /\ (Loaded => LoadedVersion \in Version)
      BY Shown DEF Stored
  <2>4. all(x) \in SUBSET Version
      BY <2>1, <2>2, <2>3
  <2>5. all(x) # {}
      OBVIOUS
  <2> HIDE DEF all
  <2>6. MaxVersion \in Nat /\ Version = 0 .. MaxVersion
      BY CacheAssumption DEF Version
  <2>7. Max(all(x)) \in all(x)
      BY <2>4, <2>5, <2>6, MaxIs
  <2> QED
      BY <2>4, <2>7
<1>3. floor' \in [Word -> Version]
    BY <1>1, <1>2
<1>4. \A x \in Word : floor'[x] \in all(x)
    BY <1>1, <1>2
<1> QED
    BY <1>3, <1>4

\* One edge, with what it does.
LEMMA TypeStep ==
    ASSUME TypeOK, RequestInv, NEW external \in BOOLEAN, NEW own \in BOOLEAN,
           Control(external), Around(external, own)
    PROVE  TypeOK'
<1>1. /\ state' \in State /\ req' \in Current \cup {None}
      /\ (state' \in {"init", "idle"} <=> req' = None)
      /\ held' \in HeldType'
      /\ response' \in Reply \cup {None} /\ (response' # None <=> state' = "done")
      /\ victim' \in Way /\ initSet' \in Set /\ wrapping' \in BOOLEAN
    BY ControlTypes
<1>2. selected' \in Copy \cup {None}
    BY SelectedStep
<1>3. ask' \in Request \cup {None} /\ performed' \in 0 .. 2
    BY CoreStep DEF Around
<1>4. /\ mem' \in [Word -> Version] /\ peer' \in [Peer -> PeerStore \cup {None}] /\ dma' \subseteq Shared
      /\ \E answers \in SUBSET Version : PortEdge(own, IF ~own THEN {None} ELSE answers)
    BY MemoryStep DEF Around
<1>5. port' \in Transfer \cup {None}
    BY <1>4, PortStep DEF Around
<1>6. ram' \in [Set -> [Way -> Entry \cup {None}]]
    BY RamStep DEF Around
<1>7. setEpoch' \in [Set -> Epoch] /\ tagEpoch' \in BOOLEAN
    BY SnoopStep DEF Around
<1>8. floor' \in [Word -> Version]
    BY FloorStep DEF Around
<1> QED
    BY <1>1, <1>2, <1>3, <1>4, <1>5, <1>6, <1>7, <1>8 DEF TypeOK

-----------------------------------------------------------------------------
(* Requests, the walk, the mailbox and the history. *)

\* Where the chain of states goes.
LEMMA ControlStep ==
    ASSUME TypeOK, RequestInv, NEW external \in BOOLEAN, Control(external)
    PROVE  /\ req' # None =>
                \/ /\ state = "idle" /\ Reading /\ ~SelectedHit /\ state' = "lookup"
                   /\ req' = [word |-> ask.word, cacheable |-> ask.op = "load"]
                \/ req # None /\ req' = req /\ state \notin {"idle", "init", "done"}
           /\ response' # None => req' # None /\ response'.word = req'.word
           /\ state' = "init" =>
                \/ initSet' = 0 /\ selected' = None
                \/ state = "init" /\ initSet' = initSet + 1 /\ selected' \in {selected, None}
           /\ wrapping => ~wrapping' /\ state' = "init"
           /\ Overflow => wrapping' \/ state' = "init"
           /\ state' = "refill" =>
                \/ state = "select" /\ held = None /\ held' = <<>> /\ selected' \in {selected, None}
                \/ state = "refill" /\ RefillWait
                \/ state = "refill" /\ RefillBeat
<1> DEFINE Requested ==
             req' # None =>
                \/ /\ state = "idle" /\ Reading /\ ~SelectedHit /\ state' = "lookup"
                   /\ req' = [word |-> ask.word, cacheable |-> ask.op = "load"]
                \/ req # None /\ req' = req /\ state \notin {"idle", "init", "done"}
           Replied == response' # None => req' # None /\ response'.word = req'.word
           Walked ==
             state' = "init" =>
                \/ initSet' = 0 /\ selected' = None
                \/ state = "init" /\ initSet' = initSet + 1 /\ selected' \in {selected, None}
           Refilled ==
             state' = "refill" =>
                \/ state = "select" /\ held = None /\ held' = <<>> /\ selected' \in {selected, None}
                \/ state = "refill" /\ RefillWait
                \/ state = "refill" /\ RefillBeat
           Calmly == Requested /\ Replied /\ Walked /\ Refilled
<1>0. (state \in {"init", "idle"} <=> req = None) /\ (response # None <=> state = "done")
    BY DEF TypeOK
<1>1. CASE ClearAfterWrap(external) \/ ClearAll(external)
  <2>1. selected' = None
      BY <1>1 DEF ClearAfterWrap, ClearAll, Selecting
  <2> QED
      BY <1>1, <2>1 DEF ClearAfterWrap, ClearAll, Walk
<1>2. CASE Abort(external)
    BY <1>2 DEF Abort
<1>3. CASE Calm(external) /\ (InitSet \/ Idle \/ Accept)
  <2>1. Calmly
    <3>1. CASE InitSet
        BY <1>0, <3>1, SelectedIs DEF InitSet
    <3>2. CASE Idle
        BY <1>0, <3>2 DEF Idle, Stay
    <3>3. CASE Accept
        BY <1>0, <3>3 DEF Accept
    <3> QED
        BY <1>3, <3>1, <3>2, <3>3
  <2> QED
      BY <1>3, <2>1 DEF Calm
<1>4. CASE Calm(external) /\ (Lookup \/ Compare \/ SelectHit \/ SelectMiss \/ Assemble)
  <2>1. Calmly
    <3>1. CASE Lookup
        BY <1>0, <3>1 DEF Lookup, Stay
    <3>2. CASE Compare
        BY <1>0, <3>2 DEF Compare, Stay
    <3>3. CASE SelectHit
        BY <1>0, <3>3 DEF SelectHit
    <3>4. CASE SelectMiss
        BY <1>0, <3>4, SelectedIs DEF SelectMiss, Stay
    <3>5. CASE Assemble
        BY <1>0, <3>5 DEF Assemble
    <3> QED
        BY <1>4, <3>1, <3>2, <3>3, <3>4, <3>5
  <2> QED
      BY <1>4, <2>1 DEF Calm
<1>5. CASE Calm(external) /\ (RefillWait \/ RefillBeat \/ RefillLast \/ RefillDirect \/ Retire)
  <2>1. Calmly
    <3>1. CASE RefillWait
        BY <1>0, <3>1 DEF RefillWait, Stay
    <3>2. CASE RefillBeat
        BY <1>0, <3>2 DEF RefillBeat, Stay
    <3>3. CASE RefillLast
        BY <1>0, <3>3 DEF RefillLast, LastBeat
    <3>4. CASE RefillDirect
        BY <1>0, <3>4 DEF RefillDirect
    <3>5. CASE Retire
        BY <1>0, <3>5 DEF Retire
    <3> QED
        BY <1>5, <3>1, <3>2, <3>3, <3>4, <3>5
  <2> QED
      BY <1>5, <2>1 DEF Calm
<1> QED
    BY <1>1, <1>2, <1>3, <1>4, <1>5 DEF Control

\* While the controller has a request the core has it too, until it is answered.
LEMMA AskStays ==
    ASSUME TypeOK, RequestInv, NEW own \in BOOLEAN, CoreEdge(own)
    PROVE  /\ req # None /\ state # "done" => ask' = ask
           /\ Reading /\ ~SelectedHit /\ state = "idle" => ask' = ask
           /\ ask # None /\ ~Taken /\ ask.op = "store" => ask' = ask
<1>1. response # None <=> state = "done"
    BY DEF TypeOK
<1>2. ASSUME req # None, state # "done" PROVE ~Loaded /\ ~Stored /\ ask # None
  <2>1. state # "idle"
      BY <1>2 DEF TypeOK
  <2> QED
      BY <1>1, <1>2, <2>1, Shown DEF RequestInv, Loaded, SelectedHit, Stored
<1>3. ASSUME Reading, ~SelectedHit, state = "idle" PROVE ~Loaded /\ ~Stored /\ ask # None
    BY <1>1, <1>3 DEF Reading, Loaded, Stored, Writing
<1>4. ASSUME ask # None, ~Taken, ask.op = "store" PROVE ~Loaded /\ ~Stored /\ ask # None
    BY <1>4 DEF Loaded, Stored
<1> QED
    BY <1>2, <1>3, <1>4, CoreStep

\* The request in the controller stays the load that the core holds.
LEMMA RequestStep ==
    ASSUME TypeOK, RequestInv, NEW external \in BOOLEAN, NEW own \in BOOLEAN,
           Control(external), Around(external, own)
    PROVE  RequestInv'
<1>1. ASSUME req' # None
      PROVE  /\ ask' # None /\ ask'.op # "store"
             /\ req' = [word |-> ask'.word, cacheable |-> ask'.op = "load"]
  <2>1. CASE /\ state = "idle" /\ Reading /\ ~SelectedHit
             /\ req' = [word |-> ask.word, cacheable |-> ask.op = "load"]
    <3>1. ask' = ask
        BY <2>1, AskStays DEF Around
    <3> QED
        BY <2>1, <3>1 DEF Reading
  <2>2. CASE req # None /\ req' = req /\ state # "done"
    <3>1. ask' = ask
        BY <2>2, AskStays DEF Around
    <3> QED
        BY <2>2, <3>1 DEF RequestInv
  <2> QED
      BY <1>1, <2>1, <2>2, ControlStep
<1>2. response' # None => response'.word = req'.word
    BY ControlStep
<1> QED
    BY <1>1, <1>2 DEF RequestInv

\* The walk clears set after set, and nothing is selected meanwhile.
LEMMA WalkStep ==
    ASSUME TypeOK, RequestInv, WalkInv, NEW external \in BOOLEAN, NEW own \in BOOLEAN,
           Control(external), Around(external, own)
    PROVE  WalkInv'
<1> SUFFICES ASSUME state' = "init"
             PROVE  selected' = None /\ \A s \in Set, w \in Way : s < initSet' => ram'[s][w] = None
    BY DEF WalkInv
<1>1. CASE initSet' = 0 /\ selected' = None
    BY <1>1, CacheAssumption DEF Set
<1>2. CASE state = "init" /\ initSet' = initSet + 1 /\ selected' \in {selected, None}
  <2>1. ~LastBeat
      BY <1>2 DEF LastBeat
  <2>2. /\ \A s \in Set, w \in Way : ram'[s][w] \in {None, ram[s][w]}
        /\ \A w \in Way : ram'[initSet][w] = None
      BY <1>2, <2>1, RamStep DEF Around
  <2>3. initSet \in Set /\ \A s \in Set : s < initSet + 1 => s < initSet \/ s = initSet
      BY CacheAssumption DEF TypeOK, Set
  <2> QED
      BY <1>2, <2>2, <2>3 DEF WalkInv
<1> QED
    BY <1>1, <1>2, ControlStep

\* What a load returns is good.
LEMMA LoadedGood ==
    ASSUME Inv, Loaded
    PROVE  ask # None /\ ask.word \in Word /\ Good(ask.word, LoadedVersion)
<1>1. /\ ask # None /\ ask.op # "store" /\ ~wrapping
      /\ IF response # None THEN response.word = ask.word ELSE SelectedHit
    BY DEF Loaded
<1>2. ask.word \in Word
    BY <1>1 DEF Inv, TypeOK, Request
<1>3. CASE response # None
  <2>1. state = "done"
      BY <1>3 DEF Inv, TypeOK
  <2>2. Good(req.word, response.version) /\ response.word = req.word
      BY <1>1, <1>3, <2>1 DEF Inv, HeldInv, RequestInv
  <2> QED
      BY <1>1, <1>2, <1>3, <2>2 DEF LoadedVersion
<1>4. CASE response = None
  <2>1. state = "idle" /\ selected # None /\ selected.line = LineOf(ask.word)
      BY <1>1, <1>4 DEF SelectedHit
  <2>2. GoodLine(selected.line, selected.words)
      BY <1>1, <2>1 DEF Inv, CopyInv, Settling
  <2>3. DOMAIN selected.words = 1 .. Beats
      BY <2>1 DEF Inv, TypeOK, Copy, Words
  <2>4. Place(ask.word) \in 1 .. Beats /\ WordAt(LineOf(ask.word), Place(ask.word)) = ask.word
      BY <1>2, Geometry
  <2>5. Good(ask.word, selected.words[Place(ask.word)])
      BY <2>1, <2>2, <2>3, <2>4 DEF GoodLine
  <2> QED
      BY <1>1, <1>2, <1>4, <2>5 DEF LoadedVersion
<1> QED
    BY <1>3, <1>4

\* An answer that completes the store of the core is of that store.
LEMMA StoredIsOwn ==
    ASSUME Inv, Stored
    PROVE  /\ ask # None /\ ask.op = "store" /\ ask.word \in Word
           /\ port # None /\ port.word = ask.word /\ port.answer # None
           /\ port.answer <= mem[ask.word]
<1>1. Writing /\ ask.op = "store" /\ port # None /\ ~port.orphan /\ port.answer # None
    BY DEF Stored, Taken, Writing
<1>2. port.op \in {"load", "store"} /\ ask.word \in Word
    BY <1>1, Shown, CacheAssumption DEF Inv, TypeOK, Transfer, Word
<1>3. port.op = "store"
    BY <1>1, <1>2 DEF Inv, PortInv
<1> QED
    BY <1>1, <1>2, <1>3 DEF Inv, PortInv, Writing

\* What is remembered stays behind memory.
LEMMA FloorBelow ==
    ASSUME Inv, NEW external \in BOOLEAN, FloorEdge(external)
    PROVE  \A x \in Word : floor'[x] <= mem[x]
<1> SUFFICES ASSUME NEW x \in Word PROVE floor'[x] <= mem[x]
    OBVIOUS
<1>1. CASE floor'[x] = floor[x]
    BY <1>1 DEF Inv, HistoryInv
<1>2. CASE \E p \in Announced : peer[p].word = x /\ floor'[x] = peer[p].version
    BY <1>2 DEF Inv, HistoryInv, Announced
<1>3. CASE floor'[x] = mem[x]
  <2>1. mem[x] \in 0 .. MaxVersion /\ MaxVersion \in Nat
      BY CacheAssumption DEF Inv, TypeOK, Version
  <2> QED
      BY <1>3, <2>1
<1>4. CASE Stored /\ x = ask.word /\ floor'[x] = port.answer
    BY <1>4, StoredIsOwn
<1>5. CASE Loaded /\ x = ask.word /\ floor'[x] = LoadedVersion
    BY <1>5, LoadedGood DEF Good
<1> QED
    BY <1>1, <1>2, <1>3, <1>4, <1>5, FloorStep DEF Inv

\* The versions as numbers.
LEMMA Numbers ==
    ASSUME TypeOK
    PROVE  /\ Version \subseteq Nat
           /\ \A x \in Word : mem[x] \in Nat /\ floor[x] \in Nat
           /\ \A p \in Peer : peer[p] # None => peer[p] \in PeerStore /\ peer[p].version \in Nat
                                               /\ peer[p].word \in Word
<1>1. Version \subseteq Nat /\ Shared \subseteq Word
    BY CacheAssumption DEF Version, Word
<1>2. \A x \in Word : mem[x] \in Version /\ floor[x] \in Version
    BY DEF TypeOK
<1>3. \A p \in Peer : peer[p] # None => peer[p] \in PeerStore
    BY DEF TypeOK
<1> QED
    BY <1>1, <1>2, <1>3 DEF PeerStore

\* Floors and remembered stores stay behind memory.
LEMMA HistoryStep ==
    ASSUME Inv, NEW external \in BOOLEAN, NEW own \in BOOLEAN,
           Control(external), Around(external, own), TypeOK'
    PROVE  HistoryInv'
<1>1. /\ \A x \in Word : mem[x] <= mem'[x]
      /\ \A p \in Peer : peer'[p] # None =>
            \/ peer'[p].version = mem'[peer'[p].word]
            \/ /\ peer[p] # None /\ peer'[p].word = peer[p].word
               /\ peer'[p].version = peer[p].version
    BY MemoryStep DEF Inv, Around
<1>2. /\ \A x \in Word : mem[x] \in Nat /\ floor[x] \in Nat
      /\ \A p \in Peer : peer[p] # None => peer[p].version \in Nat /\ peer[p].word \in Word
    BY Numbers DEF Inv
<1>3. Version \subseteq Nat /\ Shared \subseteq Word
    BY CacheAssumption DEF Version, Word
<1>4. \A x \in Word : mem'[x] \in Nat /\ floor'[x] \in Nat
    BY <1>3 DEF TypeOK
<1>5. ASSUME NEW p \in Peer, peer'[p] # None
      PROVE  peer'[p].version <= mem'[peer'[p].word]
  <2>1. peer'[p] \in PeerStore
      BY <1>5 DEF TypeOK
  <2>2. peer'[p].word \in Word
      BY <1>3, <2>1 DEF PeerStore
  <2>3. CASE peer'[p].version = mem'[peer'[p].word]
      BY <1>4, <2>2, <2>3
  <2>4. CASE /\ peer[p] # None /\ peer'[p].word = peer[p].word
             /\ peer'[p].version = peer[p].version
    <3>1. peer[p].version <= mem[peer[p].word]
        BY <2>4 DEF Inv, HistoryInv
    <3> QED
        BY <1>1, <1>2, <1>4, <2>4, <3>1
  <2> QED
      BY <1>1, <1>5, <2>3, <2>4
<1>6. ASSUME NEW x \in Word PROVE floor'[x] <= mem'[x]
  <2>1. floor'[x] <= mem[x]
      BY FloorBelow DEF Around
  <2> QED
      BY <1>1, <1>2, <1>4, <2>1
<1> QED
    BY <1>5, <1>6 DEF HistoryInv

\* An answer that a refill takes is good, and of the word that it asked for.
LEMMA BeatGood ==
    ASSUME Inv, state = "refill", Taken
    PROVE  /\ port.answer \in Version /\ Good(port.word, port.answer)
           /\ port.word = IF req.cacheable THEN WordAt(Ours, Len(held) + 1) ELSE req.word
<1>1. port # None /\ ~port.orphan /\ port.answer # None /\ port \in Transfer /\ port.answer \in Version
    BY Shown DEF Inv, Taken
<1>2. ask # None /\ ask.op # "store"
    BY DEF Inv, TypeOK, RequestInv
<1>3. port.op = "load"
    BY <1>1, <1>2 DEF Transfer, Inv, PortInv
<1>4. port.word = Driven.word /\ Good(port.word, port.answer)
    BY <1>1, <1>3 DEF Inv, PortInv
<1> QED
    BY <1>1, <1>4, Shown DEF Inv

\* The floor and memory let an answer through that was given on this edge.
LEMMA FreshGood ==
    ASSUME Inv, NEW external \in BOOLEAN, NEW own \in BOOLEAN, Around(external, own), TypeOK',
           own, port # None, port.op = "load",
           NEW x \in Word, port.word = x, NEW v, v \in {mem[x], mem'[x]}
    PROVE  Good(x, v)'
<1>1. floor'[x] <= mem[x] /\ mem[x] <= mem'[x]
    BY FloorBelow, MemoryStep DEF Inv, Around
<1>2. mem'[x] # mem[x] =>
        x \in dma' \/ \E p \in Peer : peer'[p] # None /\ peer'[p].word = x
    BY MemoryStep DEF Inv, Around
<1>3. mem'[x] # mem[x] => Due(x)'
    BY <1>2 DEF Due
<1>4. mem[x] \in Nat /\ mem'[x] \in Nat /\ floor'[x] \in Nat
  <2>1. mem[x] \in Nat /\ mem'[x] \in Version /\ floor'[x] \in Version /\ Version \subseteq Nat
      BY Numbers DEF Inv, TypeOK
  <2> QED
      BY <2>1
<1>5. v <= mem'[x] /\ floor'[x] <= v
    BY <1>1, <1>4
<1>6. v = mem'[x] \/ Due(x)'
    BY <1>3
<1> QED
    BY <1>5, <1>6 DEF Good

\* A withdrawn request is an orphan; otherwise the answer is good and of the beat awaited.
LEMMA TransferStep ==
    ASSUME Inv, NEW external \in BOOLEAN, NEW own \in BOOLEAN,
           Control(external), Around(external, own), TypeOK', RequestInv'
    PROVE  PortInv'
<1> SUFFICES ASSUME port' # None
    PROVE  /\ port'.op = "store" => ask' # None /\ ask'.op = "store" /\ ask'.word = port'.word
           /\ port'.op = "load" /\ ~port'.orphan =>
                /\ ask' # None /\ ask'.op # "store" /\ state' \in {"refill", "idle", "init"}
                /\ state' = "refill" =>
                     /\ port'.word = Driven'.word
                     /\ port'.answer # None => Good(port.word, port.answer)'
           /\ port'.answer # None => port'.answer <= mem'[port'.word]
    BY DEF PortInv
<1>0. /\ CoreEdge(own) /\ (own => port # None /\ port.answer = None)
      /\ TypeOK /\ RequestInv /\ PortInv
    BY DEF Around, Inv
<1>1. PICK answers \in SUBSET Version :
        /\ PortEdge(own, IF ~own THEN {None} ELSE answers)
        /\ own => answers = IF port.op = "store" THEN {mem'[port.word]}
                            ELSE {mem[port.word], mem'[port.word]}
    BY <1>0, MemoryStep DEF Around
<1>2. /\ port = None => port' = IF Driven = None THEN None
                                ELSE [op |-> Driven.op, word |-> Driven.word,
                                      orphan |-> FALSE, answer |-> None]
      /\ port # None /\ port.answer # None => port' = None
      /\ port # None /\ port.answer = None =>
           /\ port' \in Transfer /\ port'.op = port.op /\ port'.word = port.word
           /\ port'.orphan = (port.orphan \/ Driven = None)
           /\ own => port'.answer \in answers
           /\ ~own => port'.answer = None
    BY <1>0, <1>1, PortStep
<1>3. ~Taken
    BY <1>2 DEF Taken
\* While nothing is taken a refill waits or is given up.
<1>4. ASSUME state = "refill"
      PROVE  /\ ask' # None /\ ask'.op # "store" /\ state' \in {"refill", "idle", "init"}
             /\ state' = "refill" => Driven'.word = Driven.word
  <2>1. req # None
      BY <1>0, <1>4 DEF TypeOK
  <2>2. ask' = ask /\ ask # None /\ ask.op # "store"
      BY <1>0, <1>4, <2>1, AskStays DEF RequestInv
  <2>3. RefillWait \/ state' \in {"idle", "init"}
      BY <1>3, <1>4 DEF Control, ClearAfterWrap, ClearAll, Walk, Abort, InitSet, Idle, Accept, Lookup,
           Compare, SelectHit, SelectMiss, Assemble, RefillBeat, RefillLast, LastBeat, RefillDirect,
           Retire
  <2>4. CASE RefillWait
    <3>1. state' = "refill" /\ req' = req /\ held' = held
        BY <1>4, <2>4 DEF RefillWait, Stay
    <3>2. ~Writing /\ ~Writing'
        BY <2>2 DEF Writing
    <3>3. Driven'.word = Driven.word
        BY <1>4, <3>1, <3>2 DEF Driven
    <3> QED
        BY <2>2, <3>1, <3>3
  <2> QED
      BY <2>2, <2>3, <2>4
<1>5. CASE port = None
  <2>1. Driven # None /\ port' = [op |-> Driven.op, word |-> Driven.word, orphan |-> FALSE, answer |-> None]
      BY <1>2, <1>5
  <2>2. CASE Writing
    <3>1. ask # None /\ ask.op = "store" /\ Driven.op = "store" /\ Driven.word = ask.word
        BY <1>0, <2>2, Shown DEF Writing
    <3>2. ask' = ask
        BY <1>0, <1>3, <3>1, AskStays
    <3> QED
        BY <2>1, <3>1, <3>2
  <2>3. CASE ~Writing
    <3>1. state = "refill" /\ Driven.op = "load"
        BY <1>0, <2>1, <2>3, Shown
    <3> QED
        BY <1>4, <2>1, <3>1
  <2> QED
      BY <2>2, <2>3
<1>6. CASE port # None /\ port.answer = None
  <2>1. /\ port' \in Transfer /\ port'.op = port.op /\ port'.word = port.word
        /\ port'.orphan = (port.orphan \/ Driven = None) /\ port \in Transfer
      BY <1>0, <1>2, <1>6 DEF TypeOK
  <2>2. ASSUME port.op = "store" PROVE ask' # None /\ ask'.op = "store" /\ ask'.word = port.word
    <3>1. ask # None /\ ask.op = "store" /\ ask.word = port.word
        BY <1>0, <1>6, <2>2 DEF PortInv
    <3> QED
        BY <1>0, <1>3, <3>1, AskStays
  <2>3. ASSUME port.op = "load", ~port'.orphan
        PROVE  /\ ask' # None /\ ask'.op # "store" /\ state' \in {"refill", "idle", "init"}
               /\ state' = "refill" =>
                    /\ port.word = Driven'.word
                    /\ port'.answer # None => Good(port.word, port.answer)'
    <3>1. ~port.orphan /\ Driven # None
        BY <2>1, <2>3
    <3>2. ask # None /\ ask.op # "store" /\ (state = "refill" => port.word = Driven.word)
        BY <1>0, <1>6, <2>3, <3>1 DEF PortInv
    <3>3. state = "refill"
        BY <1>0, <3>1, <3>2, Shown DEF Writing
    <3>4. ASSUME port'.answer # None PROVE Good(port.word, port.answer)'
      <4>1. own /\ port'.answer \in {mem[port.word], mem'[port.word]}
          BY <1>1, <1>2, <1>6, <2>3, <3>4
      <4>2. PICK x \in Word, v \in Version : x = port.word /\ v = port'.answer
          BY <1>2, <1>6, <2>1, <4>1 DEF Transfer
      <4>3. Good(x, v)'
          BY <1>6, <2>3, <4>1, <4>2, FreshGood
      <4>4. port'.word = x /\ port'.answer = v
          BY <2>1, <4>2
      <4> QED
          BY <4>3, <4>4 DEF Good, Due, Dropping
    <3> QED
        BY <1>4, <3>2, <3>3, <3>4
  <2>4. ASSUME port'.answer # None PROVE port'.answer <= mem'[port.word]
    <3>1. own /\ port'.answer \in {mem[port.word], mem'[port.word]}
        BY <1>1, <1>2, <1>6, <2>4
    <3>2. port.word \in Word
        BY <2>1 DEF Transfer
    <3>3. mem[port.word] <= mem'[port.word] /\ mem'[port.word] \in Version
        BY <1>0, <3>2, MemoryStep DEF Around
    <3>4. mem'[port.word] \in Nat
        BY <3>3, CacheAssumption DEF Version
    <3> QED
        BY <3>1, <3>3, <3>4
  <2> QED
      BY <2>1, <2>2, <2>3, <2>4
<1> QED
    BY <1>2, <1>5, <1>6

-----------------------------------------------------------------------------
(* What survives an edge. *)

\* An edge that leaves the tags usable wraps no epoch, follows no walk, and tells of
\* one peer's store at most.
LEMMA SettledEdge ==
    ASSUME Inv, NEW external \in BOOLEAN, NEW own \in BOOLEAN,
           Control(external), Around(external, own), Settling'
    PROVE  /\ ~wrapping /\ ~Overflow /\ ~Flood /\ ~external
           /\ tagEpoch' = tagEpoch
           /\ \A s \in Set : setEpoch'[s] = IF SnoopedSet(s) THEN setEpoch[s] + 1 ELSE setEpoch[s]
           /\ \A p \in Announced : LineOf(peer[p].word) \in Snooped
           /\ state = "init" => selected' = None /\ \A s \in Set, w \in Way : ram'[s][w] = None
<1>0. TypeOK /\ RequestInv /\ ~wrapping' /\ state' # "init"
    BY DEF Inv, Settling
<1>1. ~wrapping /\ ~Overflow
    BY <1>0, ControlStep
<1>2. ~Flood /\ ~external
  <2>1. SUFFICES ASSUME Flood \/ external PROVE FALSE
      OBVIOUS
  <2>2. external => req = None
      BY <1>0 DEF Around, Ready, RequestInv
  <2>3. ~Conflict
      BY <2>1, <2>2 DEF Conflict, Snooped
  <2>4. Walk
      BY <1>1, <2>1, <2>3 DEF Control, ClearAfterWrap, Abort, ClearAll, Calm
  <2> QED
      BY <1>0, <2>4 DEF Walk
<1>3. tagEpoch' = tagEpoch
    BY <1>0, <1>1, SnoopStep DEF Around
<1>4. \A s \in Set : setEpoch'[s] = IF SnoopedSet(s) THEN setEpoch[s] + 1 ELSE setEpoch[s]
    BY <1>0, <1>1, SnoopStep DEF Around
<1>5. \A p \in Announced : LineOf(peer[p].word) \in Snooped
    BY <1>2 DEF Snooped
<1>6. ASSUME state = "init"
      PROVE  selected' = None /\ \A s \in Set, w \in Way : ram'[s][w] = None
  <2>1. selected = None /\ \A s \in Set, w \in Way : s < initSet => ram[s][w] = None
      BY <1>6 DEF Inv, WalkInv
  <2>2. req = None
      BY <1>0, <1>6 DEF TypeOK
  <2>3. InitSet
      BY <1>0, <1>6, <2>2 DEF Control, ClearAfterWrap, Abort, ClearAll, Conflict, Walk, Idle, Accept,
           Lookup, Compare, SelectHit, SelectMiss, Assemble, RefillWait, RefillBeat, RefillLast,
           LastBeat, RefillDirect, Retire
  <2>4. initSet = Sets - 1
      BY <1>0, <2>3 DEF InitSet
  <2>5. ~LastBeat
      BY <1>6 DEF LastBeat
  <2>6. \A s \in Set : s < initSet \/ s = initSet
      BY <2>4, CacheAssumption DEF Set
  <2>7. /\ \A s \in Set, w \in Way : ram'[s][w] \in {None, ram[s][w]}
        /\ \A w \in Way : ram'[initSet][w] = None
      BY <1>0, <1>6, <2>5, RamStep DEF Around
  <2>8. selected' = None
      BY <2>1, <2>3, SelectedIs DEF InitSet
  <2> QED
      BY <2>1, <2>6, <2>7, <2>8
<1> QED
    BY <1>1, <1>2, <1>3, <1>4, <1>5, <1>6

\* A snoop steps the epoch of its set, so no tag gets ahead of it.
LEMMA EpochStep ==
    ASSUME Inv, NEW external \in BOOLEAN, NEW own \in BOOLEAN,
           Control(external), Around(external, own)
    PROVE  EpochInv'
<1> SUFFICES ASSUME Settling', NEW s \in Set, NEW w \in Way, ram'[s][w] # None
    PROVE  /\ ram'[s][w].epoch = tagEpoch' /\ ram'[s][w].setEpoch <= setEpoch'[s]
           /\ SetOf(ram'[s][w].line) = s
    BY DEF EpochInv
<1>1. /\ ~wrapping /\ tagEpoch' = tagEpoch
      /\ setEpoch'[s] = IF SnoopedSet(s) THEN setEpoch[s] + 1 ELSE setEpoch[s]
      /\ state # "init"
    BY SettledEdge
<1>2. setEpoch[s] \in Nat /\ setEpoch[s] <= setEpoch'[s]
    BY <1>1, CacheAssumption DEF Inv, TypeOK, Epoch
<1>3. CASE ram'[s][w] = ram[s][w]
  <2>1. /\ ram[s][w].epoch = tagEpoch /\ ram[s][w].setEpoch <= setEpoch[s]
        /\ SetOf(ram[s][w].line) = s
      BY <1>1, <1>3 DEF Inv, EpochInv, Settling
  <2>2. ram[s][w] \in Entry
      BY <1>3 DEF Inv, TypeOK
  <2>3. ram[s][w].setEpoch \in Nat
      BY <2>2, CacheAssumption DEF Entry, Epoch
  <2> QED
      BY <1>1, <1>2, <1>3, <2>1, <2>3
<1>4. CASE s = SetOf(Ours) /\ ram'[s][w] = Installed
    BY <1>1, <1>2, <1>4 DEF Installed, Ours
<1> QED
    BY <1>3, <1>4, RamStep DEF Inv, Around

\* A live tag after an edge was live before it, or is the one of a last beat.
LEMMA LiveStep ==
    ASSUME Inv, NEW external \in BOOLEAN, NEW own \in BOOLEAN,
           Control(external), Around(external, own), Settling',
           NEW s \in Set, NEW w \in Way, Live(s, w)'
    PROVE  /\ ~SnoopedSet(s) /\ state # "init"
           /\ Writing => s # SetOf(LineOf(ask.word))
           /\ \/ Live(s, w) /\ ram'[s][w] = ram[s][w] /\ SetOf(ram[s][w].line) = s
              \/ LastBeat /\ s = SetOf(Ours) /\ w = victim /\ ram'[s][w] = Installed
<1>1. ram'[s][w] # None /\ ram'[s][w].epoch = tagEpoch' /\ ram'[s][w].setEpoch = setEpoch'[s]
    BY DEF Live
<1>2. /\ ~wrapping /\ tagEpoch' = tagEpoch /\ setEpoch[s] \in Nat
      /\ setEpoch'[s] = IF SnoopedSet(s) THEN setEpoch[s] + 1 ELSE setEpoch[s]
      /\ state # "init"
    BY <1>1, SettledEdge, CacheAssumption DEF Inv, TypeOK, Epoch
<1>3. Writing => s # SetOf(LineOf(ask.word))
    BY <1>1, RamStep DEF Inv, Around
<1>4. CASE ram'[s][w] = ram[s][w]
  <2>1. /\ ram[s][w].epoch = tagEpoch /\ ram[s][w].setEpoch <= setEpoch[s]
        /\ SetOf(ram[s][w].line) = s
      BY <1>1, <1>2, <1>4 DEF Inv, EpochInv, Settling
  <2>2. ~SnoopedSet(s) /\ ram[s][w].setEpoch = setEpoch[s]
      BY <1>1, <1>2, <1>4, <2>1
  <2>3. Live(s, w)
      BY <1>1, <1>4, <2>1, <2>2 DEF Live
  <2> QED
      BY <1>2, <1>3, <1>4, <2>1, <2>2, <2>3
<1>5. CASE LastBeat /\ s = SetOf(Ours) /\ w = victim /\ ram'[s][w] = Installed
  <2>1. ram'[s][w].setEpoch = setEpoch[s]
      BY <1>5 DEF Installed, Ours
  <2>2. ~SnoopedSet(s)
      BY <1>1, <1>2, <2>1
  <2> QED
      BY <1>2, <1>3, <1>5, <2>2
<1> QED
    BY <1>1, <1>4, <1>5, RamStep DEF Inv, Around

\* What a cacheable load returns is what every copy of its word holds.
LEMMA LoadedAgrees ==
    ASSUME Inv, Loaded, ask.op = "load"
    PROVE  \A v \in Copies(ask.word) : v = LoadedVersion
<1>1. /\ ask # None /\ ~wrapping
      /\ IF response # None THEN response.word = ask.word ELSE SelectedHit
    BY DEF Loaded
<1>2. CASE response # None
  <2>1. state = "done" /\ req # None
      BY <1>2 DEF Inv, TypeOK
  <2>2. req.cacheable /\ req.word = ask.word
    <3>1. req = [word |-> ask.word, cacheable |-> ask.op = "load"]
        BY <2>1 DEF Inv, RequestInv
    <3>2. (ask.op = "load") = TRUE
        OBVIOUS
    <3>3. req = [word |-> ask.word, cacheable |-> TRUE]
        BY <3>1, <3>2, Zenon
    <3> QED
        BY <3>3
  <2>3. \A v \in Copies(req.word) : v = response.version
      BY <1>1, <2>1, <2>2 DEF Inv, HeldInv
  <2> QED
      BY <1>2, <2>2, <2>3 DEF LoadedVersion
<1>3. CASE response = None
  <2>1. state = "idle" /\ selected # None /\ selected.line = LineOf(ask.word)
      BY <1>1, <1>3 DEF SelectedHit
  <2>2. ask.word \in Word
      BY LoadedGood
  <2>3. SetOf(LineOf(ask.word)) \in Set
      BY <2>2, Geometry
  <2>4. \A w \in Way : Live(SetOf(LineOf(ask.word)), w) /\ ram[SetOf(LineOf(ask.word))][w].line = LineOf(ask.word)
                         => ram[SetOf(LineOf(ask.word))][w].words = selected.words
      BY <1>1, <2>1, <2>3 DEF Inv, CopyInv, Settling
  <2> QED
      BY <1>3, <2>1, <2>4 DEF Copies, LoadedVersion
<1> QED
    BY <1>2, <1>3

\* A version that is not of a snooped line or of the word stored stays good, if the
\* load that returns now does not return a newer one from a copy.
LEMMA Persists ==
    ASSUME Inv, NEW external \in BOOLEAN, NEW own \in BOOLEAN,
           Control(external), Around(external, own), TypeOK', ~external, ~Flood,
           NEW x \in Word, NEW v \in Version, Good(x, v),
           LineOf(x) \notin Snooped, ~(Stored /\ ask.word = x),
           Loaded /\ ask.word = x /\ ask.op = "load" => LoadedVersion = v
    PROVE  Good(x, v)'
<1>1. \A p \in Announced : peer[p].word # x
    BY DEF Snooped
<1>2. v <= mem[x] /\ (v = mem[x] \/ Due(x)) /\ floor[x] <= v
    BY <1>1 DEF Good, Dropping
<1>3. /\ mem[x] \in Nat /\ v \in Nat /\ mem'[x] \in Nat /\ floor'[x] \in Nat /\ floor[x] \in Nat
      /\ mem[x] <= mem'[x]
  <2>1. mem[x] \in Nat /\ floor[x] \in Nat /\ Version \subseteq Nat
      BY Numbers DEF Inv
  <2>2. mem'[x] \in Version /\ floor'[x] \in Version
      BY DEF TypeOK
  <2> QED
      BY <2>1, <2>2, MemoryStep DEF Inv, Around
<1>4. ask # None /\ ask.op = "store" /\ ask.word = x => ask' = ask
  <2>1. SUFFICES ASSUME ask # None, ask.op = "store", ask.word = x PROVE ask' = ask
      OBVIOUS
  <2>2. ~Loaded /\ ~Stored
      BY <2>1 DEF Loaded
  <2> QED
      BY <2>1, <2>2, CoreStep DEF Inv, Around
<1>5. Due(x) => Due(x)'
  <2>1. x \in dma => x \in dma'
      BY MemoryStep DEF Inv, Around
  <2>2. ASSUME NEW p \in Peer, peer[p] # None, peer[p].word = x
        PROVE  peer'[p] # None /\ peer'[p].word = x
      BY <1>1, <2>2, MemoryStep DEF Inv, Around
  <2> QED
      BY <1>4, <2>1, <2>2 DEF Due
<1>6. mem'[x] # mem[x] => Due(x)'
  <2>1. SUFFICES ASSUME own, port.op = "store", port.word = x, port # None
        PROVE  ask # None /\ ask.op = "store" /\ ask.word = x
    <3>1. mem'[x] # mem[x] =>
            \/ x \in dma'
            \/ \E p \in Peer : peer'[p] # None /\ peer'[p].word = x
            \/ own /\ port.op = "store" /\ port.word = x /\ port # None
        BY MemoryStep DEF Inv, Around
    <3> QED
        BY <1>4, <3>1 DEF Due
  <2> QED
      BY <2>1 DEF Inv, PortInv
<1>7. v <= mem'[x] /\ (v = mem'[x] \/ Due(x)')
    BY <1>2, <1>3, <1>5, <1>6
\* A direct load that overtakes a copy was told by a store whose announcement comes next.
<1>8. floor'[x] <= v \/ Dropping(x)'
  <2>1. CASE floor'[x] = floor[x]
      BY <1>2, <2>1
  <2>2. CASE Loaded /\ x = ask.word /\ Settled(x) /\ floor'[x] = LoadedVersion
    <3>1. LoadedVersion <= mem[x] /\ ask # None /\ ask.op # "store"
        BY <2>2, LoadedGood DEF Good, Loaded
    <3>2. CASE v = mem[x]
        BY <2>2, <3>1, <3>2
    <3>3. CASE ask.op = "load"
        BY <1>3, <2>2, <3>3
    <3>4. CASE v # mem[x] /\ ask.op # "load"
      <4>1. x \notin dma /\ \A p \in Peer : peer[p] # None => peer[p].word # x \/ peer[p].at # "withdrawn"
          BY <2>2, <3>4 DEF Settled
      <4>2. PICK p \in Peer : peer[p] # None /\ peer[p].word = x
          BY <1>2, <3>1, <3>4, <4>1 DEF Due
      <4>3. p \notin Announced /\ peer[p] \in PeerStore
          BY <1>1, <4>2 DEF Inv, TypeOK
      <4>4. peer[p].at = "answered"
          BY <4>1, <4>2, <4>3 DEF Announced, PeerStore
      <4>5. peer'[p] # None /\ peer'[p].word = x /\ peer'[p].at = "announced"
          BY <4>2, <4>3, <4>4, MemoryStep DEF Inv, Around
      <4>6. ask' = None
          BY <2>2, <3>1, CoreStep DEF Inv, Around
      <4> QED
          BY <4>5, <4>6 DEF Dropping, Announced
    <3> QED
        BY <3>2, <3>3, <3>4
  <2>3. CASE Stored /\ x = ask.word
      BY <2>3
  <2> QED
      BY <1>1, <2>1, <2>2, <2>3, FloorStep DEF Inv, Around
<1> QED
    BY <1>7, <1>8 DEF Good

\* The same of the words of a line.
LEMMA LinePersists ==
    ASSUME Inv, NEW external \in BOOLEAN, NEW own \in BOOLEAN,
           Control(external), Around(external, own), TypeOK', ~external, ~Flood,
           NEW l \in Line, NEW n \in 0 .. Beats, NEW words \in [1 .. n -> Version], GoodLine(l, words),
           l \notin Snooped, Writing => LineOf(ask.word) # l,
           \A i \in 1 .. n : Loaded /\ ask.word = WordAt(l, i) /\ ask.op = "load" => LoadedVersion = words[i]
    PROVE  GoodLine(l, words)'
<1>1. ASSUME NEW i \in 1 .. n PROVE Good(WordAt(l, i), words[i])'
  <2> DEFINE x == WordAt(l, i)
             v == words[i]
  <2>1. x \in Word /\ LineOf(x) = l /\ v \in Version
    <3>1. i \in 1 .. Beats
        BY CacheAssumption
    <3> QED
        BY <3>1, Geometry
  <2>2. Good(x, v)
      BY DEF GoodLine
  <2>3. ~(Stored /\ ask.word = x)
      BY <2>1 DEF Stored
  <2>4. Loaded /\ ask.word = x /\ ask.op = "load" => LoadedVersion = v
      OBVIOUS
  <2> HIDE DEF x, v
  <2>5. Good(x, v)'
      BY <2>1, <2>2, <2>3, <2>4, Persists
  <2> QED
      BY <2>5 DEF x, v, Good, Due, Dropping, WordAt
<1>2. DOMAIN words = 1 .. n
    OBVIOUS
<1> QED
    BY <1>1, <1>2 DEF GoodLine

\* On an edge that goes on with a request, what is good of its line stays good.
LEMMA OursPersists ==
    ASSUME Inv, NEW external \in BOOLEAN, NEW own \in BOOLEAN,
           Control(external), Around(external, own), TypeOK', ~external, ~Flood,
           ~Conflict, req # None, state # "done"
    PROVE  /\ ~Loaded /\ ~Writing /\ ask' = ask
           /\ Ours \in Line /\ Ours \notin Snooped /\ SetOf(Ours) \in Set
           /\ \A l \in Line, n \in 0 .. Beats : \A words \in [1 .. n -> Version] :
                l = Ours /\ GoodLine(l, words) => GoodLine(l, words)'
           /\ \A x \in Word, v \in Version : LineOf(x) = Ours /\ Good(x, v) => Good(x, v)'
<1>1. ~Loaded /\ ~Writing
  <2>1. response = None /\ state # "idle"
      BY DEF Inv, TypeOK
  <2> QED
      BY <2>1, Shown DEF Inv, Loaded, SelectedHit
<1>2. ask' = ask /\ Ours \in Line /\ SetOf(Ours) \in Set
    BY AskStays, Shown DEF Inv, Around
<1>3. Ours \notin Snooped
    BY DEF Conflict, Ours
<1>4. ASSUME NEW l \in Line, NEW n \in 0 .. Beats, NEW words \in [1 .. n -> Version],
             l = Ours, GoodLine(l, words)
      PROVE  GoodLine(l, words)'
    BY <1>1, <1>3, <1>4, LinePersists
<1>5. ASSUME NEW x \in Word, NEW v \in Version, LineOf(x) = Ours, Good(x, v)
      PROVE  Good(x, v)'
    BY <1>1, <1>3, <1>5, Persists DEF Stored
<1> QED
    BY <1>1, <1>2, <1>3, <1>4, <1>5

\* With a beat more, the line of a refill is good.
LEMMA BeatPersists ==
    ASSUME Inv, NEW external \in BOOLEAN, NEW own \in BOOLEAN,
           Control(external), Around(external, own), TypeOK', ~external, ~Flood, ~wrapping,
           ~Conflict, state = "refill", req.cacheable, Taken,
           NEW l \in Line, l = Ours, NEW words, words = Append(held, port.answer)
    PROVE  GoodLine(l, words)'
<1> DEFINE n == Len(held)
<1>1. n \in 0 .. Beats - 1 /\ held \in [1 .. n -> Version] /\ Beats \in Nat
    BY Collected, CacheAssumption DEF Inv
<1>2. /\ port.answer \in Version /\ Good(port.word, port.answer)
      /\ port.word = WordAt(Ours, n + 1)
    BY BeatGood
<1>3. PICK m \in 0 .. Beats - 1 : m = n
    BY <1>1
<1> HIDE DEF n
<1>4. /\ DOMAIN words = 1 .. m + 1 /\ words \in [1 .. m + 1 -> Version]
      /\ words[m + 1] = port.answer /\ \A i \in 1 .. m : words[i] = held[i]
    BY <1>1, <1>2, <1>3, AppendIs
<1>5. GoodLine(l, words)
  <2>1. GoodLine(Ours, held)
      BY DEF Inv, HeldInv
  <2>2. \A i \in 1 .. m : Good(WordAt(l, i), words[i])
      BY <1>1, <1>3, <1>4, <2>1 DEF GoodLine
  <2>3. Good(WordAt(l, m + 1), words[m + 1])
      BY <1>2, <1>3, <1>4
  <2>4. \A i \in 1 .. m + 1 : i \in 1 .. m \/ i = m + 1
      BY <1>3
  <2> QED
      BY <1>4, <2>2, <2>3, <2>4 DEF GoodLine
<1>6. req # None /\ m + 1 \in 0 .. Beats
    BY <1>1 DEF Inv, TypeOK
<1> QED
    BY <1>4, <1>5, <1>6, OursPersists

\* A line that a last beat completes is live only if the edge responds with it.
LEMMA LastBeatResponds ==
    ASSUME Inv, NEW external \in BOOLEAN, NEW own \in BOOLEAN,
           Control(external), Around(external, own), Settling', LastBeat,
           ~SnoopedSet(SetOf(Ours))
    PROVE  ~Conflict /\ RefillLast
<1>1. ~wrapping /\ ~Flood /\ ~external /\ state = "refill" /\ req.cacheable /\ Taken
    BY SettledEdge DEF LastBeat
<1>2. ~Conflict
    BY DEF Conflict, SnoopedSet, Ours
<1> QED
    BY <1>1, <1>2 DEF Control, ClearAfterWrap, Abort, ClearAll, InitSet, Idle, Accept,
       Lookup, Compare, SelectHit, SelectMiss, Assemble, RefillWait, RefillBeat, RefillDirect, Retire

\* The line in selected_line_reg after an edge was there before it, or is new.
LEMMA SelectedKept ==
    ASSUME Inv, NEW external \in BOOLEAN, NEW own \in BOOLEAN,
           Control(external), Around(external, own), Settling', selected' # None
    PROVE  \/ /\ selected' = selected /\ ~Writing
              /\ selected.line \notin Snooped /\ ~SnoopedSet(SetOf(selected.line))
           \/ SelectHit /\ ~Conflict /\ selected' = [line |-> Ours, words |-> held]
           \/ RefillLast /\ ~Conflict /\ selected' = [line |-> Ours, words |-> Append(held, port.answer)]
<1>1. ~wrapping /\ ~Flood /\ ~external
    BY SettledEdge
<1>2. \/ selected' = selected
      \/ SelectHit /\ selected' = [line |-> Ours, words |-> held]
      \/ RefillLast /\ selected' = [line |-> Ours, words |-> Append(held, port.answer)]
    BY SelectedStep DEF Inv
<1>3. \E next, invalidate : Selecting(next, invalidate)
  <2>1. CASE ClearAfterWrap(external) \/ Abort(external) \/ ClearAll(external)
      BY <2>1 DEF ClearAfterWrap, Abort, ClearAll
  <2>2. CASE InitSet \/ Idle \/ Accept \/ Lookup \/ Compare \/ SelectMiss \/ SelectHit
      BY <2>2 DEF InitSet, Idle, Accept, Lookup, Compare, SelectMiss, SelectHit, Stay
  <2>3. CASE Assemble \/ RefillWait \/ RefillBeat \/ RefillLast \/ RefillDirect \/ Retire
      BY <2>3 DEF Assemble, RefillWait, RefillBeat, RefillLast, RefillDirect, Retire, Stay
  <2> QED
      BY <2>1, <2>2, <2>3 DEF Control
<1>4. ~Writing /\ (selected # None => ~SnoopedSet(SetOf(selected.line)))
    BY <1>3 DEF Selecting
<1>5. ASSUME SelectHit \/ RefillLast, selected' # selected PROVE ~Conflict
  <2>1. ~Abort(external) \/ selected' \in {selected, None}
      BY SelectedIs DEF Abort
  <2> QED
      BY <1>1, <1>5, <2>1 DEF Control, ClearAfterWrap, ClearAll, Calm
<1>6. CASE selected' = selected
  <2>1. ~SnoopedSet(SetOf(selected.line))
      BY <1>4, <1>6
  <2> QED
      BY <1>4, <1>6, <2>1 DEF SnoopedSet
<1> QED
    BY <1>2, <1>5, <1>6

-----------------------------------------------------------------------------
(* Live copies are good and agree. *)

\* A live line was good, or is the one that a refill completes.
LEMMA LiveGood ==
    ASSUME Inv, NEW external \in BOOLEAN, NEW own \in BOOLEAN,
           Control(external), Around(external, own), TypeOK', Settling',
           NEW s \in Set, NEW w \in Way, Live(s, w)',
           NEW l \in Line, NEW words \in Words, ram'[s][w].line = l, ram'[s][w].words = words
    PROVE  GoodLine(l, words)'
<1>1. /\ ~SnoopedSet(s) /\ state # "init" /\ ~wrapping /\ ~external /\ ~Flood
      /\ Writing => s # SetOf(LineOf(ask.word))
    BY LiveStep, SettledEdge
<1>2. Beats \in 0 .. Beats /\ words \in [1 .. Beats -> Version]
    BY CacheAssumption DEF Words
<1>3. CASE Live(s, w) /\ ram'[s][w] = ram[s][w] /\ SetOf(ram[s][w].line) = s
  <2>1. ram[s][w].line = l /\ ram[s][w].words = words /\ SetOf(l) = s
      BY <1>3
  <2>2. GoodLine(l, words)
      BY <1>1, <1>3, <2>1 DEF Inv, CopyInv, Settling
  <2>3. l \notin Snooped /\ (Writing => LineOf(ask.word) # l)
      BY <1>1, <2>1 DEF SnoopedSet
  <2>4. ASSUME NEW i \in 1 .. Beats, Loaded, ask.word = WordAt(l, i), ask.op = "load"
        PROVE  LoadedVersion = words[i]
    <3>1. LineOf(ask.word) = l /\ Place(ask.word) = i
        BY <2>4, Geometry
    <3>2. words[i] \in Copies(ask.word)
        BY <1>3, <2>1, <3>1 DEF Copies
    <3> QED
        BY <2>4, <3>2, LoadedAgrees
  <2> QED
      BY <1>1, <1>2, <2>2, <2>3, <2>4, LinePersists
<1>4. CASE LastBeat /\ s = SetOf(Ours) /\ w = victim /\ ram'[s][w] = Installed
  <2>1. ~Conflict
      BY <1>1, <1>4, LastBeatResponds
  <2>2. l = Ours /\ words = Append(held, port.answer)
      BY <1>4 DEF Installed, Ours
  <2> QED
      BY <1>1, <1>4, <2>1, <2>2, BeatPersists DEF LastBeat
<1> QED
    BY <1>3, <1>4, LiveStep

\* The line in selected_line_reg was good, or is the one of the request.
LEMMA SelectedGood ==
    ASSUME Inv, NEW external \in BOOLEAN, NEW own \in BOOLEAN,
           Control(external), Around(external, own), TypeOK', Settling', selected' # None,
           NEW l \in Line, NEW words \in Words, selected'.line = l, selected'.words = words
    PROVE  GoodLine(l, words)'
<1>1. ~wrapping /\ ~external /\ ~Flood
    BY SettledEdge
<1>2. state # "init"
    BY SettledEdge
<1>3. Beats \in 0 .. Beats /\ words \in [1 .. Beats -> Version]
    BY CacheAssumption DEF Words
<1>4. CASE /\ selected' = selected /\ ~Writing
           /\ selected.line \notin Snooped
  <2>1. selected # None /\ selected.line = l /\ selected.words = words
      BY <1>4
  <2>2. GoodLine(l, words)
      BY <1>1, <1>2, <2>1 DEF Inv, CopyInv, Settling
  <2>3. ASSUME NEW i \in 1 .. Beats, Loaded, ask.word = WordAt(l, i), ask.op = "load"
        PROVE  LoadedVersion = words[i]
    <3>1. LineOf(ask.word) = l /\ Place(ask.word) = i
        BY <2>3, Geometry
    <3>2. words[i] \in Copies(ask.word)
        BY <2>1, <3>1 DEF Copies
    <3> QED
        BY <2>3, <3>2, LoadedAgrees
  <2> QED
      BY <1>1, <1>3, <1>4, <2>1, <2>2, <2>3, LinePersists
<1>5. CASE SelectHit /\ ~Conflict /\ selected' = [line |-> Ours, words |-> held]
  <2>1. state = "select" /\ held # None /\ req # None /\ l = Ours /\ words = held
      BY <1>5 DEF SelectHit, Inv, TypeOK
  <2>2. GoodLine(l, words)
      BY <1>1, <2>1 DEF Inv, HeldInv, HeldCopy
  <2> QED
      BY <1>1, <1>3, <1>5, <2>1, <2>2, OursPersists
<1>6. CASE RefillLast /\ ~Conflict /\ selected' = [line |-> Ours, words |-> Append(held, port.answer)]
  <2>1. l = Ours /\ words = Append(held, port.answer)
      BY <1>6
  <2> QED
      BY <1>1, <1>6, <2>1, BeatPersists DEF RefillLast, LastBeat
<1> QED
    BY <1>4, <1>5, <1>6, SelectedKept

\* While a cacheable refill completes no other copy of its line is live.
LEMMA RefillAlone ==
    ASSUME Inv, ~wrapping, LastBeat
    PROVE  Elsewhere /\ \A w \in Way : ~OursIn(w)
    BY DEF Inv, HeldInv, LastBeat

\* After an edge the live copies are good and the same.
LEMMA CopyStep ==
    ASSUME Inv, NEW external \in BOOLEAN, NEW own \in BOOLEAN,
           Control(external), Around(external, own), TypeOK'
    PROVE  CopyInv'
<1> SUFFICES ASSUME Settling' PROVE
      /\ \A s \in Set, w \in Way : Live(s, w)' =>
           /\ GoodLine(ram[s][w].line, ram[s][w].words)'
           /\ \A v \in Way : Live(s, v)' /\ ram'[s][v].line = ram'[s][w].line => v = w
           /\ selected' # None /\ selected'.line = ram'[s][w].line => selected'.words = ram'[s][w].words
      /\ selected' # None => GoodLine(selected.line, selected.words)'
    BY DEF CopyInv
<1>0. ~wrapping
    BY SettledEdge
<1>1. ASSUME NEW s \in Set, NEW w \in Way, Live(s, w)'
      PROVE  GoodLine(ram[s][w].line, ram[s][w].words)'
  <2>1. PICK l \in Line, words \in Words : ram'[s][w].line = l /\ ram'[s][w].words = words
    <3>1. ram'[s][w] \in Entry
        BY <1>1 DEF TypeOK, Live
    <3> QED
        BY <3>1 DEF Entry
  <2>2. GoodLine(l, words)'
      BY <1>1, <2>1, LiveGood
  <2> QED
      BY <2>1, <2>2 DEF GoodLine, Good, Due, Dropping
<1>2. ASSUME NEW s \in Set, NEW w \in Way, Live(s, w)', NEW v \in Way, Live(s, v)',
             ram'[s][v].line = ram'[s][w].line
      PROVE  v = w
  <2>1. state # "init"
      BY <1>2, LiveStep
  <2>2. ASSUME NEW a \in Way, NEW b \in Way, Live(s, a), ram'[s][a] = ram[s][a],
               LastBeat, s = SetOf(Ours), ram'[s][b] = Installed,
               ram'[s][a].line = ram'[s][b].line
        PROVE  FALSE
    <3>1. ram[s][a].line = Ours
        BY <2>2 DEF Installed, Ours
    <3> QED
        BY <1>0, <2>2, <3>1, RefillAlone DEF OursIn
  <2>3. \/ Live(s, w) /\ ram'[s][w] = ram[s][w]
        \/ LastBeat /\ s = SetOf(Ours) /\ w = victim /\ ram'[s][w] = Installed
      BY <1>2, LiveStep
  <2>4. \/ Live(s, v) /\ ram'[s][v] = ram[s][v]
        \/ LastBeat /\ s = SetOf(Ours) /\ v = victim /\ ram'[s][v] = Installed
      BY <1>2, LiveStep
  <2>5. CASE Live(s, w) /\ ram'[s][w] = ram[s][w] /\ Live(s, v) /\ ram'[s][v] = ram[s][v]
      BY <1>0, <1>2, <2>1, <2>5 DEF Inv, CopyInv, Settling
  <2> QED
      BY <1>2, <2>2, <2>3, <2>4, <2>5
<1>3. ASSUME NEW s \in Set, NEW w \in Way, Live(s, w)', selected' # None,
             selected'.line = ram'[s][w].line
      PROVE  selected'.words = ram'[s][w].words
  <2>1. state # "init" /\ ~SnoopedSet(s)
      BY <1>3, LiveStep
  <2>2. CASE Live(s, w) /\ ram'[s][w] = ram[s][w] /\ SetOf(ram[s][w].line) = s
    <3>1. CASE selected' = selected
        BY <1>0, <1>3, <2>1, <2>2, <3>1 DEF Inv, CopyInv, Settling
    <3>2. CASE SelectHit /\ selected' = [line |-> Ours, words |-> held]
      <4>1. ram[s][w].line = Ours /\ OursIn(w) /\ s = SetOf(Ours)
          BY <1>3, <2>2, <3>2 DEF OursIn
      <4>2. HeldCopy
          BY <1>0, <3>2 DEF Inv, HeldInv, SelectHit
      <4> QED
          BY <2>2, <3>2, <4>1, <4>2 DEF HeldCopy
    <3>3. CASE RefillLast /\ selected' = [line |-> Ours, words |-> Append(held, port.answer)]
      <4>1. OursIn(w)
          BY <1>3, <2>2, <3>3 DEF OursIn
      <4> QED
          BY <1>0, <3>3, <4>1, RefillAlone DEF RefillLast
    <3> QED
        BY <1>3, <3>1, <3>2, <3>3, SelectedKept
  <2>3. CASE LastBeat /\ s = SetOf(Ours) /\ ram'[s][w] = Installed
    <3>1. ram'[s][w].line = Ours /\ ram'[s][w].words = Append(held, port.answer)
        BY <2>3 DEF Installed, Ours
    <3>2. CASE selected' = selected
        BY <1>0, <1>3, <2>3, <3>1, <3>2, RefillAlone DEF Elsewhere
    <3>3. CASE SelectHit
        BY <2>3, <3>3 DEF SelectHit, LastBeat
    <3>4. CASE selected' = [line |-> Ours, words |-> Append(held, port.answer)]
        BY <3>1, <3>4
    <3> QED
        BY <1>3, <3>2, <3>3, <3>4, SelectedKept
  <2> QED
      BY <1>3, <2>2, <2>3, LiveStep
<1>4. ASSUME selected' # None PROVE GoodLine(selected.line, selected.words)'
  <2>1. PICK l \in Line, words \in Words : selected'.line = l /\ selected'.words = words
    <3>1. selected' \in Copy
        BY <1>4 DEF TypeOK
    <3> QED
        BY <3>1 DEF Copy
  <2>2. GoodLine(l, words)'
      BY <1>4, <2>1, SelectedGood
  <2> QED
      BY <2>1, <2>2 DEF GoodLine, Good, Due, Dropping
<1> QED
    BY <1>1, <1>2, <1>3, <1>4

-----------------------------------------------------------------------------
(* What a request has collected. *)

\* An edge after which a request is in the controller interrupts nothing.
LEMMA Going ==
    ASSUME Inv, NEW external \in BOOLEAN, NEW own \in BOOLEAN,
           Control(external), Around(external, own), ~wrapping', state' \notin {"init", "idle"}
    PROVE  /\ Settling' /\ ~wrapping /\ ~external /\ ~Flood /\ ~Conflict
           /\ \/ Accept \/ Lookup \/ Compare \/ SelectHit \/ SelectMiss \/ Assemble
              \/ RefillWait \/ RefillBeat \/ RefillLast \/ RefillDirect
<1>1. Settling'
    BY DEF Settling
<1>2. ~wrapping /\ ~external /\ ~Flood
    BY <1>1, SettledEdge
<1>3. Calm(external) /\ (\/ InitSet \/ Idle \/ Accept \/ Lookup \/ Compare
                          \/ SelectHit \/ SelectMiss \/ Assemble
                          \/ RefillWait \/ RefillBeat \/ RefillLast \/ RefillDirect
                          \/ Retire)
    BY DEF Control, ClearAfterWrap, ClearAll, Walk, Abort
<1>4. ~InitSet /\ ~Idle /\ ~Retire
    BY DEF InitSet, Idle, Retire
<1> QED
    BY <1>1, <1>2, <1>3, <1>4 DEF Calm

\* While a request goes on and completes no line, its line is live in no more ways.
LEMMA OursKept ==
    ASSUME Inv, NEW external \in BOOLEAN, NEW own \in BOOLEAN,
           Control(external), Around(external, own), Settling',
           req # None, req' = req, NEW l \in Line, l = Ours
    PROVE  /\ Ours' = l /\ SetOf(l) \in Set
           /\ ~LastBeat => ram' = ram
           /\ \A w \in Way : OursIn(w)' => /\ Live(SetOf(l), w)' /\ ram'[SetOf(l)][w].line = l
                                           /\ ~LastBeat => OursIn(w)
           /\ Elsewhere /\ selected' \in {selected, None} => Elsewhere'
<1>1. Ours' = l /\ SetOf(l) \in Set /\ ~Writing /\ state # "init"
    BY Shown DEF Inv, Ours, TypeOK
<1>2. ~LastBeat => ram' = ram
    BY <1>1, RamStep DEF Inv, Around
<1>3. PICK s \in Set : s = SetOf(l)
    BY <1>1
<1>4. ASSUME NEW w \in Way, OursIn(w)'
      PROVE  /\ Live(s, w)' /\ ram'[s][w].line = l
             /\ ~LastBeat => OursIn(w)
  <2>1. Live(s, w)' /\ ram'[s][w].line = l
      BY <1>1, <1>3, <1>4 DEF OursIn, Live
  <2>2. ~LastBeat => Live(s, w)
      BY <2>1, LiveStep
  <2> QED
      BY <1>2, <1>3, <2>1, <2>2 DEF OursIn
<1>5. Elsewhere /\ selected' \in {selected, None} => Elsewhere'
    BY <1>1 DEF Elsewhere
<1> QED
    BY <1>1, <1>2, <1>3, <1>4, <1>5

\* The ways that match are those in which the line of the request is live.
LEMMA HitsAreOurs ==
    ASSUME Inv, ~wrapping, state = "compare", NEW w \in Way
    PROVE  Matching(w) <=> req.cacheable /\ OursIn(w)
    BY DEF Inv, HeldInv, Matching, OursIn, Live, Ours

\* The last hit holds the line, and it is the only one.
LEMMA CompareFinds ==
    ASSUME Inv, ~wrapping, Compare
    PROVE  \/ held' = None /\ (req.cacheable => \A w \in Way : ~OursIn(w))
           \/ /\ held' \in Words /\ req.cacheable /\ GoodLine(Ours, held')
              /\ \A w \in Way : OursIn(w) => ram[SetOf(Ours)][w].words = held'
<1> DEFINE hits == {w \in Way : Matching(w)}
<1>1. state = "compare" /\ held' = IF hits = {} THEN None ELSE held[Max(hits)].words
    BY DEF Compare
<1>2. \A w \in Way : Matching(w) <=> req.cacheable /\ OursIn(w)
    BY <1>1, HitsAreOurs
<1>3. CASE hits = {}
    BY <1>1, <1>2, <1>3
<1>4. CASE hits # {}
  <2>1. hits \in SUBSET (0 .. Ways - 1) /\ Ways - 1 \in Nat
      BY CacheAssumption DEF Way
  <2> DEFINE m == Max(hits)
  <2>2. m \in hits
      BY <1>4, <2>1, MaxIs
  <2> HIDE DEF m
  <2>3. m \in Way /\ req.cacheable /\ OursIn(m)
      BY <1>2, <2>2
  <2>4. SetOf(Ours) \in Set
      BY <1>1, Shown DEF Inv, TypeOK
  <2>5. held' = ram[SetOf(Ours)][m].words
      BY <1>1, <1>4 DEF m, Inv, HeldInv
  <2>6. ram[SetOf(Ours)][m] \in Entry
      BY <2>3, <2>4 DEF OursIn, Live, Inv, TypeOK
  <2>7. /\ GoodLine(ram[SetOf(Ours)][m].line, ram[SetOf(Ours)][m].words)
        /\ \A v \in Way : Live(SetOf(Ours), v) /\ ram[SetOf(Ours)][v].line = ram[SetOf(Ours)][m].line => v = m
      BY <1>1, <2>3, <2>4 DEF OursIn, Inv, CopyInv, Settling
  <2>8. GoodLine(Ours, held')
      BY <2>3, <2>5, <2>7 DEF OursIn
  <2>9. \A w \in Way : OursIn(w) => ram[SetOf(Ours)][w].words = held'
      BY <2>3, <2>5, <2>7 DEF OursIn
  <2> QED
      BY <2>3, <2>5, <2>6, <2>8, <2>9 DEF Entry
<1> QED
    BY <1>3, <1>4

\* A request that is accepted finds the tags of its set, and its line not selected.
LEMMA HeldAccept ==
    ASSUME Inv, NEW external \in BOOLEAN, NEW own \in BOOLEAN,
           Control(external), Around(external, own), TypeOK', ~wrapping', Accept
    PROVE  HeldInv'
<1>1. /\ state = "idle" /\ state' = "lookup" /\ Reading /\ ~SelectedHit
      /\ req' = [word |-> ask.word, cacheable |-> ask.op = "load"]
      /\ held' = ram[SetOf(LineOf(ask.word))]
      /\ selected' \in {selected, None}
    BY SelectedIs DEF Accept
<1>2. ram' = ram
    BY <1>1, RamStep DEF Inv, Around, Reading, Writing, LastBeat
<1>3. held' = ram'[SetOf(Ours')]
    BY <1>1, <1>2 DEF Ours
<1>4. ASSUME req'.cacheable PROVE Elsewhere'
  <2>1. ask.op = "load"
      BY <1>1, <1>4
  <2> QED
      BY <1>1, <2>1 DEF Elsewhere, SelectedHit, Ours
<1> QED
    BY <1>1, <1>3, <1>4 DEF HeldInv

\* The tags stay while they are looked up; the words are those of the only hit.
LEMMA HeldLookup ==
    ASSUME Inv, NEW external \in BOOLEAN, NEW own \in BOOLEAN,
           Control(external), Around(external, own), TypeOK', ~wrapping', Lookup \/ Compare
    PROVE  HeldInv'
<1>0. /\ state \in {"lookup", "compare"} /\ state' \in {"compare", "select"} /\ req # None
      /\ req' = req /\ selected' \in {selected, None} /\ ~LastBeat
    BY SelectedIs DEF Lookup, Compare, Stay, LastBeat, Inv, TypeOK
<1>1. Settling' /\ ~wrapping /\ ~external /\ ~Flood /\ ~Conflict
    BY <1>0, Going
<1>2. PICK l \in Line : l = Ours
    BY <1>0, Shown DEF Inv
<1>3. /\ Ours' = l /\ ram' = ram /\ SetOf(l) \in Set
      /\ \A w \in Way : OursIn(w)' => OursIn(w)
    BY <1>0, <1>1, <1>2, OursKept
<1>4. req.cacheable => Elsewhere /\ Elsewhere'
  <2>1. req.cacheable => Elsewhere
      BY <1>0, <1>1 DEF Inv, HeldInv
  <2> QED
      BY <1>0, <1>1, <1>2, <2>1, OursKept
<1>5. CASE Lookup
  <2>1. state = "lookup" /\ state' = "compare" /\ held' = held
      BY <1>5 DEF Lookup
  <2>2. held = ram[SetOf(l)]
      BY <1>1, <1>2, <2>1 DEF Inv, HeldInv
  <2> QED
      BY <1>0, <1>3, <1>4, <2>1, <2>2 DEF HeldInv
<1>6. CASE Compare
  <2>1. state' = "select"
      BY <1>6 DEF Compare
  <2>2. CASE held' = None /\ (req.cacheable => \A w \in Way : ~OursIn(w))
      BY <1>0, <1>3, <1>4, <2>1, <2>2 DEF HeldInv
  <2>3. CASE /\ held' \in Words /\ req.cacheable /\ GoodLine(Ours, held')
             /\ \A w \in Way : OursIn(w) => ram[SetOf(Ours)][w].words = held'
    <3>1. PICK words \in Words : words = held'
        BY <2>3
    <3>2. words \in [1 .. Beats -> Version] /\ Beats \in 0 .. Beats
        BY CacheAssumption DEF Words
    <3>3. GoodLine(l, words)'
        BY <1>0, <1>1, <1>2, <2>3, <3>1, <3>2, OursPersists
    <3>4. GoodLine(Ours, held)'
        BY <1>3, <3>1, <3>3 DEF GoodLine, Good, Due, Dropping
    <3>5. \A w \in Way : OursIn(w)' => ram'[SetOf(l)][w].words = held'
        BY <1>2, <1>3, <2>3
    <3>6. HeldCopy'
        BY <1>0, <1>3, <2>3, <3>4, <3>5 DEF HeldCopy
    <3>7. held' # None
        BY <2>3, NoneAssumption
    <3> QED
        BY <1>0, <1>4, <2>1, <3>6, <3>7 DEF HeldInv
  <2> QED
      BY <1>1, <1>6, <2>2, <2>3, CompareFinds
<1> QED
    BY <1>5, <1>6

\* A hit becomes the selected line, and the answer of every copy of the word.
LEMMA HeldHit ==
    ASSUME Inv, NEW external \in BOOLEAN, NEW own \in BOOLEAN,
           Control(external), Around(external, own), TypeOK', ~wrapping', SelectHit \/ Assemble
    PROVE  HeldInv'
<1>0. /\ state \in {"select", "assemble"} /\ state' \in {"assemble", "done"} /\ req # None
      /\ req' = req /\ ~LastBeat
    BY DEF SelectHit, Assemble, LastBeat, Inv, TypeOK
<1>1. Settling' /\ ~wrapping /\ ~external /\ ~Flood /\ ~Conflict
    BY <1>0, Going
<1>2. PICK l \in Line : l = Ours
    BY <1>0, Shown DEF Inv
<1>3. /\ Ours' = l /\ ram' = ram /\ SetOf(l) \in Set
      /\ \A w \in Way : OursIn(w)' => OursIn(w)
    BY <1>0, <1>1, <1>2, OursKept
<1>4. HeldCopy
    BY <1>0, <1>1 DEF Inv, HeldInv, SelectHit, Assemble
<1>5. PICK words \in Words : words = held
    BY <1>0 DEF SelectHit, Assemble, Inv, TypeOK, HeldType
<1>6. words \in [1 .. Beats -> Version] /\ Beats \in 0 .. Beats
    BY CacheAssumption DEF Words
<1>7. GoodLine(l, words) /\ GoodLine(l, words)'
  <2>1. GoodLine(l, words)
      BY <1>2, <1>4, <1>5 DEF HeldCopy
  <2> QED
      BY <1>0, <1>1, <1>2, <1>6, <2>1, OursPersists
<1>8. \A w \in Way : OursIn(w)' => ram'[SetOf(l)][w].words = words
    BY <1>2, <1>3, <1>4, <1>5 DEF HeldCopy
<1>9. CASE SelectHit
  <2>1. state' = "assemble" /\ held' = words /\ selected' \in {None, [line |-> l, words |-> words]}
      BY <1>2, <1>5, <1>9, SelectedIs DEF SelectHit, Ours
  <2>2. GoodLine(Ours, held)'
      BY <1>3, <1>7, <2>1 DEF GoodLine, Good, Due, Dropping
  <2>3. HeldCopy'
      BY <1>0, <1>3, <1>4, <1>8, <2>1, <2>2 DEF HeldCopy
  <2>4. Elsewhere' \/ selected'.words = held'
      BY <2>1 DEF Elsewhere
  <2> QED
      BY <2>1, <2>3, <2>4 DEF HeldInv
<1>10. CASE Assemble
  <2>1. PICK x \in Word : x = req.word
      BY <1>0, Shown DEF Inv, Current
  <2>2. PICK i \in 1 .. Beats : i = Place(x) /\ WordAt(l, i) = x
      BY <1>2, <2>1, Geometry DEF Ours
  <2>3. /\ state' = "done" /\ response' = [word |-> x, version |-> words[i]]
        /\ selected' \in {selected, None}
      BY <1>5, <1>10, <2>1, <2>2, SelectedIs DEF Assemble
  <2>4. Good(WordAt(l, i), words[i])'
      BY <1>6, <1>7, <2>2 DEF GoodLine
  <2>5. Good(req.word, response.version)'
      BY <1>0, <2>1, <2>2, <2>3, <2>4 DEF Good, Due, Dropping
  <2>6. selected' # None /\ selected'.line = l => selected'.words = words
    <3>1. Elsewhere \/ selected.words = held
        BY <1>1, <1>10 DEF Inv, HeldInv, Assemble
    <3> QED
        BY <1>2, <1>5, <2>3, <3>1 DEF Elsewhere
  <2>7. LineOf(x) = l
      BY <1>2, <2>1 DEF Ours
  <2>8. \A w \in Way : Live(SetOf(l), w)' /\ ram'[SetOf(l)][w].line = l => ram'[SetOf(l)][w].words = words
      BY <1>3, <1>8 DEF OursIn, Live
  <2>9. \A v \in Copies(req.word)' : v = words[i]
      BY <1>0, <2>1, <2>2, <2>6, <2>7, <2>8 DEF Copies, Live
  <2> QED
      BY <2>3, <2>5, <2>9 DEF HeldInv
<1> QED
    BY <1>9, <1>10

\* A refill starts with nothing, and adds good beats while no copy of its line is live.
LEMMA HeldRefill ==
    ASSUME Inv, NEW external \in BOOLEAN, NEW own \in BOOLEAN,
           Control(external), Around(external, own), TypeOK', ~wrapping',
           SelectMiss \/ RefillWait \/ RefillBeat
    PROVE  HeldInv'
<1>0. /\ state \in {"select", "refill"} /\ state' = "refill" /\ req # None
      /\ req' = req /\ ~LastBeat /\ selected' \in {selected, None} /\ (state = "select" => held = None)
    BY SelectedIs DEF SelectMiss, RefillWait, RefillBeat, LastBeat, Stay, Inv, TypeOK
<1>1. Settling' /\ ~wrapping /\ ~external /\ ~Flood /\ ~Conflict
    BY <1>0, Going
<1>2. PICK l \in Line : l = Ours
    BY <1>0, Shown DEF Inv
<1>3. /\ Ours' = l /\ SetOf(l) \in Set
      /\ \A w \in Way : OursIn(w)' => OursIn(w)
    BY <1>0, <1>1, <1>2, OursKept
<1>4. req.cacheable => Elsewhere' /\ \A w \in Way : ~OursIn(w)'
  <2>1. req.cacheable => Elsewhere /\ \A w \in Way : ~OursIn(w)
      BY <1>0, <1>1 DEF Inv, HeldInv
  <2> QED
      BY <1>0, <1>1, <1>2, <1>3, <2>1, OursKept
<1>5. GoodLine(Ours, held)' /\ (~req.cacheable => held' = <<>>)
  <2>1. CASE SelectMiss
      BY <2>1 DEF SelectMiss, GoodLine
  <2>2. CASE RefillWait
    <3>1. state = "refill" /\ held' = held
        BY <2>2 DEF RefillWait
    <3>2. PICK n \in 0 .. Beats - 1 : held \in [1 .. n -> Version]
        BY <3>1, Collected DEF Inv
    <3>3. PICK words \in [1 .. n -> Version] : words = held
        BY <3>2
    <3>4. n \in 0 .. Beats
        BY <3>2, CacheAssumption
    <3>5. GoodLine(l, words) /\ (~req.cacheable => held = <<>>)
        BY <1>1, <1>2, <3>1, <3>3 DEF Inv, HeldInv
    <3>6. GoodLine(l, words)'
        BY <1>0, <1>1, <1>2, <3>1, <3>4, <3>5, OursPersists
    <3> QED
        BY <1>3, <3>1, <3>3, <3>5, <3>6 DEF GoodLine, Good, Due, Dropping
  <2>3. CASE RefillBeat
    <3>1. state = "refill" /\ req.cacheable /\ Taken
        BY <2>3 DEF RefillBeat
    <3>2. PICK words : words = held'
        OBVIOUS
    <3>3. words = Append(held, port.answer)
        BY <2>3, <3>2 DEF RefillBeat
    <3>4. GoodLine(l, words)'
        BY <1>1, <1>2, <3>1, <3>3, BeatPersists
    <3> QED
        BY <1>3, <3>1, <3>2, <3>4 DEF GoodLine, Good, Due, Dropping
  <2> QED
      BY <2>1, <2>2, <2>3
<1> QED
    BY <1>0, <1>4, <1>5 DEF HeldInv

\* The last beat answers the load and is in the only live copies of its line; an
\* answer that bypasses the cache is good by itself.
LEMMA HeldDone ==
    ASSUME Inv, NEW external \in BOOLEAN, NEW own \in BOOLEAN,
           Control(external), Around(external, own), TypeOK', ~wrapping',
           RefillLast \/ RefillDirect
    PROVE  HeldInv'
<1>0. state = "refill" /\ state' = "done" /\ req # None /\ req' = req /\ Taken
    BY DEF RefillLast, RefillDirect, LastBeat, Inv, TypeOK
<1>1. Settling' /\ ~wrapping /\ ~external /\ ~Flood /\ ~Conflict
    BY <1>0, Going
<1>2. PICK l \in Line : l = Ours
    BY <1>0, Shown DEF Inv
<1>3. /\ Ours' = l /\ SetOf(l) \in Set
      /\ \A w \in Way : OursIn(w)' => Live(SetOf(l), w)' /\ ram'[SetOf(l)][w].line = l
    BY <1>0, <1>1, <1>2, OursKept
<1>4. PICK x \in Word : x = req.word
    BY <1>0, Shown DEF Inv, Current
<1>5. PICK i \in 1 .. Beats : i = Place(x) /\ WordAt(l, i) = x
    BY <1>2, <1>4, Geometry DEF Ours
<1>6. LineOf(x) = l
    BY <1>2, <1>4 DEF Ours
<1>7. CASE RefillLast
  <2>1. LastBeat /\ req.cacheable /\ Len(held) = Beats - 1
      BY <1>7 DEF RefillLast, LastBeat
  <2>2. PICK words : words = Append(held, port.answer)
      OBVIOUS
  <2>3. /\ response' = [word |-> x, version |-> words[i]]
        /\ selected' \in {None, [line |-> l, words |-> words]}
      BY <1>2, <1>4, <1>5, <1>7, <2>2, SelectedIs DEF RefillLast, Ours
  <2>4. GoodLine(l, words)'
      BY <1>0, <1>1, <1>2, <2>1, <2>2, BeatPersists
  <2>5. i \in DOMAIN words
    <3>1. Len(held) \in 0 .. Beats - 1 /\ held \in [1 .. Len(held) -> Version] /\ port.answer \in Version
        BY <1>0, Collected, BeatGood DEF Inv
    <3>2. DOMAIN words = 1 .. Len(held) + 1
        BY <2>2, <3>1, AppendIs
    <3> QED
        BY <2>1, <3>2, CacheAssumption
  <2>6. Good(WordAt(l, i), words[i])'
      BY <2>4, <2>5 DEF GoodLine
  <2>7. Good(req.word, response.version)'
      BY <1>0, <1>4, <1>5, <2>3, <2>6 DEF Good, Due, Dropping
  <2>8. ASSUME NEW w \in Way, Live(SetOf(l), w)', ram'[SetOf(l)][w].line = l
        PROVE  ram'[SetOf(l)][w].words = words
    <3>1. CASE Live(SetOf(l), w) /\ ram'[SetOf(l)][w] = ram[SetOf(l)][w]
        BY <1>1, <1>2, <2>1, <2>8, <3>1, RefillAlone DEF OursIn
    <3>2. CASE ram'[SetOf(l)][w] = Installed
        BY <2>2, <3>2 DEF Installed
    <3>3. PICK s \in Set : s = SetOf(l)
        BY <1>3
    <3>4. Live(s, w)'
        BY <2>8, <3>3 DEF Live
    <3> QED
        BY <1>1, <3>1, <3>2, <3>3, <3>4, LiveStep
  <2>9. \A v \in Copies(req.word)' : v = words[i]
      BY <1>0, <1>4, <1>5, <1>6, <2>3, <2>8 DEF Copies, Live
  <2> QED
      BY <1>0, <2>3, <2>7, <2>9 DEF HeldInv
<1>8. CASE RefillDirect
  <2>1. ~req.cacheable /\ response' = [word |-> req.word, version |-> port.answer]
      BY <1>8 DEF RefillDirect
  <2>2. PICK v \in Version : v = port.answer /\ Good(x, v)
      BY <1>0, <1>4, <2>1, BeatGood
  <2>3. Good(x, v)'
      BY <1>0, <1>1, <1>2, <1>6, <2>2, OursPersists
  <2>4. Good(req.word, response.version)'
      BY <1>0, <1>4, <2>1, <2>2, <2>3 DEF Good, Due, Dropping
  <2> QED
      BY <1>0, <2>1, <2>4 DEF HeldInv
<1> QED
    BY <1>7, <1>8

\* What a request has collected is good and agrees with the live copies.
LEMMA HeldStep ==
    ASSUME Inv, NEW external \in BOOLEAN, NEW own \in BOOLEAN,
           Control(external), Around(external, own), TypeOK'
    PROVE  HeldInv'
<1>1. CASE wrapping' \/ state' \in {"init", "idle"}
    BY <1>1 DEF HeldInv
<1>2. CASE ~wrapping' /\ state' \notin {"init", "idle"}
    BY <1>2, Going, HeldAccept, HeldLookup, HeldHit, HeldRefill, HeldDone
<1> QED
    BY <1>1, <1>2

-----------------------------------------------------------------------------
(* The theorems. *)

\* After reset nothing is cached, and every word is as old as its floor.
LEMMA InitInv == Init => Inv
<1> SUFFICES ASSUME Init PROVE Inv
    OBVIOUS
<1>0. /\ {Sets, Ways, Beats, Lines, MaxVersion} \subseteq Nat \ {0} /\ Epochs \in Nat \ {0, 1}
      /\ Sets <= Lines
    BY CacheAssumption
<1>1. 0 \in Set /\ 0 \in Way /\ 0 \in Version /\ 0 \in Epoch /\ Set \subseteq Line
    BY <1>0 DEF Set, Way, Version, Epoch, Line
<1> DEFINE zeros == [i \in 1 .. Beats |-> 0]
           entry(s) == [line |-> s, epoch |-> FALSE, setEpoch |-> 0, words |-> zeros]
<1>2. \A s \in Set : entry(s) \in Entry
  <2>1. zeros \in Words
      BY <1>1 DEF Words
  <2> HIDE DEF zeros
  <2> QED
      BY <1>1, <2>1 DEF Entry
<1>3. ram = [s \in Set |-> [w \in Way |-> entry(s)]]
    BY DEF Init
<1> HIDE DEF entry
<1>4. ram \in [Set -> [Way -> Entry \cup {None}]]
    BY <1>2, <1>3
<1>5. /\ setEpoch \in [Set -> Epoch] /\ mem \in [Word -> Version] /\ floor \in [Word -> Version]
      /\ peer \in [Peer -> PeerStore \cup {None}]
    BY <1>1 DEF Init
<1>6. TypeOK
  <2>1. state = "init" /\ req = None /\ held = None /\ response = None
      BY DEF Init
  <2>2. HeldType = {None}
      BY <2>1 DEF HeldType
  <2>3. state \in State /\ (state \in {"init", "idle"} <=> req = None) /\ (response # None <=> state = "done")
      BY <2>1 DEF State
  <2>4. /\ ask = None /\ selected = None /\ port = None /\ victim \in Way /\ initSet \in Set
        /\ dma \subseteq Shared /\ performed \in 0 .. 2
      BY <1>1 DEF Init
  <2>5. tagEpoch \in BOOLEAN /\ wrapping \in BOOLEAN
      BY DEF Init
  <2> QED
      BY <1>4, <1>5, <2>1, <2>2, <2>3, <2>4, <2>5 DEF TypeOK
<1>7. WalkInv /\ HistoryInv
    BY <1>1 DEF Init, WalkInv, HistoryInv, Set
<1> QED
    BY <1>6, <1>7 DEF Init, Inv, RequestInv, PortInv, EpochInv, CopyInv, HeldInv, Settling

\* Every edge, and every step that leaves the variables alone, keeps the invariant.
LEMMA InvStep == Inv /\ [Next]_vars => Inv'
<1> SUFFICES ASSUME Inv, [Next]_vars PROVE Inv'
    OBVIOUS
<1>1. CASE Next
  <2>1. PICK own \in BOOLEAN, external \in BOOLEAN : Control(external) /\ Around(external, own)
      BY <1>1 DEF Next, Edge
  <2>2. TypeOK'
      BY <2>1, TypeStep DEF Inv
  <2>3. RequestInv' /\ WalkInv'
      BY <2>1, RequestStep, WalkStep DEF Inv
  <2>4. PortInv' /\ HistoryInv'
      BY <2>1, <2>2, <2>3, TransferStep, HistoryStep
  <2>5. EpochInv' /\ CopyInv' /\ HeldInv'
      BY <2>1, <2>2, EpochStep, CopyStep, HeldStep
  <2> QED
      BY <2>2, <2>3, <2>4, <2>5 DEF Inv
<1>2. CASE UNCHANGED vars
  <2> USE <1>2 DEF vars, l1Vars
  <2>1. TypeOK'
      BY DEF Inv, TypeOK, HeldType
  <2>2. RequestInv' /\ WalkInv' /\ HistoryInv' /\ EpochInv'
      BY DEF Inv, RequestInv, WalkInv, HistoryInv, EpochInv, Settling
  <2>3. \A x, v : Good(x, v)' <=> Good(x, v)
      BY DEF Good, Due, Dropping, Announced
  <2>4. PortInv'
      BY DEF Inv, PortInv, Good, Due, Dropping, Announced, Driven, Writing, Busy
  <2>5. CopyInv'
      BY DEF Inv, CopyInv, Settling, Live, GoodLine, Good, Due, Dropping, Announced
  <2>6. HeldInv'
    <3>1. Ours' = Ours /\ (Elsewhere' <=> Elsewhere) /\ \A w : OursIn(w)' <=> OursIn(w)
        BY DEF Ours, Elsewhere, OursIn, Live
    <3>2. GoodLine(Ours, held)' <=> GoodLine(Ours, held)
        BY DEF GoodLine, Ours, Good, Due, Dropping, Announced
    <3>3. HeldCopy' <=> HeldCopy
        BY <3>1, <3>2 DEF HeldCopy
    <3>4. Good(req.word, response.version)' <=> Good(req.word, response.version)
        BY DEF Good, Due, Dropping, Announced
    <3>5. Copies(req.word)' = Copies(req.word)
        BY DEF Copies, Live
    <3> QED
        BY <3>1, <3>2, <3>3, <3>4, <3>5 DEF Inv, HeldInv
  <2> QED
      BY <2>1, <2>2, <2>4, <2>5, <2>6 DEF Inv
<1> QED
    BY <1>1, <1>2

\* The tags, the copies, the mailbox and the history stay in step, whatever the order
\* of the stores, of their announcements and of the answers.
THEOREM InvariantHolds == Spec => []Inv
<1>1. Init => Inv
    BY InitInv
<1>2. Inv /\ [Next]_vars => Inv'
    BY InvStep
<1> QED
    BY <1>1, <1>2, PTL DEF Spec

\* Every register, tag and word has its type: what a request has collected is that of
\* its state, and a response is valid in the last state only (L1CacheController.h).
THEOREM TypeCorrect == Spec => []TypeOK
<1>1. Inv => TypeOK
    BY DEF Inv
<1> QED
    BY <1>1, InvariantHolds, PTL

\* A load returns nothing that is older than a store announced to the core, a store of
\* its own, or a value that it loaded before (L1CacheController.h, the snoop).
THEOREM CoherentHolds == Spec => []Coherent
<1>1. Inv => Coherent
  <2> SUFFICES ASSUME Inv, Loaded PROVE LoadedVersion >= floor[ask.word]
      BY DEF Coherent
  <2>1. ask # None /\ ask.word \in Word /\ Good(ask.word, LoadedVersion)
      BY LoadedGood
  <2>2. floor[ask.word] <= LoadedVersion
      BY <2>1 DEF Good, Dropping
  <2>3. LoadedVersion \in Nat /\ floor[ask.word] \in Nat
      BY <2>1, Numbers, Shown DEF Inv
  <2> QED
      BY <2>2, <2>3
<1> QED
    BY <1>1, InvariantHolds, PTL

\* A copy that memory has outrun is about to be dropped: the store that made it stale is
\* still to be announced to the core, or is the core's own (TribeTestModule.h).
THEOREM StaleIsAnnouncedHolds == Spec => []StaleIsAnnounced
<1>1. Inv => StaleIsAnnounced
  <2> SUFFICES ASSUME Inv, ~wrapping, state # "init", NEW x \in Shared, NEW v \in Copies(x)
      PROVE  v = mem[x] \/ Due(x)
      BY DEF StaleIsAnnounced, Due
  <2>1. x \in Word
      BY CacheAssumption DEF Word
  <2>2. PICK l \in Line, i \in 1 .. Beats : l = LineOf(x) /\ i = Place(x) /\ WordAt(l, i) = x
      BY <2>1, Geometry
  <2>3. ASSUME NEW words \in Words, GoodLine(l, words) PROVE words[i] = mem[x] \/ Due(x)
    <3>1. i \in DOMAIN words
        BY DEF Words
    <3> QED
        BY <2>2, <2>3, <3>1 DEF GoodLine, Good
  <2>4. CASE \E w \in Way : Live(SetOf(l), w) /\ ram[SetOf(l)][w].line = l /\ v = ram[SetOf(l)][w].words[i]
    <3>1. PICK w \in Way : Live(SetOf(l), w) /\ ram[SetOf(l)][w].line = l /\ v = ram[SetOf(l)][w].words[i]
        BY <2>4
    <3>2. SetOf(l) \in Set
        BY Geometry
    <3>3. ram[SetOf(l)][w].words \in Words
        BY <3>1, <3>2 DEF Inv, TypeOK, Live, Entry
    <3>4. GoodLine(l, ram[SetOf(l)][w].words)
        BY <3>1, <3>2 DEF Inv, CopyInv, Settling
    <3> QED
        BY <2>3, <3>1, <3>3, <3>4
  <2>5. CASE selected # None /\ selected.line = l /\ v = selected.words[i]
    <3>1. selected.words \in Words
        BY <2>5 DEF Inv, TypeOK, Copy
    <3>2. GoodLine(l, selected.words)
        BY <2>5 DEF Inv, CopyInv, Settling
    <3> QED
        BY <2>3, <2>5, <3>1, <3>2
  <2> QED
      BY <2>2, <2>4, <2>5 DEF Copies
<1> QED
    BY <1>1, InvariantHolds, PTL
=============================================================================
