------------------------------ MODULE TaskProofs ------------------------------
(***************************************************************************)
(* Proofs about the functions of the lanes: TaskPool for any lanes, jobs,   *)
(* grains and worker budgets, and TaskSlots for any lanes, dependency       *)
(* relations and epochs that do not wrap.                                   *)
(***************************************************************************)
EXTENDS TaskPool, TaskSlots, FiniteSetTheorems, TLAPS

Place == {"out", "jobs", "claim", "exchange", "done"}
Counting == mode \in {"queue", "dynamic"}

\* The jobs a lane holds or will hold without looking at the counter, and those
\* that are left to the counter.
Mine(l) ==
    IF l \notin todo THEN Held(l)
    ELSE IF mode = "dynamic" THEN {} ELSE OwnFirst(l) .. OwnEnd(l) - 1
Left == IF owner # NoCaller /\ Counting THEN next .. count - 1 ELSE {}

PoolTypes ==
    /\ mode \in TaskModes \cup BatchModes \cup {NoMode}
    /\ count \in Nat /\ count <= MaxCount
    /\ width \in Nat \ {0} /\ grain \in Nat \ {0} /\ next \in Nat
    /\ pc \in [Lane -> Place] /\ first \in [Lane -> Nat] /\ end \in [Lane -> Nat]
    /\ ranOn \in [Job -> SUBSET Lane] /\ failed \subseteq Job
    /\ todo \subseteq Lane /\ busy \subseteq Lane

\* A lane is in its function exactly while the call has it busy, and only the lanes
\* that the call opened are.
LaneInv ==
    /\ todo \cap busy = {}
    /\ \A l \in Lane : pc[l] # "out" <=> l \in busy
    /\ owner # NoCaller =>
         /\ todo \cup busy \subseteq 0 .. width - 1
         /\ mode \in TaskModes => width <= TaskWorkers

\* Between two calls nothing of a call is left.
IdleInv ==
    owner = NoCaller =>
        /\ todo = {} /\ busy = {}
        /\ \A j \in Job : ranOn[j] = {}
        /\ failed = {} /\ error = NoJob

\* What a lane has read from the counter, and that the first lane has not left
\* it before it was used up.
ClaimInv ==
    /\ \A l \in Lane :
         /\ pc[l] = "claim" => Counting
         /\ pc[l] = "exchange" =>
              mode = "dynamic" /\ first[l] < end[l] /\ end[l] <= count
         /\ pc[l] = "jobs" => first[l] <= end[l]
         /\ pc[l] = "done" /\ Counting => count <= next
    /\ owner # NoCaller /\ Counting /\ 0 \notin todo \cup busy => count <= next

\* Each job of the call belongs to one lane, or to the counter, or was called.
ShareInv ==
    /\ \A l, k \in Lane : l # k => Mine(l) \cap Mine(k) = {}
    /\ \A l \in Lane : Mine(l) \subseteq 0 .. count - 1 /\ Mine(l) \cap Left = {}
    /\ \A j \in Job : j \in Left \/ (\E l \in Lane : j \in Mine(l)) => ranOn[j] = {}

CoverInv ==
    \A j \in Job :
        IF j < count
        THEN \/ j \in Left
             \/ \E l \in Lane : j \in Mine(l)
             \/ \E l \in Lane : l < width /\ ranOn[j] = {l}
        ELSE ranOn[j] = {}

\* The first task belongs to the caller.
FirstInv ==
    owner # NoCaller /\ mode \in TaskModes =>
        0 \in Mine(0) \/ (0 \in Job /\ ranOn[0] = {0})

\* The error is that of a job that threw, and there is one exactly if a job did.
ErrorInv ==
    owner # NoCaller => IF failed = {} THEN error = NoJob ELSE error \in failed

PoolInv ==
    /\ PoolTypes /\ LaneInv /\ IdleInv /\ ClaimInv /\ ShareInv /\ CoverInv /\ FirstInv
    /\ ErrorInv
-----------------------------------------------------------------------------
(* Arithmetic of the shares. *)

\* The least member of a set of naturals that has one.
LEMMA LeastIs ==
    ASSUME NEW S, NEW m \in S, S \subseteq Nat, \A x \in S : m <= x
    PROVE  Least(S) = m
<1>1. \E x \in S : \A y \in S : x <= y
    OBVIOUS
<1>2. Least(S) \in S /\ \A y \in S : Least(S) <= y
    BY <1>1 DEF Least
<1>3. Least(S) \in Nat /\ m \in Nat /\ Least(S) <= m /\ m <= Least(S)
    BY <1>2
<1> QED
    BY <1>3

\* std::min of two.
LEMMA LeastOfTwo ==
    ASSUME NEW a \in Nat, NEW b \in Nat
    PROVE  Least({a, b}) = IF a <= b THEN a ELSE b
<1>1. CASE a <= b
    BY <1>1, LeastIs
<1>2. CASE ~(a <= b)
    BY <1>2, LeastIs
<1> QED
    BY <1>1, <1>2

\* std::min of three is one of them and above none.
LEMMA LeastOfThree ==
    ASSUME NEW a \in Nat, NEW b \in Nat, NEW c \in Nat
    PROVE  /\ Least({a, b, c}) \in {a, b, c}
           /\ Least({a, b, c}) <= a /\ Least({a, b, c}) <= b /\ Least({a, b, c}) <= c
<1>1. \E m \in {a, b, c} : \A x \in {a, b, c} : m <= x
    OBVIOUS
<1> QED
    BY <1>1, LeastIs

\* Quotient and remainder of the static split.
LEMMA Division ==
    ASSUME NEW n \in Nat, NEW w \in Nat \ {0}
    PROVE  /\ n \div w \in Nat /\ n % w \in 0 .. w - 1
           /\ n = (n \div w) * w + (n % w)
<1>1. n \div w \in Nat /\ n % w \in 0 .. w - 1
    OBVIOUS
<1>2. n = (n \div w) * w + (n % w)
    BY SMTT(30)
<1> QED
    BY <1>1, <1>2, Zenon

\* Each natural lies in one multiple of the divisor.
LEMMA Quotient ==
    ASSUME NEW n \in Nat, NEW w \in Nat \ {0}
    PROVE  \E q \in Nat : w * q <= n /\ n < w * q + w
<1> DEFINE q == n \div w
           r == n % w
<1>1. q \in Nat /\ r \in 0 .. w - 1 /\ n = q * w + r
    BY Division
<1> HIDE DEF q, r
<1>2. q * w = w * q /\ w * q \in Nat
    BY <1>1
<1>3. w * q <= n /\ n < w * q + w
    BY <1>1, <1>2
<1> QED
    BY <1>1, <1>3

\* Multiples grow with the factor.
LEMMA Multiples ==
    ASSUME NEW w \in Nat, NEW l \in Nat, NEW k \in Nat, l <= k
    PROVE  w * l \in Nat /\ w * k \in Nat /\ w * l <= w * k
<1>1. k - l \in Nat /\ w * (k - l) \in Nat /\ w * l \in Nat
    OBVIOUS
<1>2. w * k = w * l + w * (k - l)
    OBVIOUS
<1> QED
    BY <1>1, <1>2

\* StaticFirst and StaticEnd of n jobs on w lanes.
Split(n, w, l) == (n \div w) * l + Least({l, n % w})
SplitEnd(n, w, l) == Split(n, w, l) + (n \div w) + (IF l < n % w THEN 1 ELSE 0)

\* The static split gives each lane a range behind that of the lane before it,
\* and the ranges together are the jobs.
LEMMA StaticShares ==
    ASSUME NEW n \in Nat, NEW w \in Nat \ {0}
    PROVE  /\ \A l \in 0 .. w - 1 : Split(n, w, l) \in Nat /\ SplitEnd(n, w, l) \in Nat
           /\ \A l \in 0 .. w - 1 :
                 Split(n, w, l) <= SplitEnd(n, w, l) /\ SplitEnd(n, w, l) <= n
           /\ \A l, k \in 0 .. w - 1 : l < k => SplitEnd(n, w, l) <= Split(n, w, k)
           /\ w <= n => \A j \in 0 .. n - 1 : \E l \in 0 .. w - 1 :
                 Split(n, w, l) <= j /\ j < SplitEnd(n, w, l)
<1> DEFINE W == n \div w
           E == n % w
           F(l) == W * l + (IF l <= E THEN l ELSE E)
<1>1. W \in Nat /\ E \in 0 .. w - 1 /\ n = W * w + E
    BY Division
<1>2. \A l \in Nat : Split(n, w, l) = F(l) /\ W * l \in Nat /\ F(l) \in Nat
    BY <1>1, LeastOfTwo DEF Split
<1>a. \A l \in Nat : SplitEnd(n, w, l) = F(l) + W + (IF l < E THEN 1 ELSE 0)
    BY <1>2 DEF SplitEnd
<1> HIDE DEF W, E
<1>3. \A l \in Nat : SplitEnd(n, w, l) = F(l + 1)
  <2> TAKE l \in Nat
  <2>1. W * (l + 1) = W * l + W
      BY <1>1
  <2>2. E \in Nat /\ W * l \in Nat
      BY <1>1, <1>2
  <2>3. F(l) + W + (IF l < E THEN 1 ELSE 0) = F(l + 1)
    <3>1. CASE l < E
        BY <1>1, <2>1, <2>2, <3>1
    <3>2. CASE ~(l < E)
        BY <1>1, <2>1, <2>2, <3>2
    <3> QED
        BY <3>1, <3>2
  <2> QED
      BY <1>a, <2>3
<1>4. \A l, k \in Nat : l <= k => F(l) <= F(k)
    BY <1>1, Multiples
<1>5. F(w) = n
    BY <1>1
<1>6. w <= n => \A j \in 0 .. n - 1 : \E l \in 0 .. w - 1 : F(l) <= j /\ j < F(l + 1)
  <2> SUFFICES ASSUME w <= n, NEW j \in 0 .. n - 1
               PROVE  \E l \in 0 .. w - 1 : F(l) <= j /\ j < F(l + 1)
      OBVIOUS
  <2>1. CASE j < E * (W + 1)
    <3>0. W + 1 \in Nat \ {0} /\ j \in Nat
        BY <1>1
    <3>1. PICK l \in Nat : (W + 1) * l <= j /\ j < (W + 1) * l + (W + 1)
        BY <3>0, Quotient
    <3>2. l < E
      <4> SUFFICES ASSUME E <= l PROVE FALSE
          BY <1>1, <3>1
      <4>1. (W + 1) * E <= (W + 1) * l
          BY <1>1, <3>1, Multiples
      <4>2. (W + 1) * E = E * (W + 1) /\ E * (W + 1) \in Nat /\ (W + 1) * l \in Nat
          BY <1>1, <3>1
      <4> QED
          BY <2>1, <3>1, <4>1, <4>2
    <3>3. F(l) = (W + 1) * l /\ F(l + 1) = (W + 1) * l + (W + 1)
      <4>1. (W + 1) * l = W * l + l /\ W * (l + 1) = W * l + W
          BY <1>1, <3>1
      <4> QED
          BY <1>1, <3>1, <3>2, <4>1
    <3> QED
        BY <1>1, <3>1, <3>2, <3>3
  <2>2. CASE ~(j < E * (W + 1))
    <3>0. W \in Nat \ {0}
      <4> SUFFICES ASSUME W = 0 PROVE FALSE
          BY <1>1
      <4>1. W * w = 0
          OBVIOUS
      <4> QED
          BY <1>1, <4>1
    <3>1. E * (W + 1) = W * E + E /\ W * E \in Nat
        BY <1>1
    <3>2. j - E \in Nat /\ W * E <= j - E /\ j - E < W * w
      <4>1. W * w \in Nat
          BY <1>1
      <4> QED
          BY <1>1, <2>2, <3>1, <4>1
    <3>3. PICK l \in Nat : W * l <= j - E /\ j - E < W * l + W
        BY <3>0, <3>2, Quotient
    <3>4. W * (l + 1) = W * l + W /\ W * l \in Nat
        BY <1>1, <3>3
    <3>5. E <= l
      <4> SUFFICES ASSUME l + 1 <= E PROVE FALSE
          BY <1>1, <3>3
      <4>1. W * (l + 1) <= W * E
          BY <1>1, <3>3, Multiples
      <4>2. W * l + W <= j - E
          BY <1>1, <3>1, <3>2, <3>4, <4>1
      <4> QED
          BY <1>1, <3>2, <3>3, <3>4, <4>2
    <3>6. l < w
      <4> SUFFICES ASSUME w <= l PROVE FALSE
          BY <3>3
      <4>1. W * w <= W * l
          BY <1>1, <3>3, Multiples
      <4>2. W * w \in Nat
          BY <1>1
      <4> QED
          BY <3>2, <3>3, <3>4, <4>1, <4>2
    <3>7. F(l) = W * l + E /\ F(l + 1) = W * l + W + E
        BY <1>1, <3>3, <3>4, <3>5
    <3>8. W * l + E <= j /\ j < W * l + W + E
        BY <1>1, <3>3, <3>4
    <3>9. F(l) <= j /\ j < F(l + 1) /\ l \in 0 .. w - 1
        BY <3>6, <3>7, <3>8
    <3> QED
        BY <3>9
  <2> QED
      BY <2>1, <2>2
<1>7. \A l \in 0 .. w - 1 : l \in Nat /\ l + 1 \in Nat /\ l <= l + 1 /\ l + 1 <= w
    OBVIOUS
<1>8. w \in Nat
    OBVIOUS
<1> HIDE DEF F
<1>9. \A l \in 0 .. w - 1 :
         /\ Split(n, w, l) = F(l) /\ SplitEnd(n, w, l) = F(l + 1)
         /\ F(l) \in Nat /\ F(l + 1) \in Nat /\ F(l) <= F(l + 1) /\ F(l + 1) <= n
    BY <1>2, <1>3, <1>4, <1>5, <1>7, <1>8
<1>10. \A l, k \in 0 .. w - 1 : l < k => SplitEnd(n, w, l) <= Split(n, w, k)
  <2> TAKE l, k \in 0 .. w - 1
  <2>1. l \in Nat /\ k \in Nat /\ l + 1 \in Nat /\ (l < k => l + 1 <= k)
      OBVIOUS
  <2> QED
      BY <1>4, <1>9, <2>1
<1>11. w <= n => \A j \in 0 .. n - 1 : \E l \in 0 .. w - 1 :
          Split(n, w, l) <= j /\ j < SplitEnd(n, w, l)
    BY <1>6, <1>9
<1> QED
    BY <1>9, <1>10, <1>11

\* What lane l of w owns of n jobs in mode m.
Own(m, n, w, l) ==
    CASE m = "dynamic" -> {}
      [] m = "serial" -> 0 .. n - 1
      [] m = "static" -> Split(n, w, l) .. SplitEnd(n, w, l) - 1
      [] m \in {"direct", "queue"} -> {l}

\* Before a lane starts the shares of the lanes are disjoint, together they are all jobs
\* but those of the counter, and the first task belongs to lane 0.
LEMMA OwnShares ==
    ASSUME NEW m \in TaskModes \cup BatchModes, NEW n \in Nat, NEW w \in Nat \ {0}, w <= n,
           m = "direct" => w = n, m = "serial" => w = 1
    PROVE  /\ \A l, k \in 0 .. w - 1 : l # k => Own(m, n, w, l) \cap Own(m, n, w, k) = {}
           /\ \A l \in 0 .. w - 1 :
                 Own(m, n, w, l) \subseteq 0 .. (IF m = "queue" THEN w ELSE n) - 1
           /\ m = "dynamic" => \A l : Own(m, n, w, l) = {}
           /\ \A j \in 0 .. n - 1 :
                 \/ m = "dynamic"
                 \/ m = "queue" /\ w <= j
                 \/ \E l \in 0 .. w - 1 : j \in Own(m, n, w, l)
           /\ m \in TaskModes => 0 \in Own(m, n, w, 0)
<1>1. CASE m \in {"dynamic", "serial"}
    BY <1>1 DEF Own, TaskModes, BatchModes
<1>2. CASE m \in {"direct", "queue"}
    BY <1>2 DEF Own, TaskModes, BatchModes
<1>3. CASE m = "static"
  <2>1. \A l \in 0 .. w - 1 : Own(m, n, w, l) = Split(n, w, l) .. SplitEnd(n, w, l) - 1
      BY <1>3 DEF Own
  <2>2. \A l \in 0 .. w - 1 : Own(m, n, w, l) \subseteq 0 .. n - 1
    <3> TAKE l \in 0 .. w - 1
    <3>1. PICK a \in Nat, b \in Nat : Own(m, n, w, l) = a .. b - 1 /\ b <= n
        BY <2>1, StaticShares, Zenon
    <3> QED
        BY <3>1
  <2>3. \A l, k \in 0 .. w - 1 : l < k => Own(m, n, w, l) \cap Own(m, n, w, k) = {}
    <3> SUFFICES ASSUME NEW l \in 0 .. w - 1, NEW k \in 0 .. w - 1, l < k
                 PROVE  Own(m, n, w, l) \cap Own(m, n, w, k) = {}
        OBVIOUS
    <3>1. PICK a \in Nat, b \in Nat :
             Own(m, n, w, l) = a .. b - 1 /\ b = SplitEnd(n, w, l)
        BY <2>1, StaticShares, Zenon
    <3>2. PICK c \in Nat, d \in Nat :
             Own(m, n, w, k) = c .. d - 1 /\ c = Split(n, w, k)
        BY <2>1, StaticShares, Zenon
    <3>3. SplitEnd(n, w, l) <= Split(n, w, k)
        BY StaticShares, Zenon
    <3>4. b <= c
        BY <3>1, <3>2, <3>3, Zenon
    <3> QED
        BY <3>1, <3>2, <3>4
  <2>4. \A j \in 0 .. n - 1 : \E l \in 0 .. w - 1 : j \in Own(m, n, w, l)
    <3> TAKE j \in 0 .. n - 1
    <3>1. PICK l \in 0 .. w - 1 : Split(n, w, l) <= j /\ j < SplitEnd(n, w, l)
        BY StaticShares, Zenon
    <3>2. PICK a \in Nat, b \in Nat : Own(m, n, w, l) = a .. b - 1 /\ a <= j /\ j < b
        BY <2>1, <3>1, StaticShares, Zenon
    <3> QED
        BY <3>2
  <2>5. \A l, k \in 0 .. w - 1 : l # k => l < k \/ k < l
      OBVIOUS
  <2> QED
      BY <1>3, <2>2, <2>3, <2>4, <2>5 DEF TaskModes
<1> QED
    BY <1>1, <1>2, <1>3 DEF TaskModes, BatchModes

-----------------------------------------------------------------------------
(* The shares when a step changes none of them, or one lane claims from the counter. *)

\* A step that moves no job keeps the shares.
LEMMA SharesStay ==
    ASSUME PoolInv, UNCHANGED <<owner, mode, count, width, ranOn>>,
           Left' = Left, \A l \in Lane : Mine(l)' = Mine(l)
    PROVE  ShareInv' /\ CoverInv' /\ FirstInv'
<1>1. 0 \in Lane
    BY LanesAssumption DEF Lane
<1>2. ShareInv'
  <2>1. \A l, k \in Lane : l # k => Mine(l)' \cap Mine(k)' = {}
      BY Zenon DEF PoolInv, ShareInv
  <2>2. \A l \in Lane : Mine(l)' \subseteq 0 .. count - 1 /\ Mine(l)' \cap Left' = {}
      BY Zenon DEF PoolInv, ShareInv
  <2>3. \A j \in Job : j \in Left' \/ (\E l \in Lane : j \in Mine(l)') => ranOn[j] = {}
      BY Zenon DEF PoolInv, ShareInv
  <2> QED
      BY <2>1, <2>2, <2>3 DEF ShareInv
<1>3. CoverInv'
  <2>1. \A j \in Job : (\E l \in Lane : j \in Mine(l)) => \E l \in Lane : j \in Mine(l)'
      BY Zenon
  <2> QED
      BY <2>1 DEF PoolInv, CoverInv
<1>4. FirstInv'
    BY <1>1 DEF PoolInv, FirstInv
<1> QED
    BY <1>2, <1>3, <1>4

\* A range that goes from the counter to a lane keeps the shares.
LEMMA ClaimShares ==
    ASSUME PoolInv, UNCHANGED <<owner, mode, count, width, ranOn>>,
           NEW l \in Lane, NEW S \in SUBSET Left, Mine(l) = {}, Mine(l)' = S,
           Left' = Left \ S, S \subseteq 0 .. count - 1,
           \A k \in Lane \ {l} : Mine(k)' = Mine(k)
    PROVE  ShareInv' /\ CoverInv' /\ FirstInv'
<1>1. 0 \in Lane
    BY LanesAssumption DEF Lane
<1>2. ShareInv'
  <2>1. \A k \in Lane : Mine(k)' \subseteq Mine(k) \/ (k = l /\ Mine(k)' = S)
    <3> TAKE k \in Lane
    <3>1. CASE k = l
        BY <3>1, Zenon
    <3>2. CASE k # l
      <4>1. k \in Lane \ {l}
          BY <3>2
      <4>2. Mine(k)' = Mine(k)
          BY <4>1, Zenon
      <4> QED
          BY <4>2
    <3> QED
        BY <3>1, <3>2
  <2>2. \A k, i \in Lane : k # i => Mine(k)' \cap Mine(i)' = {}
    <3> SUFFICES ASSUME NEW k \in Lane, NEW i \in Lane, k # i
                 PROVE  Mine(k)' \cap Mine(i)' = {}
        OBVIOUS
    <3>1. Mine(k) \cap Mine(i) = {} /\ Mine(k) \cap Left = {} /\ Mine(i) \cap Left = {}
        BY Zenon DEF PoolInv, ShareInv
    <3>2. Mine(k)' \subseteq Mine(k) \/ (k = l /\ Mine(k)' = S)
        BY <2>1, Zenon
    <3>3. Mine(i)' \subseteq Mine(i) \/ (i = l /\ Mine(i)' = S)
        BY <2>1, Zenon
    <3> QED
        BY <3>1, <3>2, <3>3
  <2>3. \A k \in Lane : Mine(k)' \subseteq 0 .. count - 1 /\ Mine(k)' \cap Left' = {}
    <3> TAKE k \in Lane
    <3>1. Mine(k) \subseteq 0 .. count - 1 /\ Mine(k) \cap Left = {}
        BY Zenon DEF PoolInv, ShareInv
    <3>2. Mine(k)' \subseteq Mine(k) \/ (k = l /\ Mine(k)' = S)
        BY <2>1, Zenon
    <3> QED
        BY <3>1, <3>2, Zenon
  <2>4. \A j \in Job : j \in Left' \/ (\E k \in Lane : j \in Mine(k)') => ranOn[j] = {}
    <3> TAKE j \in Job
    <3>1. j \in Left \/ (\E k \in Lane : j \in Mine(k)) => ranOn[j] = {}
        BY Zenon DEF PoolInv, ShareInv
    <3>2. j \in Left' => j \in Left
        OBVIOUS
    <3>3. (\E k \in Lane : j \in Mine(k)') => j \in Left \/ (\E k \in Lane : j \in Mine(k))
        BY <2>1, Zenon
    <3> QED
        BY <3>1, <3>2, <3>3
  <2> QED
      BY <2>2, <2>3, <2>4 DEF ShareInv
<1>3. CoverInv'
  <2> SUFFICES ASSUME NEW j \in Job
               PROVE  IF j < count
                      THEN \/ j \in Left'
                           \/ \E k \in Lane : j \in Mine(k)'
                           \/ \E k \in Lane : k < width /\ ranOn[j] = {k}
                      ELSE ranOn[j] = {}
      BY DEF CoverInv
  <2>1. IF j < count
        THEN \/ j \in Left
             \/ \E k \in Lane : j \in Mine(k)
             \/ \E k \in Lane : k < width /\ ranOn[j] = {k}
        ELSE ranOn[j] = {}
      BY Zenon DEF PoolInv, CoverInv
  <2>2. j \in Left => j \in Left' \/ j \in Mine(l)'
      OBVIOUS
  <2>3. \A k \in Lane : j \in Mine(k) => j \in Mine(k)'
      BY Zenon
  <2> QED
      BY <2>1, <2>2, <2>3, Zenon
<1>4. FirstInv'
    BY <1>1, Zenon DEF PoolInv, FirstInv
<1> QED
    BY <1>2, <1>3, <1>4

-----------------------------------------------------------------------------
\* Before the first call.
LEMMA StartHolds == PoolInit => PoolInv
<1> SUFFICES ASSUME PoolInit PROVE PoolInv
    OBVIOUS
<1>1. PoolTypes
    BY MaxAssumption DEF PoolInit, Init, PoolTypes, TaskModes, BatchModes, Place
<1>2. LaneInv /\ IdleInv /\ ClaimInv /\ FirstInv /\ ErrorInv
    BY CallerAssumption DEF PoolInit, Init, LaneInv, IdleInv, ClaimInv, FirstInv, ErrorInv
<1>3. Left = {} /\ \A l \in Lane : Mine(l) = {}
    BY DEF PoolInit, Init, Left, Mine, Held
<1>4. \A j \in Job : ranOn[j] = {} /\ ~(j < count)
    BY MaxAssumption DEF PoolInit, Job
<1>5. ShareInv /\ CoverInv
    BY <1>3, <1>4 DEF ShareInv, CoverInv
<1> QED
    BY <1>1, <1>2, <1>5 DEF PoolInv

\* A new call gives each of its lanes a share of its own and the counter the rest.
LEMMA OpenKeeps ==
    ASSUME PoolInv, NEW c \in Callers, NEW m \in TaskModes \cup BatchModes,
           NEW n \in 1 .. MaxCount, NEW w \in 1 .. Lanes, NEW g \in Nat \ {0},
           NEW counter \in Nat, w <= n,
           m \in TaskModes => w <= TaskWorkers,
           m = "direct" => w = n, m = "serial" => w = 1,
           m = "queue" => counter = w, m = "dynamic" => counter = 0,
           OpenCall(c, m, n, w, g, counter)
    PROVE  PoolInv'
<1>1. n \in Nat \ {0} /\ w \in Nat \ {0} /\ n <= MaxCount /\ MaxCount \in Nat
      /\ w <= Lanes /\ Lanes \in Nat
    BY MaxAssumption, LanesAssumption
<1>2. /\ owner = NoCaller /\ owner' = c /\ todo' = 0 .. w - 1 /\ busy' = {}
      /\ mode' = m /\ count' = n /\ width' = w /\ grain' = g /\ next' = counter
      /\ UNCHANGED <<pc, first, end, error, ranOn, failed>>
    BY DEF OpenCall, Open, local
<1>3. c # NoCaller
    BY CallerAssumption
<1>4. 0 .. w - 1 \subseteq Lane
    BY <1>1 DEF Lane
<1>5. \A l \in Lane : pc'[l] = "out"
    BY <1>2 DEF PoolInv, PoolTypes, LaneInv, IdleInv
<1>6. PoolTypes'
    BY <1>1, <1>2, <1>4 DEF PoolInv, PoolTypes
<1>7. LaneInv'
    BY <1>1, <1>2, <1>5 DEF LaneInv
<1>8. IdleInv' /\ ClaimInv'
    BY <1>1, <1>2, <1>3, <1>5 DEF IdleInv, ClaimInv, Counting
<1>9. (\A j \in Job : ranOn[j] = {}) /\ failed = {} /\ error = NoJob
    BY <1>2 DEF PoolInv, IdleInv
<1>10. ErrorInv'
    BY <1>2, <1>9 DEF ErrorInv
<1>11. \A l \in Lane : Mine(l)' = IF l \in 0 .. w - 1 THEN Own(m, n, w, l) ELSE {}
  <2> TAKE l \in Lane
  <2>1. CASE l \notin 0 .. w - 1
      BY <1>2, <1>5, <2>1 DEF Mine, Held
  <2>2. CASE l \in 0 .. w - 1
    <3>0. l \in Nat /\ l .. l + 1 - 1 = {l}
        BY <2>2
    <3>1. Mine(l)' = IF m = "dynamic" THEN {} ELSE OwnFirst(l)' .. OwnEnd(l)' - 1
        BY <1>2, <2>2 DEF Mine
    <3>2. OwnFirst(l)' = (CASE m = "serial" -> 0 [] m = "static" -> Split(n, w, l) [] OTHER -> l)
        BY <1>2 DEF OwnFirst, StaticFirst, StaticWidth, StaticExtra, Split
    <3>3. OwnEnd(l)' = (CASE m = "serial" -> n [] m = "static" -> SplitEnd(n, w, l) [] OTHER -> l + 1)
        BY <1>2 DEF OwnEnd, StaticEnd, StaticFirst, StaticWidth, StaticExtra, Split, SplitEnd
    <3>4. CASE m = "dynamic"
        BY <2>2, <3>1, <3>4 DEF Own
    <3>5. CASE m = "serial"
        BY <2>2, <3>1, <3>2, <3>3, <3>5 DEF Own
    <3>6. CASE m = "static"
        BY <2>2, <3>1, <3>2, <3>3, <3>6 DEF Own
    <3>7. CASE m \in {"direct", "queue"}
      <4>1. OwnFirst(l)' = l /\ OwnEnd(l)' = l + 1 /\ Own(m, n, w, l) = {l} /\ m # "dynamic"
          BY <3>2, <3>3, <3>7 DEF Own
      <4> QED
          BY <2>2, <3>0, <3>1, <4>1
    <3> QED
        BY <3>4, <3>5, <3>6, <3>7 DEF TaskModes, BatchModes
  <2> QED
      BY <2>1, <2>2
<1>12. Left' = IF m = "queue" THEN w .. n - 1 ELSE IF m = "dynamic" THEN 0 .. n - 1 ELSE {}
    BY <1>2, <1>3 DEF Left, Counting
<1>13. /\ \A l, k \in 0 .. w - 1 : l # k => Own(m, n, w, l) \cap Own(m, n, w, k) = {}
       /\ \A l \in 0 .. w - 1 :
             Own(m, n, w, l) \subseteq 0 .. (IF m = "queue" THEN w ELSE n) - 1
       /\ m = "dynamic" => \A l : Own(m, n, w, l) = {}
       /\ \A j \in 0 .. n - 1 :
             \/ m = "dynamic"
             \/ m = "queue" /\ w <= j
             \/ \E l \in 0 .. w - 1 : j \in Own(m, n, w, l)
       /\ m \in TaskModes => 0 \in Own(m, n, w, 0)
    BY <1>1, OwnShares
<1>14. ShareInv'
  <2>1. \A l, k \in Lane : l # k => Mine(l)' \cap Mine(k)' = {}
      BY <1>11, <1>13, Zenon
  <2>2. \A l \in Lane : Mine(l)' \subseteq 0 .. n - 1 /\ Mine(l)' \cap Left' = {}
    <3> TAKE l \in Lane
    <3>1. \/ Mine(l)' = {}
          \/ m # "dynamic" /\ Mine(l)' \subseteq 0 .. (IF m = "queue" THEN w ELSE n) - 1
      <4>1. CASE l \in 0 .. w - 1
        <5>1. Mine(l)' = Own(m, n, w, l)
            BY <1>11, <4>1
        <5>2. Own(m, n, w, l) \subseteq 0 .. (IF m = "queue" THEN w ELSE n) - 1
            BY <1>13, <4>1, Zenon
        <5>3. m = "dynamic" => Own(m, n, w, l) = {}
            BY <1>13, Zenon
        <5> QED
            BY <5>1, <5>2, <5>3
      <4>2. CASE l \notin 0 .. w - 1
          BY <1>11, <4>2
      <4> QED
          BY <4>1, <4>2
    <3> QED
        BY <1>1, <1>12, <3>1
  <2> QED
      BY <1>2, <1>9, <2>1, <2>2 DEF ShareInv
<1>15. CoverInv'
  <2> SUFFICES ASSUME NEW j \in Job
               PROVE  IF j < n
                      THEN j \in Left' \/ (\E l \in Lane : j \in Mine(l)')
                      ELSE ranOn[j] = {}
      BY <1>2 DEF CoverInv
  <2>1. CASE j < n
    <3>1. j \in 0 .. n - 1
        BY <1>1, <2>1 DEF Job
    <3>2. \/ m = "dynamic"
          \/ m = "queue" /\ w <= j
          \/ \E l \in 0 .. w - 1 : j \in Own(m, n, w, l)
        BY <1>13, <3>1, Zenon
    <3>3. CASE m = "dynamic" \/ (m = "queue" /\ w <= j)
        BY <1>1, <1>12, <3>1, <3>3
    <3>4. CASE \E l \in 0 .. w - 1 : j \in Own(m, n, w, l)
      <4>1. PICK l \in 0 .. w - 1 : j \in Own(m, n, w, l)
          BY <3>4
      <4>2. \A k \in 0 .. w - 1 : j \in Own(m, n, w, k) => k \in Lane /\ j \in Mine(k)'
          BY <1>4, <1>11
      <4>3. \E k \in Lane : j \in Mine(k)'
          BY <4>1, <4>2, Zenon
      <4> QED
          BY <2>1, <4>3
    <3> QED
        BY <3>2, <3>3, <3>4
  <2> QED
      BY <1>9, <2>1
<1>16. FirstInv'
  <2>1. 0 \in 0 .. w - 1 /\ 0 \in Lane
      BY <1>1, <1>4
  <2> QED
      BY <1>2, <1>11, <1>13, <2>1, Zenon DEF FirstInv
<1> QED
    BY <1>6, <1>7, <1>8, <1>10, <1>14, <1>15, <1>16 DEF PoolInv

\* runTasks opens at most the lanes of the worker budget.
LEMMA RunTasksKeeps ==
    ASSUME PoolInv, NEW c \in Callers, NEW n \in 1 .. MaxCount, NEW r \in 1 .. Lanes + 1,
           RunTasks(c, n, r)
    PROVE  PoolInv'
<1> DEFINE w == Least({TaskWorkers, n, r})
<1>1. /\ Lanes \in Nat \ {0} /\ MaxCount \in Nat /\ n \in Nat /\ r \in Nat
      /\ n > 0 /\ r > 0
      /\ TaskWorkers \in Nat /\ TaskWorkers > 0 /\ TaskWorkers <= Lanes
    BY LanesAssumption, MaxAssumption, TaskWorkersAssumption
<1>2. w \in {TaskWorkers, n, r} /\ w <= TaskWorkers /\ w <= n /\ w <= r
    BY <1>1, LeastOfThree
<1>3. OpenCall(c, TaskMode(n, w), n, w, 1, w)
    BY DEF RunTasks
<1> HIDE DEF w
<1>4. w \in 1 .. Lanes /\ w \in Nat /\ 1 \in Nat \ {0}
    BY <1>1, <1>2
<1>5. /\ TaskMode(n, w) \in TaskModes /\ TaskMode(n, w) # "dynamic"
      /\ TaskMode(n, w) = "direct" => w = n
      /\ TaskMode(n, w) = "serial" => w = 1
    BY DEF TaskMode, TaskModes
<1> HIDE DEF TaskMode
<1> QED
    BY <1>2, <1>3, <1>4, <1>5, OpenKeeps

\* Batch::run opens at most one lane per job.
LEMMA RunBatchKeeps ==
    ASSUME PoolInv, NEW c \in Callers, NEW n \in 1 .. MaxCount, NEW m \in BatchModes,
           NEW g \in 1 .. MaxGrain, RunBatch(c, n, m, g)
    PROVE  PoolInv'
<1> DEFINE w == Least({Lanes, n})
<1>1. /\ Lanes \in Nat \ {0} /\ MaxCount \in Nat /\ n \in Nat /\ n > 0
      /\ MaxGrain \in Nat /\ g \in Nat \ {0}
    BY LanesAssumption, MaxAssumption
<1>2. w \in 1 .. Lanes /\ w <= n
    BY <1>1, LeastOfTwo
<1>3. OpenCall(c, m, n, w, g, 0)
    BY DEF RunBatch
<1>4. m \notin TaskModes /\ m \notin {"direct", "serial", "queue"}
    BY DEF BatchModes, TaskModes
<1> HIDE DEF w
<1> QED
    BY <1>1, <1>2, <1>3, <1>4, OpenKeeps

-----------------------------------------------------------------------------
(* The function of a lane. *)

\* A lane whose function runs is busy in an open call.
LEMMA InLane ==
    ASSUME PoolInv, NEW l \in Lane, pc[l] # "out"
    PROVE  l \in busy /\ l \notin todo /\ owner # NoCaller /\ l \in 0 .. width - 1
    BY DEF PoolInv, LaneInv, IdleInv

\* What Hold changes.
LEMMA HoldChanges ==
    ASSUME PoolInv, NEW l \in Lane, NEW a \in Nat, NEW b \in Nat, NEW at \in Place,
           Hold(l, a, b, at), UNCHANGED <<work, ranOn, failed>>, next' \in Nat,
           todo' \subseteq Lane, busy' \subseteq Lane
    PROVE  /\ PoolTypes'
           /\ pc'[l] = at /\ first'[l] = a /\ end'[l] = b
           /\ \A k \in Lane \ {l} :
                 pc'[k] = pc[k] /\ first'[k] = first[k] /\ end'[k] = end[k]
    BY DEF PoolInv, PoolTypes, Hold, work

\* What another lane does leaves the share of a lane alone.
LEMMA OthersStay ==
    ASSUME NEW l \in Lane, UNCHANGED <<mode, count, width>>,
           \A k \in Lane \ {l} :
              pc'[k] = pc[k] /\ first'[k] = first[k] /\ end'[k] = end[k],
           todo \ {l} = todo' \ {l}
    PROVE  \A k \in Lane \ {l} : Mine(k)' = Mine(k)
<1> TAKE k \in Lane \ {l}
<1>1. Held(k)' = Held(k) /\ (k \in todo' <=> k \in todo)
    BY DEF Held
<1>2. OwnFirst(k)' = OwnFirst(k) /\ OwnEnd(k)' = OwnEnd(k)
    BY DEF OwnFirst, OwnEnd, StaticFirst, StaticEnd, StaticWidth, StaticExtra
<1> QED
    BY <1>1, <1>2 DEF Mine

\* A lane starts with the share it was given.
LEMMA EnterKeeps ==
    ASSUME PoolInv, NEW l \in Lane, EnterLane(l)
    PROVE  PoolInv'
<1>1. /\ l \in todo /\ todo' = todo \ {l} /\ busy' = busy \cup {l}
      /\ UNCHANGED <<owner, mode, count, width, grain, next, error, ranOn, failed>>
      /\ UNCHANGED work
    BY DEF EnterLane, Start, work
<1>2. owner # NoCaller /\ l \in 0 .. width - 1 /\ pc[l] = "out"
    BY <1>1 DEF PoolInv, LaneInv, IdleInv
<1>3. OwnFirst(l) \in Nat /\ OwnEnd(l) \in Nat /\ OwnFirst(l) <= OwnEnd(l)
  <2>1. count \in Nat /\ width \in Nat \ {0} /\ l \in Nat
      BY <1>2 DEF PoolInv, PoolTypes
  <2>2. CASE mode = "static"
    <3>1. OwnFirst(l) = Split(count, width, l) /\ OwnEnd(l) = SplitEnd(count, width, l)
        BY <2>2 DEF OwnFirst, OwnEnd, StaticFirst, StaticEnd, StaticWidth, StaticExtra,
                    Split, SplitEnd
    <3> QED
        BY <1>2, <2>1, <3>1, StaticShares, Zenon
  <2>3. CASE mode # "static"
      BY <2>1, <2>3 DEF OwnFirst, OwnEnd
  <2> QED
      BY <2>2, <2>3
<1>4. PICK a \in Nat, b \in Nat, at \in {"claim", "jobs"} :
         /\ Hold(l, a, b, at)
         /\ IF mode = "dynamic" THEN at = "claim"
            ELSE at = "jobs" /\ a = OwnFirst(l) /\ b = OwnEnd(l)
         /\ a <= b
  <2>1. CASE mode = "dynamic"
      BY <2>1 DEF EnterLane
  <2>2. CASE mode # "dynamic"
      BY <1>3, <2>2 DEF EnterLane
  <2> QED
      BY <2>1, <2>2
<1>5. /\ PoolTypes'
      /\ pc'[l] = at /\ first'[l] = a /\ end'[l] = b
      /\ \A k \in Lane \ {l} :
            pc'[k] = pc[k] /\ first'[k] = first[k] /\ end'[k] = end[k]
  <2>1. at \in Place
      BY <1>4 DEF Place
  <2>2. next' \in Nat /\ todo' \subseteq Lane /\ busy' \subseteq Lane
      BY <1>1 DEF PoolInv, PoolTypes
  <2> QED
      BY <1>1, <1>4, <2>1, <2>2, HoldChanges
<1>6. LaneInv'
    BY <1>1, <1>2, <1>4, <1>5 DEF PoolInv, LaneInv
<1>7. IdleInv' /\ ErrorInv'
    BY <1>1, <1>2 DEF PoolInv, IdleInv, ErrorInv
<1>8. ClaimInv'
    BY <1>1, <1>2, <1>4, <1>5 DEF PoolInv, ClaimInv, Counting
<1>9. Mine(l)' = Mine(l)
  <2>1. OwnFirst(l)' = OwnFirst(l) /\ OwnEnd(l)' = OwnEnd(l)
      BY <1>1 DEF OwnFirst, OwnEnd, StaticFirst, StaticEnd, StaticWidth, StaticExtra
  <2> QED
      BY <1>1, <1>4, <1>5 DEF Mine, Held
<1>10. \A k \in Lane : Mine(k)' = Mine(k)
  <2>1. todo \ {l} = todo' \ {l}
      BY <1>1
  <2>2. \A k \in Lane \ {l} : Mine(k)' = Mine(k)
      BY <1>1, <1>5, <2>1, OthersStay
  <2> QED
      BY <1>9, <2>2
<1>11. Left' = Left
    BY <1>1 DEF Left, Counting
<1>12. ShareInv' /\ CoverInv' /\ FirstInv'
    BY <1>1, <1>10, <1>11, SharesStay
<1> QED
    BY <1>5, <1>6, <1>7, <1>8, <1>12 DEF PoolInv

\* A called job leaves the share of its lane for good.
LEMMA CallKeeps ==
    ASSUME PoolInv, NEW l \in Lane, CallJob(l)
    PROVE  PoolInv'
<1> DEFINE j0 == first[l]
<1>1. /\ pc[l] = "jobs" /\ first[l] < end[l]
      /\ UNCHANGED <<owner, todo, busy, mode, count, width, grain, next, pc, end>>
      /\ first' = [first EXCEPT ![l] = j0 + 1]
      /\ ranOn' = [ranOn EXCEPT ![j0] = @ \cup {l}]
    BY DEF CallJob, vars, work
<1>2. l \notin todo /\ owner # NoCaller /\ l \in 0 .. width - 1
    BY <1>1, InLane
<1>3. /\ j0 \in Nat /\ end[l] \in Nat /\ first'[l] = j0 + 1
      /\ \A k \in Lane \ {l} : first'[k] = first[k]
      /\ first' \in [Lane -> Nat]
    BY <1>1 DEF PoolInv, PoolTypes
<1> HIDE DEF j0
<1>4. Mine(l) = j0 .. end[l] - 1 /\ Mine(l)' = j0 + 1 .. end[l] - 1
    BY <1>1, <1>2, <1>3 DEF Mine, Held, j0
<1>5. j0 \in Mine(l) /\ Mine(l)' = Mine(l) \ {j0}
    BY <1>1, <1>3, <1>4 DEF j0
<1>6. j0 \in Job /\ j0 < count
  <2>1. Mine(l) \subseteq 0 .. count - 1
      BY Zenon DEF PoolInv, ShareInv
  <2>2. count \in Nat /\ count <= MaxCount /\ MaxCount \in Nat
      BY MaxAssumption DEF PoolInv, PoolTypes
  <2> QED
      BY <1>5, <2>1, <2>2 DEF Job
<1>7. ranOn[j0] = {}
    BY <1>5, <1>6, Zenon DEF PoolInv, ShareInv
<1>8. ranOn'[j0] = {l} /\ \A j \in Job \ {j0} : ranOn'[j] = ranOn[j]
    BY <1>1, <1>6, <1>7 DEF PoolInv, PoolTypes
<1>9. \A k \in Lane \ {l} : Mine(k)' = Mine(k)
    BY <1>1, <1>3, OthersStay
<1>10. Left' = Left
    BY <1>1 DEF Left, Counting
<1>11. \A k \in Lane : Mine(k)' = Mine(k) \ {j0}
  <2> TAKE k \in Lane
  <2>1. CASE k = l
      BY <1>5, <2>1
  <2>2. CASE k # l
    <3>1. Mine(k)' = Mine(k)
        BY <1>9, <2>2
    <3>2. Mine(k) \cap Mine(l) = {}
        BY <2>2, Zenon DEF PoolInv, ShareInv
    <3> QED
        BY <1>5, <3>1, <3>2
  <2> QED
      BY <2>1, <2>2
<1>12. PoolTypes'
  <2>1. ranOn' \in [Job -> SUBSET Lane]
      BY <1>1 DEF PoolInv, PoolTypes
  <2>2. failed' \subseteq Job
      BY <1>6 DEF PoolInv, PoolTypes, CallJob, j0
  <2> QED
      BY <1>1, <1>3, <2>1, <2>2 DEF PoolInv, PoolTypes
<1>13. LaneInv' /\ IdleInv'
    BY <1>1, <1>2 DEF PoolInv, LaneInv, IdleInv
<1>14. ClaimInv'
  <2>1. first'[l] <= end'[l]
      BY <1>1, <1>3 DEF j0
  <2> QED
      BY <1>1, <1>3, <2>1 DEF PoolInv, ClaimInv, Counting
<1>15. ShareInv'
  <2>1. \A k, i \in Lane : k # i => Mine(k)' \cap Mine(i)' = {}
    <3> SUFFICES ASSUME NEW k \in Lane, NEW i \in Lane, k # i
                 PROVE  Mine(k)' \cap Mine(i)' = {}
        OBVIOUS
    <3>1. Mine(k) \cap Mine(i) = {}
        BY Zenon DEF PoolInv, ShareInv
    <3>2. Mine(k)' = Mine(k) \ {j0} /\ Mine(i)' = Mine(i) \ {j0}
        BY <1>11, Zenon
    <3> QED
        BY <3>1, <3>2
  <2>2. \A k \in Lane : Mine(k)' \subseteq 0 .. count - 1 /\ Mine(k)' \cap Left' = {}
    <3> TAKE k \in Lane
    <3>1. Mine(k) \subseteq 0 .. count - 1 /\ Mine(k) \cap Left = {}
        BY Zenon DEF PoolInv, ShareInv
    <3>2. Mine(k)' = Mine(k) \ {j0}
        BY <1>11, Zenon
    <3> QED
        BY <1>10, <3>1, <3>2
  <2>3. \A j \in Job : j \in Left' \/ (\E k \in Lane : j \in Mine(k)') => ranOn'[j] = {}
    <3> TAKE j \in Job
    <3>1. CASE j = j0
      <4>1. j0 \notin Left
          BY <1>5, Zenon DEF PoolInv, ShareInv
      <4>2. \A k \in Lane : j0 \notin Mine(k)'
          BY <1>11
      <4> QED
          BY <1>10, <3>1, <4>1, <4>2, Zenon
    <3>2. CASE j # j0
      <4>1. j \in Left \/ (\E k \in Lane : j \in Mine(k)) => ranOn[j] = {}
          BY Zenon DEF PoolInv, ShareInv
      <4>2. \A k \in Lane : j \in Mine(k)' => j \in Mine(k)
          BY <1>11
      <4>3. ranOn'[j] = ranOn[j]
          BY <1>8, <3>2
      <4> QED
          BY <1>10, <4>1, <4>2, <4>3, Zenon
    <3> QED
        BY <3>1, <3>2
  <2> QED
      BY <1>1, <2>1, <2>2, <2>3 DEF ShareInv
<1>16. CoverInv'
  <2> SUFFICES ASSUME NEW j \in Job
               PROVE  IF j < count
                      THEN \/ j \in Left'
                           \/ \E k \in Lane : j \in Mine(k)'
                           \/ \E k \in Lane : k < width /\ ranOn'[j] = {k}
                      ELSE ranOn'[j] = {}
      BY <1>1 DEF CoverInv
  <2>1. CASE j = j0
    <3>1. l < width
        BY <1>2 DEF PoolInv, PoolTypes
    <3> QED
        BY <1>6, <1>8, <2>1, <3>1
  <2>2. CASE j # j0
    <3>1. IF j < count
          THEN \/ j \in Left
               \/ \E k \in Lane : j \in Mine(k)
               \/ \E k \in Lane : k < width /\ ranOn[j] = {k}
          ELSE ranOn[j] = {}
        BY Zenon DEF PoolInv, CoverInv
    <3>2. \A k \in Lane : j \in Mine(k) => j \in Mine(k)'
        BY <1>11, <2>2
    <3>3. ranOn'[j] = ranOn[j]
        BY <1>8, <2>2
    <3> QED
        BY <1>10, <3>1, <3>2, <3>3, Zenon
  <2> QED
      BY <2>1, <2>2
<1>17. FirstInv'
  <2> SUFFICES ASSUME mode \in TaskModes
               PROVE  0 \in Mine(0)' \/ (0 \in Job /\ ranOn'[0] = {0})
      BY <1>1 DEF FirstInv
  <2>1. 0 \in Lane
      BY LanesAssumption DEF Lane
  <2>2. 0 \in Mine(0) \/ (0 \in Job /\ ranOn[0] = {0})
      BY <1>2 DEF PoolInv, FirstInv
  <2>3. CASE j0 = 0
    <3>1. 0 \in Mine(0)
        BY <1>7, <2>2, <2>3
    <3>2. l = 0
      <4>1. Mine(0) \cap Mine(l) # {}
          BY <1>5, <2>3, <3>1
      <4> QED
          BY <2>1, <4>1, Zenon DEF PoolInv, ShareInv
    <3> QED
        BY <1>6, <1>8, <2>3, <3>2
  <2>4. CASE j0 # 0
    <3>1. Mine(0)' = Mine(0) \ {j0}
        BY <1>11, <2>1, Zenon
    <3>2. 0 \in Job => ranOn'[0] = ranOn[0]
        BY <1>8, <2>4
    <3> QED
        BY <2>2, <2>4, <3>1, <3>2
  <2> QED
      BY <2>3, <2>4
<1>18. ErrorInv'
  <2>1. IF failed = {} THEN error = NoJob ELSE error \in failed
      BY <1>2 DEF PoolInv, ErrorInv
  <2>2. failed \subseteq Job /\ NoJob \notin Job
      BY MaxAssumption DEF PoolInv, PoolTypes, Job, NoJob
  <2>3. CASE UNCHANGED <<error, failed>>
      BY <1>1, <1>2, <2>1, <2>3 DEF ErrorInv
  <2>4. CASE failed' = failed \cup {j0} /\ error' = IF error = NoJob THEN j0 ELSE error
      BY <1>1, <2>1, <2>2, <2>4 DEF ErrorInv
  <2> QED
      BY <2>3, <2>4 DEF CallJob, j0
<1> QED
    BY <1>12, <1>13, <1>14, <1>15, <1>16, <1>17, <1>18 DEF PoolInv

\* A step of a lane inside its function that holds no job before and after it, and
\* takes none from the counter.
LEMMA IdleHoldKeeps ==
    ASSUME PoolInv, NEW l \in Lane, NEW a \in Nat, NEW b \in Nat,
           NEW at \in {"claim", "exchange", "done"},
           Hold(l, a, b, at), UNCHANGED <<vars, work, error, ranOn, failed>>,
           next' \in Nat, next <= next', Left' = Left,
           pc[l] # "out", Held(l) = {},
           at = "claim" => Counting,
           at = "exchange" => mode = "dynamic" /\ a < b /\ b <= count,
           at = "done" /\ Counting => count <= next'
    PROVE  PoolInv'
<1>1. l \in busy /\ l \notin todo /\ owner # NoCaller
    BY InLane
<1>2. /\ UNCHANGED <<owner, todo, busy, mode, count, width, grain, error, ranOn, failed>>
      /\ at \in Place
    BY DEF vars, work, Place
<1>3. /\ PoolTypes'
      /\ pc'[l] = at /\ first'[l] = a /\ end'[l] = b
      /\ \A k \in Lane \ {l} :
            pc'[k] = pc[k] /\ first'[k] = first[k] /\ end'[k] = end[k]
  <2>1. todo' \subseteq Lane /\ busy' \subseteq Lane
      BY <1>2 DEF PoolInv, PoolTypes
  <2> QED
      BY <1>2, <2>1, HoldChanges
<1>4. LaneInv'
    BY <1>1, <1>2, <1>3 DEF PoolInv, LaneInv
<1>5. IdleInv' /\ ErrorInv'
    BY <1>1, <1>2 DEF PoolInv, IdleInv, ErrorInv
<1>6. ClaimInv'
    BY <1>2, <1>3 DEF PoolInv, PoolTypes, ClaimInv, Counting
<1>7. \A k \in Lane : Mine(k)' = Mine(k)
  <2>1. Mine(l) = {} /\ Mine(l)' = {}
      BY <1>1, <1>2, <1>3 DEF Mine, Held
  <2>2. \A k \in Lane \ {l} : Mine(k)' = Mine(k)
      BY <1>2, <1>3, OthersStay
  <2> QED
      BY <2>1, <2>2
<1>8. ShareInv' /\ CoverInv' /\ FirstInv'
    BY <1>2, <1>7, SharesStay
<1> QED
    BY <1>3, <1>4, <1>5, <1>6, <1>8 DEF PoolInv

\* A lane that used up its range holds no job.
LEMMA JobsDoneKeeps ==
    ASSUME PoolInv, NEW l \in Lane, JobsDone(l)
    PROVE  PoolInv'
<1> DEFINE at == IF mode \in {"queue", "dynamic"} THEN "claim" ELSE "done"
<1>1. /\ pc[l] = "jobs" /\ first[l] = end[l] /\ first[l] \in Nat
      /\ Hold(l, 0, 0, at) /\ UNCHANGED <<vars, work, error, ranOn, failed>>
      /\ next \in Nat /\ next' = next
    BY DEF JobsDone, PoolInv, PoolTypes
<1>2. Held(l) = {}
    BY <1>1 DEF Held
<1>3. Left' = Left
    BY <1>1 DEF Left, Counting, vars, work
<1>4. /\ at \in {"claim", "exchange", "done"} /\ at # "exchange"
      /\ at = "claim" <=> Counting
      /\ at = "claim" \/ at = "done"
    BY DEF Counting
<1> HIDE DEF at
<1> QED
    BY <1>1, <1>2, <1>3, <1>4, IdleHoldKeeps

\* A lane that takes a range from the counter leaves the rest of it.
LEMMA ClaimKeeps ==
    ASSUME PoolInv, NEW l \in Lane, NEW b \in Nat, Counting,
           pc[l] \in {"claim", "exchange"}, next < b, b <= count,
           pc' = [pc EXCEPT ![l] = "jobs"], next' = b,
           first' = [first EXCEPT ![l] = next], end' = [end EXCEPT ![l] = b],
           UNCHANGED <<vars, work, error, ranOn, failed>>
    PROVE  PoolInv'
<1>1. l \in busy /\ l \notin todo /\ owner # NoCaller
    BY InLane
<1>2. UNCHANGED <<owner, todo, busy, mode, count, width, grain, error, ranOn, failed>>
    BY DEF vars, work
<1>3. next \in Nat /\ count \in Nat
    BY DEF PoolInv, PoolTypes
<1>4. /\ PoolTypes'
      /\ pc'[l] = "jobs" /\ first'[l] = next /\ end'[l] = b
      /\ \A k \in Lane \ {l} :
            pc'[k] = pc[k] /\ first'[k] = first[k] /\ end'[k] = end[k]
    BY <1>2, <1>3 DEF PoolInv, PoolTypes, Place
<1>5. LaneInv'
    BY <1>1, <1>2, <1>4 DEF PoolInv, LaneInv
<1>6. IdleInv' /\ ErrorInv'
    BY <1>1, <1>2 DEF PoolInv, IdleInv, ErrorInv
<1>7. ClaimInv'
    BY <1>2, <1>3, <1>4 DEF PoolInv, ClaimInv, Counting
<1> DEFINE S == next .. b - 1
<1>8. Left = next .. count - 1 /\ Left' = b .. count - 1
    BY <1>1, <1>2 DEF Left, Counting
<1>9. S \in SUBSET Left /\ Left' = Left \ S /\ S \subseteq 0 .. count - 1
    BY <1>3, <1>8
<1>10. Mine(l) = {} /\ Mine(l)' = S
    BY <1>1, <1>2, <1>4 DEF Mine, Held
<1>11. \A k \in Lane \ {l} : Mine(k)' = Mine(k)
    BY <1>2, <1>4, OthersStay
<1> HIDE DEF S
<1>12. ShareInv' /\ CoverInv' /\ FirstInv'
    BY <1>2, <1>9, <1>10, <1>11, ClaimShares
<1> QED
    BY <1>4, <1>5, <1>6, <1>7, <1>12 DEF PoolInv

\* The counter gives one task to the lane that increments it.
LEMMA FetchAddKeeps ==
    ASSUME PoolInv, NEW l \in Lane, FetchAdd(l)
    PROVE  PoolInv'
<1>1. /\ pc[l] = "claim" /\ mode = "queue" /\ next' = next + 1
      /\ UNCHANGED <<vars, work, error, ranOn, failed>>
      /\ next \in Nat /\ count \in Nat /\ Counting
    BY DEF FetchAdd, PoolInv, PoolTypes, Counting
<1>2. CASE next >= count
  <2>1. Hold(l, 0, 0, "done")
      BY <1>2 DEF FetchAdd
  <2>2. Left' = Left
      BY <1>1, <1>2 DEF Left, Counting, vars, work
  <2>3. Held(l) = {}
      BY <1>1 DEF Held
  <2>4. next' \in Nat /\ next <= next' /\ count <= next'
      BY <1>1, <1>2
  <2> QED
      BY <1>1, <2>1, <2>2, <2>3, <2>4, IdleHoldKeeps
<1>3. CASE ~(next >= count)
  <2>1. Hold(l, next, next + 1, "jobs")
      BY <1>3 DEF FetchAdd
  <2>2. next + 1 \in Nat /\ next < next + 1 /\ next + 1 <= count
      BY <1>1, <1>3
  <2> QED
      BY <1>1, <2>1, <2>2, ClaimKeeps DEF Hold
<1> QED
    BY <1>2, <1>3

\* A lane that has only read the counter holds no job.
LEMMA LoadNextKeeps ==
    ASSUME PoolInv, NEW l \in Lane, LoadNext(l)
    PROVE  PoolInv'
<1>1. /\ pc[l] \in {"claim", "exchange"} /\ mode = "dynamic" /\ Counting
      /\ UNCHANGED <<vars, work, error, ranOn, failed>> /\ next' = next
      /\ next \in Nat /\ count \in Nat /\ grain \in Nat \ {0}
    BY DEF LoadNext, PoolInv, PoolTypes, ClaimInv, Counting
<1>2. Held(l) = {} /\ pc[l] # "out"
    BY <1>1 DEF Held
<1>3. Left' = Left
    BY <1>1 DEF Left, Counting, vars, work
<1>4. CASE next >= count
  <2>1. Hold(l, 0, 0, "done")
      BY <1>4 DEF LoadNext
  <2>2. next' \in Nat /\ next <= next' /\ count <= next'
      BY <1>1, <1>4
  <2> QED
      BY <1>1, <1>2, <1>3, <2>1, <2>2, IdleHoldKeeps
<1>5. CASE ~(next >= count)
  <2> DEFINE b == next + Least({grain, count - next})
  <2>1. Hold(l, next, b, "exchange")
      BY <1>5 DEF LoadNext
  <2>2. count - next \in Nat
      BY <1>1, <1>5
  <2>3. Least({grain, count - next}) = IF grain <= count - next THEN grain ELSE count - next
      BY <1>1, <2>2, LeastOfTwo
  <2>4. b \in Nat /\ next < b /\ b <= count /\ next <= next' /\ next' \in Nat
      BY <1>1, <1>5, <2>3
  <2> HIDE DEF b
  <2> QED
      BY <1>1, <1>2, <1>3, <2>1, <2>4, IdleHoldKeeps
<1> QED
    BY <1>4, <1>5

\* The counter was not moved since the lane read it, so the range is still left.
LEMMA ExchangeKeeps ==
    ASSUME PoolInv, NEW l \in Lane, Exchange(l)
    PROVE  PoolInv'
<1>1. /\ pc[l] = "exchange" /\ next = first[l] /\ next' = end[l]
      /\ pc' = [pc EXCEPT ![l] = "jobs"]
      /\ UNCHANGED <<vars, work, first, end, error, ranOn, failed>>
    BY DEF Exchange
<1>2. Counting /\ next < end[l] /\ end[l] <= count /\ end[l] \in Nat
    BY <1>1 DEF PoolInv, PoolTypes, ClaimInv, Counting
<1>3. first' = [first EXCEPT ![l] = next] /\ end' = [end EXCEPT ![l] = end[l]]
    BY <1>1 DEF PoolInv, PoolTypes
<1> QED
    BY <1>1, <1>2, <1>3, ClaimKeeps

\* A lane leaves with nothing to do.
LEMMA LeaveKeeps ==
    ASSUME PoolInv, NEW l \in Lane, LeaveLane(l)
    PROVE  PoolInv'
<1>1. /\ pc[l] = "done" /\ Hold(l, 0, 0, "out") /\ busy' = busy \ {l}
      /\ UNCHANGED <<owner, todo, mode, count, width, grain, next, error, ranOn, failed>>
      /\ UNCHANGED work /\ next \in Nat
    BY DEF LeaveLane, Finish, work, PoolInv, PoolTypes
<1>2. l \in busy /\ l \notin todo /\ owner # NoCaller
    BY <1>1, InLane
<1>3. /\ PoolTypes'
      /\ pc'[l] = "out" /\ first'[l] = 0 /\ end'[l] = 0
      /\ \A k \in Lane \ {l} :
            pc'[k] = pc[k] /\ first'[k] = first[k] /\ end'[k] = end[k]
  <2>1. todo' \subseteq Lane /\ busy' \subseteq Lane /\ next' \in Nat /\ "out" \in Place
      BY <1>1 DEF PoolInv, PoolTypes, Place
  <2> QED
      BY <1>1, <2>1, HoldChanges
<1>4. LaneInv'
    BY <1>1, <1>2, <1>3 DEF PoolInv, LaneInv
<1>5. IdleInv' /\ ErrorInv'
    BY <1>1, <1>2 DEF PoolInv, IdleInv, ErrorInv
<1>6. ClaimInv'
  <2>1. 0 \notin todo' \cup busy' /\ Counting => count <= next
    <3>1. CASE l = 0
        BY <1>1, <3>1 DEF PoolInv, ClaimInv
    <3>2. CASE l # 0
        BY <1>1, <1>2, <3>2 DEF PoolInv, ClaimInv
    <3> QED
        BY <3>1, <3>2
  <2> QED
      BY <1>1, <1>3, <2>1 DEF PoolInv, ClaimInv, Counting
<1>7. \A k \in Lane : Mine(k)' = Mine(k)
  <2>1. Mine(l) = {} /\ Mine(l)' = {}
      BY <1>1, <1>2, <1>3 DEF Mine, Held
  <2>2. \A k \in Lane \ {l} : Mine(k)' = Mine(k)
      BY <1>1, <1>3, OthersStay
  <2> QED
      BY <2>1, <2>2
<1>8. Left' = Left
    BY <1>1 DEF Left, Counting
<1>9. ShareInv' /\ CoverInv' /\ FirstInv'
    BY <1>1, <1>7, <1>8, SharesStay
<1> QED
    BY <1>3, <1>4, <1>5, <1>6, <1>9 DEF PoolInv

\* The caller leaves nothing of its call behind.
LEMMA ReturnKeeps ==
    ASSUME PoolInv, Return
    PROVE  PoolInv'
<1>1. /\ todo = {} /\ busy = {} /\ todo' = {} /\ busy' = {} /\ owner' = NoCaller
      /\ mode' = NoMode /\ count' = 0 /\ width' = 1 /\ grain' = 1 /\ next' = 0
      /\ error' = NoJob /\ ranOn' = [j \in Job |-> {}] /\ failed' = {}
      /\ UNCHANGED <<pc, first, end>>
    BY DEF Return, Close, local
<1>2. \A l \in Lane : pc'[l] = "out"
    BY <1>1 DEF PoolInv, LaneInv, PoolTypes
<1>3. PoolTypes'
    BY <1>1, MaxAssumption DEF PoolInv, PoolTypes, TaskModes, BatchModes
<1>4. LaneInv' /\ IdleInv' /\ ClaimInv' /\ FirstInv' /\ ErrorInv'
    BY <1>1, <1>2 DEF LaneInv, IdleInv, ClaimInv, FirstInv, ErrorInv
<1>5. Left' = {} /\ \A l \in Lane : Mine(l)' = {}
    BY <1>1, <1>2 DEF Left, Mine, Held
<1>6. \A j \in Job : ranOn'[j] = {} /\ ~(j < count')
    BY <1>1, MaxAssumption DEF Job
<1>7. ShareInv' /\ CoverInv'
    BY <1>5, <1>6 DEF ShareInv, CoverInv
<1> QED
    BY <1>3, <1>4, <1>7 DEF PoolInv

\* Every step of a caller, of a lane or of none.
LEMMA StepKeeps ==
    ASSUME PoolInv, [PoolNext]_allVars
    PROVE  PoolInv'
<1>1. CASE \E c \in Callers, n \in 1 .. MaxCount, r \in 1 .. Lanes + 1 : RunTasks(c, n, r)
    BY <1>1, RunTasksKeeps
<1>2. CASE \E c \in Callers, n \in 1 .. MaxCount, m \in BatchModes, g \in 1 .. MaxGrain :
              RunBatch(c, n, m, g)
    BY <1>2, RunBatchKeeps
<1>3. CASE \E l \in Lane : LaneNext(l)
  <2> PICK l \in Lane : LaneNext(l)
      BY <1>3
  <2> QED
      BY EnterKeeps, CallKeeps, JobsDoneKeeps, FetchAddKeeps, LoadNextKeeps, ExchangeKeeps,
         LeaveKeeps DEF LaneNext
<1>4. CASE Return
    BY <1>4, ReturnKeeps
<1>5. CASE UNCHANGED allVars
  <2>1. UNCHANGED <<owner, todo, busy, mode, count, width, grain, next, pc, first, end,
                    error, ranOn, failed>>
      BY <1>5 DEF allVars, vars, poolVars, work, local
  <2>2. PoolTypes' /\ LaneInv'
      BY <2>1 DEF PoolInv, PoolTypes, LaneInv
  <2>3. IdleInv' /\ ClaimInv' /\ ErrorInv'
      BY <2>1 DEF PoolInv, IdleInv, ClaimInv, ErrorInv, Counting
  <2>4. Left' = Left
      BY <2>1 DEF Left, Counting
  <2>5. \A l \in Lane : Mine(l)' = Mine(l)
    <3> TAKE l \in Lane
    <3>1. OwnFirst(l)' = OwnFirst(l) /\ OwnEnd(l)' = OwnEnd(l)
        BY <2>1 DEF OwnFirst, OwnEnd, StaticFirst, StaticEnd, StaticWidth, StaticExtra
    <3> QED
        BY <2>1, <3>1 DEF Mine, Held
  <2>6. ShareInv' /\ CoverInv' /\ FirstInv'
      BY <2>1, <2>4, <2>5, SharesStay
  <2> QED
      BY <2>2, <2>3, <2>6 DEF PoolInv
<1> QED
    BY <1>1, <1>2, <1>3, <1>4, <1>5 DEF PoolNext

\* The inductive invariant holds in every reachable state.
LEMMA PoolInvHolds == PoolSpec => []PoolInv
<1>1. PoolInv /\ [PoolNext]_allVars => PoolInv'
    BY StepKeeps
<1> QED
    BY <1>1, StartHolds, PTL DEF PoolSpec

-----------------------------------------------------------------------------
(* Theorems. *)

\* No job is called twice, for any jobs, lanes and grains: the ranges that lanes
\* claim by fetch_add, by compare_exchange or by the static split are disjoint.
THEOREM DisjointClaimsHolds == PoolSpec => []DisjointClaims
<1>1. PoolInv => DisjointClaims
  <2> SUFFICES ASSUME PoolInv PROVE DisjointClaims
      OBVIOUS
  <2>1. \A l \in Lane : Held(l) # {} => Mine(l) = Held(l)
    <3> TAKE l \in Lane
    <3>1. pc[l] = "jobs" => l \notin todo
        BY InLane
    <3> QED
        BY <3>1 DEF Held, Mine
  <2>2. \A l, k \in Lane : l # k => Held(l) \cap Held(k) = {}
    <3> SUFFICES ASSUME NEW l \in Lane, NEW k \in Lane, l # k
                 PROVE  Held(l) \cap Held(k) = {}
        OBVIOUS
    <3>1. Mine(l) \cap Mine(k) = {}
        BY Zenon DEF PoolInv, ShareInv
    <3> QED
        BY <2>1, <3>1
  <2>3. \A l \in Lane : \A j \in Held(l) : j < count /\ ranOn[j] = {}
    <3> SUFFICES ASSUME NEW l \in Lane, NEW j \in Held(l)
                 PROVE  j < count /\ ranOn[j] = {}
        OBVIOUS
    <3>1. j \in Mine(l)
        BY <2>1
    <3>2. Mine(l) \subseteq 0 .. count - 1
        BY Zenon DEF PoolInv, ShareInv
    <3>3. j < count /\ j \in Job
        BY <3>1, <3>2, MaxAssumption DEF PoolInv, PoolTypes, Job
    <3>4. ranOn[j] = {}
        BY <3>1, <3>3, Zenon DEF PoolInv, ShareInv
    <3> QED
        BY <3>3, <3>4
  <2> QED
      BY <2>2, <2>3 DEF DisjointClaims
<1> QED
    BY <1>1, PoolInvHolds, PTL

\* A batch rethrows exactly when one of its jobs threw, and what it rethrows is
\* the exception of the job of this batch that was the first to throw (Batch::run).
THEOREM ErrorReportedHolds == PoolSpec => ErrorReported
<1> DEFINE Kept ==
      IF failed' = {} THEN error' = NoJob
      ELSE IF failed = {} THEN error' \in failed'
      ELSE error' = error
<1>1. ASSUME PoolInv, PoolInv', [PoolNext]_allVars PROVE Kept
  <2>1. failed = {} => error = NoJob
      BY <1>1 DEF PoolInv, IdleInv, ErrorInv
  <2>2. failed # {} => error \in Job
      BY <1>1 DEF PoolInv, PoolTypes, IdleInv, ErrorInv
  <2>3. IF failed' = {} THEN error' = NoJob ELSE error' \in failed'
      BY <1>1 DEF PoolInv, IdleInv, ErrorInv
  <2>4. NoJob \notin Job
      BY MaxAssumption DEF Job, NoJob
  <2>5. \/ UNCHANGED error
        \/ error = NoJob
        \/ failed' = {}
      BY <1>1
         DEF PoolNext, RunTasks, RunBatch, OpenCall, LaneNext, EnterLane, CallJob, JobsDone,
             FetchAdd, LoadNext, Exchange, LeaveLane, Return, allVars, poolVars
  <2> QED
      BY <2>2, <2>3, <2>4, <2>5
<1>2. PoolInv /\ PoolInv' /\ [PoolNext]_allVars => [Kept]_allVars
    BY <1>1
<1> QED
    BY <1>2, PoolInvHolds, PTL DEF PoolSpec, ErrorReported

\* A call returns with each of its jobs called exactly once, on a lane of the
\* call, and the first task of runTasks on the caller.
THEOREM JobsAtReturnHolds == PoolSpec => JobsAtReturn
<1> DEFINE AtReturn ==
      owner # NoCaller /\ owner' = NoCaller =>
         /\ \A j \in Job : Cardinality(ranOn[j]) = (IF j < count THEN 1 ELSE 0)
         /\ \A j \in Job : ranOn[j] \subseteq 0 .. width - 1
         /\ mode \in TaskModes => ranOn[0] = {0} /\ width <= TaskWorkers
<1>1. ASSUME PoolInv, [PoolNext]_allVars PROVE AtReturn
  <2> SUFFICES ASSUME owner # NoCaller, owner' = NoCaller
               PROVE  /\ \A j \in Job : Cardinality(ranOn[j]) = (IF j < count THEN 1 ELSE 0)
                      /\ \A j \in Job : ranOn[j] \subseteq 0 .. width - 1
                      /\ mode \in TaskModes => ranOn[0] = {0} /\ width <= TaskWorkers
      OBVIOUS
  <2>1. todo = {} /\ busy = {}
    <3>1. Return
        BY <1>1, CallerAssumption
           DEF PoolNext, RunTasks, RunBatch, OpenCall, Open, LaneNext, EnterLane, Start,
               CallJob, JobsDone, FetchAdd, LoadNext, Exchange, LeaveLane, Finish, allVars, vars
    <3> QED
        BY <3>1 DEF Return, Close
  <2>2. 0 \in Lane
      BY LanesAssumption DEF Lane
  <2>3. \A l \in Lane : Mine(l) = {}
      BY <1>1, <2>1 DEF PoolInv, LaneInv, Mine, Held
  <2>4. Left = {}
    <3>1. Counting => count <= next
        BY <1>1, <2>1 DEF PoolInv, ClaimInv
    <3> QED
        BY <1>1, <3>1 DEF Left, PoolInv, PoolTypes
  <2>5. \A j \in Job : IF j < count
                       THEN \E l \in Lane : l < width /\ ranOn[j] = {l}
                       ELSE ranOn[j] = {}
      BY <1>1, <2>3, <2>4 DEF PoolInv, CoverInv
  <2>6. \A j \in Job : Cardinality(ranOn[j]) = (IF j < count THEN 1 ELSE 0)
      BY <2>5, FS_Singleton, FS_EmptySet
  <2>7. \A j \in Job : ranOn[j] \subseteq 0 .. width - 1
      BY <1>1, <2>5 DEF PoolInv, PoolTypes, Lane
  <2>8. mode \in TaskModes => ranOn[0] = {0} /\ width <= TaskWorkers
      BY <1>1, <2>2, <2>3 DEF PoolInv, FirstInv, LaneInv
  <2> QED
      BY <2>6, <2>7, <2>8
<1>2. PoolInv /\ [PoolNext]_allVars => [AtReturn]_allVars
    BY <1>1
<1> QED
    BY <1>2, PoolInvHolds, PTL DEF PoolSpec, JobsAtReturn

-----------------------------------------------------------------------------
(* TaskSlots. *)

SlotPlace == {"out", "wait", "park", "asleep", "body", "store", "notify", "done"}

SlotTypes ==
    /\ epoch \in Nat /\ epoch <= MaxEpoch
    /\ tasks \in [Lane -> Nat]
    /\ needs \in [Lane -> SUBSET Lane] /\ target \in [Lane -> SUBSET Lane]
    /\ usesTasks \in BOOLEAN
    /\ taskPc \in [Lane -> SlotPlace]
    /\ todo \subseteq Lane /\ busy \subseteq Lane

\* A lane is in its function exactly while the transaction has it busy.
SlotLaneInv ==
    /\ owner = NoCaller => todo = {} /\ busy = {}
    /\ \A l \in Lane : taskPc[l] # "out" <=> l \in busy

\* No slot is ahead of the epoch, and one that has caught up with it was stored
\* by a lane of this transaction, after its result.
StampInv ==
    /\ \A t \in Lane : tasks[t] <= epoch
    /\ owner # NoCaller => \A t \in Lane : tasks[t] = epoch => t \in results
    /\ \A l \in Lane : taskPc[l] = "store" => l \in results

\* What a lane needs and no longer waits for is there.
WaitInv ==
    \A l \in Lane :
        /\ taskPc[l] # "out" => needs[l] \subseteq target[l] \cup results
        /\ taskPc[l] = "body" => target[l] = {}

SlotInv == SlotTypes /\ SlotLaneInv /\ StampInv /\ WaitInv

-----------------------------------------------------------------------------
\* Before the first transaction.
LEMMA SlotStartHolds == SlotInit => SlotInv
<1> SUFFICES ASSUME SlotInit PROVE SlotInv
    OBVIOUS
<1>1. MaxEpoch \in Nat
    BY StampModAssumption
<1>2. SlotTypes
  <2>1. /\ tasks \in [Lane -> Nat] /\ taskPc \in [Lane -> SlotPlace]
        /\ needs \in [Lane -> SUBSET Lane] /\ target \in [Lane -> SUBSET Lane]
      BY DEF SlotInit, NoNeeds, SlotPlace
  <2>2. epoch \in Nat /\ epoch <= MaxEpoch
      BY <1>1 DEF SlotInit
  <2>3. usesTasks \in BOOLEAN /\ todo \subseteq Lane /\ busy \subseteq Lane
      BY DEF SlotInit, Init
  <2> QED
      BY <2>1, <2>2, <2>3 DEF SlotTypes
<1>3. SlotLaneInv /\ StampInv /\ WaitInv
    BY DEF SlotInit, Init, SlotLaneInv, StampInv, WaitInv
<1> QED
    BY <1>2, <1>3 DEF SlotInv

\* A new transaction has an epoch that no slot holds.
LEMMA SlotOpenKeeps ==
    ASSUME MaxEpoch < StampMod, SlotInv,
           NEW c \in Callers, NEW n \in 1 .. Lanes, NEW uses \in BOOLEAN,
           NEW stage \in [Lane -> SUBSET Lane], OpenTransaction(c, n, uses, stage)
    PROVE  SlotInv'
<1>1. /\ epoch \in Nat /\ epoch < MaxEpoch /\ MaxEpoch \in Nat
      /\ StampMod \in Nat
    BY StampModAssumption DEF SlotInv, SlotTypes, OpenTransaction
<1>2. epoch' = epoch + 1
    BY <1>1 DEF OpenTransaction
<1>3. \A l \in Lane : taskPc'[l] = "out"
    BY DEF SlotInv, SlotTypes, SlotLaneInv, OpenTransaction, Open
<1>4. 0 .. n - 1 \subseteq Lane
    BY LanesAssumption DEF Lane
<1>5. SlotTypes'
    BY <1>1, <1>2, <1>4 DEF SlotInv, SlotTypes, OpenTransaction, Open
<1>6. SlotLaneInv'
    BY <1>3, CallerAssumption DEF SlotLaneInv, OpenTransaction, Open
<1>7. StampInv'
    BY <1>1, <1>2, <1>3 DEF SlotInv, SlotTypes, StampInv, OpenTransaction
<1>8. WaitInv'
    BY <1>3 DEF WaitInv
<1> QED
    BY <1>5, <1>6, <1>7, <1>8 DEF SlotInv

\* A lane moves alone, but for the ones it notifies.
LEMMA SlotLaneKeeps ==
    ASSUME SlotInv, NEW l \in Lane, StageNext(l)
    PROVE  SlotInv'
<1>1. CASE EnterStage(l)
    BY <1>1 DEF SlotInv, SlotTypes, SlotLaneInv, StampInv, WaitInv, SlotPlace, EnterStage, Start, Move
<1>2. CASE \E t \in Lane : TaskReady(l, t)
  <2> PICK t \in Lane : TaskReady(l, t)
      BY <1>2
  <2>1. t \in results
      BY DEF SlotInv, SlotTypes, SlotLaneInv, StampInv, TaskReady, Move
  <2> QED
      BY <2>1 DEF SlotInv, SlotTypes, SlotLaneInv, StampInv, WaitInv, SlotPlace, TaskReady, Move, vars
<1>3. CASE \E t \in Lane : TaskPark(l, t)
    BY <1>3 DEF SlotInv, SlotTypes, SlotLaneInv, StampInv, WaitInv, SlotPlace, TaskPark, Move, vars
<1>4. CASE TaskSleep(l) \/ TaskWoken(l) \/ Body(l)
    BY <1>4 DEF SlotInv, SlotTypes, SlotLaneInv, StampInv, WaitInv, SlotPlace,
                TaskSleep, TaskWoken, Body, Move, vars
<1>5. CASE BodyDone(l)
    BY <1>5 DEF SlotInv, SlotTypes, SlotLaneInv, StampInv, WaitInv, SlotPlace, BodyDone, Move, vars
<1>6. CASE Store(l)
    BY <1>6 DEF SlotInv, SlotTypes, SlotLaneInv, StampInv, WaitInv, SlotPlace, Store, Move, vars
<1>7. CASE NotifyAll(l)
    BY <1>7 DEF SlotInv, SlotTypes, SlotLaneInv, StampInv, WaitInv, SlotPlace, NotifyAll, vars
<1>8. CASE LeaveStage(l)
    BY <1>8 DEF SlotInv, SlotTypes, SlotLaneInv, StampInv, WaitInv, SlotPlace, LeaveStage, Finish, Move
<1> QED
    BY <1>1, <1>2, <1>3, <1>4, <1>5, <1>6, <1>7, <1>8 DEF StageNext

\* A transaction returns with every lane out of its function.
LEMMA SlotCloseKeeps ==
    ASSUME SlotInv, CloseTransaction
    PROVE  SlotInv'
<1>1. \A l \in Lane : taskPc'[l] = "out"
    BY DEF SlotInv, SlotTypes, SlotLaneInv, CloseTransaction, Close
<1>2. SlotTypes' /\ SlotLaneInv'
    BY <1>1 DEF SlotInv, SlotTypes, SlotLaneInv, CloseTransaction, Close, NoNeeds
<1>3. StampInv' /\ WaitInv'
    BY <1>1 DEF SlotInv, SlotTypes, StampInv, WaitInv, CloseTransaction, Close
<1> QED
    BY <1>2, <1>3 DEF SlotInv

\* Every step of the host, of a lane or of none.
LEMMA SlotStepKeeps ==
    ASSUME MaxEpoch < StampMod, SlotInv, [SlotNext]_allSlotVars
    PROVE  SlotInv'
<1>1. CASE \E c \in Callers, n \in 1 .. Lanes, s \in Stages : OpenTransaction(c, n, TRUE, s)
    BY <1>1, SlotOpenKeeps, StageAssumption
<1>2. CASE \E c \in Callers, n \in 1 .. Lanes : OpenTransaction(c, n, FALSE, NoNeeds)
  <2>1. NoNeeds \in [Lane -> SUBSET Lane]
      BY DEF NoNeeds
  <2> QED
      BY <1>2, <2>1, SlotOpenKeeps
<1>3. CASE \E l \in Lane : StageNext(l)
    BY <1>3, SlotLaneKeeps
<1>4. CASE CloseTransaction
    BY <1>4, SlotCloseKeeps
<1>5. CASE UNCHANGED allSlotVars
    BY <1>5 DEF SlotInv, SlotTypes, SlotLaneInv, StampInv, WaitInv, allSlotVars, vars, slotVars
<1> QED
    BY <1>1, <1>2, <1>3, <1>4, <1>5 DEF SlotNext

\* A lane evaluates only when what it waited for was written in its own transaction,
\* for any lanes and dependencies (Threads::wait, Threads::complete), while epoch_
\* has not wrapped.
THEOREM WaitMeansCompletedHolds ==
    ASSUME MaxEpoch < StampMod
    PROVE  SlotSpec => []WaitMeansCompleted
<1>1. SlotInv => WaitMeansCompleted
    BY DEF SlotInv, SlotTypes, WaitInv, WaitMeansCompleted
<1>2. SlotInv /\ [SlotNext]_allSlotVars => SlotInv'
    BY SlotStepKeeps
<1> QED
    BY <1>1, <1>2, SlotStartHolds, PTL DEF SlotSpec
=============================================================================
