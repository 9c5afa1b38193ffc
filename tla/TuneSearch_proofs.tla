-------------------------- MODULE TuneSearch_proofs --------------------------
(***************************************************************************)
(* What a search can come up with: candidates the engine can be launched   *)
(* with as they are measured, and a winner close to the best of all that   *)
(* was tried.                                                              *)
(***************************************************************************)
EXTENDS TuneSearch, FiniteSetTheorems, SequenceTheorems, WellFoundedInduction, TLAPS

-----------------------------------------------------------------------------
(* Induction, with a set in the place of the predicate.                    *)

\* Of natural numbers there is a least.
LEMMA Least ==
  ASSUME NEW T, T \subseteq Nat, T # {}
  PROVE  \E m \in T : \A n \in T : m <= n
<1> DEFINE R == OpToRel(<, Nat)
<1>1. IsWellFoundedOn(R, Nat)
  BY NatLessThanWellFounded
<1>2. \A i, j \in Nat : i < j => <<i, j>> \in R
  BY DEF OpToRel
<1> HIDE DEF R
<1>3. PICK m \in T : \A n \in T : ~(<<n, m>> \in R)
  BY <1>1, WFMin
<1>4. ASSUME NEW n \in T PROVE m <= n
  <2>1. n \in Nat /\ m \in Nat
    OBVIOUS
  <2>2. ~(n < m)
    BY <1>2, <1>3, <2>1
  <2> QED
    BY <2>1, <2>2
<1> QED
  BY <1>4

\* What holds of 0, and of the next number, holds of every one.
LEMMA Induct ==
  ASSUME NEW T, 0 \in T, \A n \in Nat : n \in T => n + 1 \in T
  PROVE  Nat \subseteq T
<1> DEFINE U == Nat \ T
<1> SUFFICES ASSUME U # {} PROVE FALSE
  OBVIOUS
<1>1. PICK m \in U : \A n \in U : m <= n
  BY Least
<1>2. m \in Nat /\ m # 0
  BY <1>1
<1>3. m - 1 \in Nat /\ m - 1 \in T
  BY <1>1, <1>2
<1> QED
  BY <1>1, <1>2, <1>3

\* Of positions there is a greatest.
LEMMA Greatest ==
  ASSUME NEW n \in Nat, NEW T, T \subseteq 1..n, T # {}
  PROVE  \E m \in T : \A i \in T : i <= m
<1> DEFINE U == {n - i : i \in T}
<1>1. U \subseteq Nat /\ U # {}
  <2>1. \A i \in T : n - i \in Nat
    OBVIOUS
  <2> QED
    BY <2>1
<1>2. PICK u \in U : \A v \in U : u <= v
  <2> HIDE DEF U
  <2> QED
    BY <1>1, Least
<1>3. PICK m \in T : u = n - m
  OBVIOUS
<1>4. ASSUME NEW i \in T PROVE i <= m
  <2>1. n - m <= n - i
    BY <1>2, <1>3
  <2> QED
    BY <2>1
<1> QED
  BY <1>4

-----------------------------------------------------------------------------
(* Positions in flight.                                                    *)

\* Halving ends (`floor_pow2`, fast.rs): the power of two is defined for every n.
LEMMA FloorPow2Positive ==
  ASSUME NEW n \in Nat
  PROVE  FloorPow2(n) \in Nat /\ (n > 0 => FloorPow2(n) > 0)
<1> DEFINE Halves(f, k) == f = [m \in 0..k |-> IF m <= 1 THEN m ELSE 2 * f[m \div 2]]
           T == {k \in Nat : \E f : Halves(f, k)}
           F == CHOOSE f : Halves(f, n)
<1>1. 0 \in T
  <2>1. Halves([m \in 0..0 |-> 0], 0)
    OBVIOUS
  <2> QED
    BY <2>1
<1>2. ASSUME NEW k \in Nat, k \in T PROVE k + 1 \in T
  <2>1. PICK f : Halves(f, k)
    BY <1>2
  <2> DEFINE g == [m \in 0..k + 1 |-> IF m <= 1 THEN m ELSE 2 * f[m \div 2]]
  <2>2. \A m \in 0..k : g[m] = f[m]
    BY <2>1
  <2>3. \A m \in 0..k + 1 : m > 1 => m \div 2 \in 0..k
    OBVIOUS
  <2>4. \A m \in 0..k + 1 : g[m] = IF m <= 1 THEN m ELSE 2 * g[m \div 2]
    <3>1. \A m \in 0..k + 1 : g[m] = IF m <= 1 THEN m ELSE 2 * f[m \div 2]
      OBVIOUS
    <3> HIDE DEF g
    <3>2. \A m \in 0..k + 1 : m > 1 => g[m \div 2] = f[m \div 2]
      BY <2>2, <2>3
    <3> QED
      BY <3>1, <3>2
  <2>5. g = [m \in 0..k + 1 |-> g[m]]
    OBVIOUS
  <2> HIDE DEF g
  <2>6. Halves(g, k + 1)
    BY <2>4, <2>5
  <2>7. k + 1 \in Nat
    OBVIOUS
  <2> HIDE DEF Halves
  <2> QED
    BY <2>6, <2>7
<1>3. n \in T
  <2> HIDE DEF T
  <2> QED
    BY <1>1, <1>2, Induct
<1>4. Halves(F, n)
  BY <1>3
<1>5. FloorPow2(n) = F[n]
  BY DEF FloorPow2
<1> HIDE DEF F
<1> DEFINE Bad == {m \in 0..n : ~(F[m] \in Nat /\ (m > 0 => F[m] > 0))}
<1>6. Bad = {}
  <2> SUFFICES ASSUME Bad # {} PROVE FALSE
    OBVIOUS
  <2>1. PICK m \in Bad : \A i \in Bad : m <= i
    <3>1. Bad \subseteq Nat
      OBVIOUS
    <3> HIDE DEF Bad
    <3> QED
      BY <3>1, Least
  <2>2. m \in 0..n /\ F[m] = IF m <= 1 THEN m ELSE 2 * F[m \div 2]
    BY <1>4
  <2>3. CASE m <= 1
    BY <2>1, <2>2, <2>3
  <2>4. CASE m > 1
    <3>1. m \div 2 \in 0..n /\ m \div 2 < m /\ m \div 2 > 0
      BY <2>2, <2>4
    <3>2. m \div 2 \notin Bad
      BY <2>1, <3>1
    <3>3. F[m \div 2] \in Nat /\ F[m \div 2] > 0
      BY <3>1, <3>2
    <3>4. F[m] = 2 * F[m \div 2]
      BY <2>2, <2>4
    <3> QED
      BY <2>1, <3>3, <3>4
  <2> QED
    BY <2>2, <2>3, <2>4
<1>7. n \notin Bad
  BY <1>6
<1> QED
  BY <1>5, <1>7

\* There is always a position in flight, whatever the GPU and the queue.
LEMMA InFlightPositive ==
  ASSUME NEW lanes \in Nat \cup {None}, NEW depth \in Nat
  PROVE  InFlight(lanes, depth) \in Nat \ {0}
<1> DEFINE want == IF lanes = None THEN 256
                   ELSE Greater(128, Lesser(512, FloorPow2(lanes \div 16)))
           room == Greater(FloorPow2(depth), 64)
<1>1. want \in Nat \ {0}
  <2>1. CASE lanes = None
    BY <2>1
  <2>2. CASE lanes # None
    <3>1. lanes \div 16 \in Nat
      BY <2>2
    <3> DEFINE p == FloorPow2(lanes \div 16)
    <3>2. p \in Nat
      BY <3>1, FloorPow2Positive
    <3> HIDE DEF p
    <3>3. Greater(128, Lesser(512, p)) \in Nat \ {0}
      BY <3>2 DEF Greater, Lesser
    <3> QED
      BY <2>2, <3>3 DEF p
  <2> QED
    BY <2>1, <2>2
<1>2. room \in Nat \ {0}
  <2> DEFINE p == FloorPow2(depth)
  <2>1. p \in Nat
    BY FloorPow2Positive
  <2> HIDE DEF p
  <2>2. Greater(p, 64) \in Nat \ {0}
    BY <2>1 DEF Greater
  <2> QED
    BY <2>2 DEF p
<1>3. InFlight(lanes, depth) = Lesser(want, room)
  BY DEF InFlight
<1> HIDE DEF want, room
<1> QED
  BY <1>1, <1>2, <1>3 DEF Lesser

-----------------------------------------------------------------------------
(* What a search may choose among.                                         *)

\* A function on 1..n is a sequence.
LEMMA SeqFromFunction ==
  ASSUME NEW S, NEW n \in Nat, NEW f \in [1..n -> S]
  PROVE  f \in Seq(S) /\ Len(f) = n
  OBVIOUS

\* A sequence over a set is one over a wider set.
LEMMA SeqWider ==
  ASSUME NEW S, NEW T, S \subseteq T, NEW s \in Seq(S)
  PROVE  s \in Seq(T)
<1>1. Len(s) \in Nat /\ s \in [1..Len(s) -> T]
  OBVIOUS
<1> QED
  BY <1>1

\* What is selected are elements at the positions asked for, some if there are any,
\* and no more than there are.
LEMMA SelectedFacts ==
  ASSUME NEW S, NEW seq \in Seq(S), NEW at
  PROVE  /\ Selected(seq, at) \in Seq({seq[i] : i \in at \cap DOMAIN seq})
         /\ at \cap DOMAIN seq # {} => Selected(seq, at) # <<>>
         /\ Len(Selected(seq, at)) <= Len(seq)
<1> DEFINE E == {seq[i] : i \in at \cap DOMAIN seq}
           G(f, k) == [n \in 0..k |-> IF n = 0 THEN <<>>
                                      ELSE IF n \in at THEN Append(f[n - 1], seq[n])
                                      ELSE f[n - 1]]
           Right(f, k) == f = G(f, k)
           T == {k \in Nat : \E f : Right(f, k)}
           m == Len(seq)
           F == CHOOSE f : Right(f, m)
<1>0. m \in Nat /\ DOMAIN seq = 1..m
  OBVIOUS
<1>1. 0 \in T
  <2> DEFINE f == [n \in 0..0 |-> <<>>]
  <2>1. \A n \in 0..0 : n = 0
    OBVIOUS
  <2>2. Right(f, 0)
    BY <2>1
  <2> QED
    BY <2>2
<1>2. ASSUME NEW k \in Nat, k \in T PROVE k + 1 \in T
  <2>1. PICK f : Right(f, k)
    BY <1>2
  <2> DEFINE g == G(f, k + 1)
  <2>2. \A n \in 0..k : f[n] = IF n = 0 THEN <<>>
                                ELSE IF n \in at THEN Append(f[n - 1], seq[n])
                                ELSE f[n - 1]
    BY <2>1
  <2>3. \A n \in 0..k + 1 : g[n] = IF n = 0 THEN <<>>
                                    ELSE IF n \in at THEN Append(f[n - 1], seq[n])
                                    ELSE f[n - 1]
    OBVIOUS
  <2>4. g = [n \in 0..k + 1 |-> g[n]]
    OBVIOUS
  <2> HIDE DEF g
  <2>5. \A n \in 0..k + 1 : n # 0 => f[n - 1] = g[n - 1]
    <3>1. \A n \in 0..k : g[n] = f[n]
      BY <2>2, <2>3
    <3> QED
      BY <3>1
  <2>6. Right(g, k + 1)
    BY <2>3, <2>4, <2>5
  <2>7. k + 1 \in Nat
    OBVIOUS
  <2> HIDE DEF Right
  <2> QED
    BY <2>6, <2>7
<1>3. m \in T
  <2> HIDE DEF T
  <2> QED
    BY <1>0, <1>1, <1>2, Induct
<1>4. Right(F, m)
  <2> HIDE DEF Right
  <2> QED
    BY <1>3
<1>5. Selected(seq, at) = F[m]
  BY DEF Selected
<1> HIDE DEF F
<1>6. \A n \in 0..m : F[n] = IF n = 0 THEN <<>>
                               ELSE IF n \in at THEN Append(F[n - 1], seq[n])
                               ELSE F[n - 1]
  BY <1>4
<1> HIDE DEF m
<1> DEFINE V == {n \in Nat : n <= m =>
                    /\ F[n] \in Seq(E) /\ Len(F[n]) <= n
                    /\ (\E i \in 1..n : i \in at) => F[n] # <<>>}
<1>7. 0 \in V
  <2>1. F[0] = <<>>
    BY <1>0, <1>6
  <2> HIDE DEF E
  <2>2. F[0] \in Seq(E) /\ Len(F[0]) = 0
    BY <2>1
  <2> QED
    BY <2>2
<1>8. ASSUME NEW n \in Nat, n \in V PROVE n + 1 \in V
  <2> SUFFICES ASSUME n + 1 <= m
               PROVE  /\ F[n + 1] \in Seq(E) /\ Len(F[n + 1]) <= n + 1
                      /\ (\E i \in 1..n + 1 : i \in at) => F[n + 1] # <<>>
    OBVIOUS
  <2>1. /\ F[n] \in Seq(E) /\ Len(F[n]) <= n
        /\ (\E i \in 1..n : i \in at) => F[n] # <<>>
    BY <1>0, <1>8
  <2>2. F[n + 1] = IF n + 1 \in at THEN Append(F[n], seq[n + 1]) ELSE F[n]
    <3>1. n + 1 \in 0..m /\ n + 1 # 0 /\ (n + 1) - 1 = n
      BY <1>0
    <3> QED
      BY <1>6, <3>1
  <2>3. CASE n + 1 \in at
    <3>1. seq[n + 1] \in E
      BY <1>0, <2>3
    <3> HIDE DEF E
    <3>2. /\ Append(F[n], seq[n + 1]) \in Seq(E) /\ Append(F[n], seq[n + 1]) # <<>>
          /\ Len(Append(F[n], seq[n + 1])) <= n + 1
      BY <2>1, <3>1
    <3> QED
      BY <2>2, <2>3, <3>2
  <2>4. CASE n + 1 \notin at
    <3>1. F[n + 1] = F[n]
      BY <2>2, <2>4
    <3>2. \A i \in 1..n + 1 : i \in at => i \in 1..n
      BY <2>4
    <3> HIDE DEF E
    <3> QED
      BY <2>1, <3>1, <3>2
  <2> QED
    BY <2>3, <2>4
<1>9. m \in V
  <2> HIDE DEF V
  <2> QED
    BY <1>0, <1>7, <1>8, Induct
<1>10. F[m] \in Seq(E) /\ Len(F[m]) <= m /\ ((\E i \in 1..m : i \in at) => F[m] # <<>>)
  BY <1>0, <1>9
<1> QED
  BY <1>0, <1>5, <1>10 DEF m

\* `numAnalysisThreads` is set by the candidate unless it is pinned.
IsCandidate(c, pins) ==
    c \in Candidates /\ (c.analysis = None => ANALYSIS_THREADS \in DOMAIN pins)

\* A pinned tuning key is a number or something that is none.
NumberPins(pins) == \A k \in DOMAIN pins \cap TuningKeys : pins[k] \in Nat \cup {Junk}

\* A ladder of at most five candidates and a rung to begin on.
IsFastSpace(space, pins) ==
    /\ space.mode = "fast"
    /\ space.analysis \in Chosen
    /\ space.analysis = None => ANALYSIS_THREADS \in DOMAIN pins
    /\ space.ladder \in Seq(Chosen \X Chosen) /\ Len(space.ladder) <= 5
    /\ space.prior \in DOMAIN space.ladder

\* Pairs and numbers of analysis threads, at least one of each and not many.
IsThoroughSpace(space, pins) ==
    /\ space.mode = "thorough"
    /\ space.analysis \in Seq(Chosen) /\ space.analysis # <<>> /\ Len(space.analysis) <= 3
    /\ \A i \in DOMAIN space.analysis :
          space.analysis[i] = None => ANALYSIS_THREADS \in DOMAIN pins
    /\ space.serverBatch \in Seq(Chosen \X Chosen) /\ space.serverBatch # <<>>
    /\ Len(space.serverBatch) <= 4

\* A batch holds a position (`batch_cap`, fast.rs).
LEMMA BatchCapPositive ==
  ASSUME NEW total \in Nat, NEW servers \in Nat \ {0}
  PROVE  BatchCap(total, servers) \in Nat \ {0}
<1> DEFINE q == total \div servers
<1>1. q \in Nat
  OBVIOUS
<1> HIDE DEF q
<1>2. Greater(Greater(q, Lesser(HEADROOM_BATCH, total)), 1) \in Nat \ {0}
  BY <1>1 DEF Greater, Lesser, HEADROOM_BATCH
<1> QED
  BY <1>2 DEF BatchCap, q

\* A ladder of one rung.
LEMMA PairSeq ==
  ASSUME NEW a \in Chosen, NEW b \in Chosen
  PROVE  /\ <<<<a, b>>>> \in Seq(Chosen \X Chosen) /\ 1 \in DOMAIN <<<<a, b>>>>
         /\ Len(<<<<a, b>>>>) <= 5
<1> DEFINE x == <<a, b>>
<1>1. x \in Chosen \X Chosen
  OBVIOUS
<1> HIDE DEF x
<1>2. <<x>> \in Seq(Chosen \X Chosen) /\ 1 \in DOMAIN <<x>>
  BY <1>1
<1> QED
  BY <1>2 DEF x

\* A ladder has a rung, and every rung is something an engine can be given.
LEMMA LadderSound ==
  ASSUME NEW pins, NumberPins(pins), NEW total \in Nat \ {0}
  PROVE  /\ FastLadder(pins, total) \in Seq(Chosen \X Chosen)
         /\ 1 \in DOMAIN FastLadder(pins, total) /\ Len(FastLadder(pins, total)) <= 5
<1> DEFINE L == FastLadder(pins, total)
<1>0. None \in Chosen
  BY DEF Chosen
<1>1. CASE SERVER_THREADS \in DOMAIN pins /\ BATCH_SIZE \in DOMAIN pins
  BY <1>0, <1>1, PairSeq DEF FastLadder
<1>2. CASE SERVER_THREADS \in DOMAIN pins /\ BATCH_SIZE \notin DOMAIN pins
  <2> DEFINE p == pins[SERVER_THREADS]
             b == IF p # Junk /\ p > 0 THEN BatchCap(total, p) ELSE None
  <2>1. L = <<<<None, b>>>>
    BY <1>2 DEF FastLadder
  <2>2. p \in Nat \cup {Junk}
    BY <1>2 DEF NumberPins, TuningKeys
  <2> HIDE DEF p
  <2>3. b \in Chosen
    <3>1. CASE p # Junk /\ p > 0
      <4>1. BatchCap(total, p) \in Nat \ {0}
        BY <2>2, <3>1, BatchCapPositive
      <4> QED
        BY <3>1, <4>1 DEF Chosen
    <3>2. CASE ~(p # Junk /\ p > 0)
      BY <1>0, <3>2
    <3> QED
      BY <3>1, <3>2
  <2> HIDE DEF b
  <2> QED
    BY <1>0, <2>1, <2>3, PairSeq
<1>3. CASE SERVER_THREADS \notin DOMAIN pins /\ BATCH_SIZE \in DOMAIN pins
  <2> DEFINE p == pins[BATCH_SIZE]
             a == IF p # Junk /\ p > 0 THEN Greater(total \div p, 1) ELSE None
  <2>1. L = <<<<a, None>>>>
    BY <1>3 DEF FastLadder
  <2>2. p \in Nat \cup {Junk}
    BY <1>3 DEF NumberPins, TuningKeys
  <2> HIDE DEF p
  <2>3. a \in Chosen
    <3>1. CASE p # Junk /\ p > 0
      <4>1. total \div p \in Nat
        BY <2>2, <3>1
      <4>2. Greater(total \div p, 1) \in Nat \ {0}
        BY <4>1 DEF Greater
      <4> QED
        BY <3>1, <4>2 DEF Chosen
    <3>2. CASE ~(p # Junk /\ p > 0)
      BY <1>0, <3>2
    <3> QED
      BY <3>1, <3>2
  <2> HIDE DEF a
  <2> QED
    BY <1>0, <2>1, <2>3, PairSeq
<1>4. CASE SERVER_THREADS \notin DOMAIN pins /\ BATCH_SIZE \notin DOMAIN pins
  <2> DEFINE kept == {i \in DOMAIN SERVER_LADDER :
                        SERVER_LADDER[i] = 1 \/ total \div SERVER_LADDER[i] >= MIN_BATCH}
             servers == Selected(SERVER_LADDER, kept)
  <2>1. L = [i \in DOMAIN servers |-> <<servers[i], BatchCap(total, servers[i])>>]
    BY <1>4 DEF FastLadder
  <2>2. /\ SERVER_LADDER \in Seq(Nat \ {0})
        /\ 1 \in kept \cap DOMAIN SERVER_LADDER /\ Len(SERVER_LADDER) = 5
        /\ \A i \in DOMAIN SERVER_LADDER : SERVER_LADDER[i] \in Nat \ {0}
    BY DEF SERVER_LADDER
  <2> HIDE DEF kept
  <2> DEFINE E == {SERVER_LADDER[i] : i \in kept \cap DOMAIN SERVER_LADDER}
  <2>3. servers \in Seq(E) /\ servers # <<>> /\ Len(servers) <= 5
    BY <2>2, SelectedFacts
  <2>4. \A x \in E : x \in Nat \ {0}
    BY <2>2
  <2> HIDE DEF servers, E
  <2>5. /\ Len(servers) \in Nat /\ DOMAIN servers = 1..Len(servers) /\ 1 \in DOMAIN servers
        /\ \A i \in DOMAIN servers : servers[i] \in E
    BY <2>3
  <2>6. \A i \in DOMAIN servers : <<servers[i], BatchCap(total, servers[i])>> \in Chosen \X Chosen
    <3> SUFFICES ASSUME NEW i \in DOMAIN servers
                 PROVE  <<servers[i], BatchCap(total, servers[i])>> \in Chosen \X Chosen
      OBVIOUS
    <3>1. servers[i] \in Nat \ {0}
      BY <2>4, <2>5
    <3>2. BatchCap(total, servers[i]) \in Nat \ {0}
      BY <3>1, BatchCapPositive
    <3> QED
      BY <3>1, <3>2 DEF Chosen
  <2> HIDE DEF L
  <2>7. L \in [1..Len(servers) -> Chosen \X Chosen]
    BY <2>1, <2>5, <2>6
  <2>8. L \in Seq(Chosen \X Chosen) /\ Len(L) = Len(servers)
    BY <2>5, <2>7, SeqFromFunction
  <2>9. 1 \in DOMAIN L
    BY <2>5, <2>7
  <2> QED
    BY <2>3, <2>8, <2>9 DEF L
<1> QED
  BY <1>1, <1>2, <1>3, <1>4

\* The fast search begins on a ladder, at a rung of it.
LEMMA FastSpaceSound ==
  ASSUME NEW pins, NumberPins(pins), NEW depth \in Nat, NEW backend,
         NEW lanes \in Nat \cup {None}
  PROVE  IsFastSpace(FastSpace(pins, depth, backend, lanes), pins)
<1> DEFINE total == InFlight(lanes, depth)
           L == FastLadder(pins, total)
           atMost == {i \in DOMAIN L : L[i][1] = None \/ L[i][1] <= FastPrior(backend)}
           space == FastSpace(pins, depth, backend, lanes)
           prior == IF atMost = {} THEN 1 ELSE CHOOSE i \in atMost : \A l \in atMost : l <= i
<1>1. total \in Nat \ {0}
  BY InFlightPositive
<1>2. /\ space.mode = "fast" /\ space.ladder = L /\ space.prior = prior
      /\ space.analysis = IF ANALYSIS_THREADS \in DOMAIN pins THEN None ELSE total
  BY DEF FastSpace
<1> HIDE DEF total
<1>3. L \in Seq(Chosen \X Chosen) /\ 1 \in DOMAIN L /\ Len(L) <= 5
  BY <1>1, LadderSound
<1> HIDE DEF L, space
<1>4. prior \in DOMAIN L
  <2>1. CASE atMost = {}
    BY <1>3, <2>1
  <2>2. CASE atMost # {}
    <3>1. Len(L) \in Nat /\ atMost \subseteq 1..Len(L) /\ atMost \subseteq DOMAIN L
      BY <1>3
    <3> HIDE DEF atMost
    <3>2. \E i \in atMost : \A l \in atMost : l <= i
      BY <2>2, <3>1, Greatest
    <3>3. prior \in atMost
      BY <2>2, <3>2
    <3> HIDE DEF prior
    <3> QED
      BY <3>1, <3>3
  <2> QED
    BY <2>1, <2>2
<1>5. space.analysis \in Chosen /\ (space.analysis = None => ANALYSIS_THREADS \in DOMAIN pins)
  BY <1>1, <1>2, NoNumbersAssumption DEF Chosen
<1> HIDE DEF prior
<1>6. IsFastSpace(space, pins)
  BY <1>2, <1>3, <1>4, <1>5 DEF IsFastSpace
<1> QED
  BY <1>6 DEF space

\* The thorough search has a pair and a number of analysis threads to begin with.
LEMMA ThoroughSpaceSound ==
  ASSUME NEW pins, NEW depth \in Nat, NEW backend
  PROVE  IsThoroughSpace(ThoroughSpace(pins, depth, backend), pins)
<1> DEFINE space == ThoroughSpace(pins, depth, backend)
           pairs == IF backend = "rocm" THEN ROCM_SERVER_BATCH ELSE WGPU_SERVER_BATCH
           server(i) == IF SERVER_THREADS \in DOMAIN pins THEN None ELSE pairs[i][1]
           batch(i) == IF BATCH_SIZE \in DOMAIN pins THEN None ELSE pairs[i][2]
           all == [i \in DOMAIN pairs |-> <<[l \in DOMAIN pairs |-> server(l)][i],
                                            [l \in DOMAIN pairs |-> batch(l)][i]>>]
           fits == {i \in DOMAIN ANALYSIS_CANDIDATES : i = 1 \/ ANALYSIS_CANDIDATES[i] <= depth}
           threads == Selected(ANALYSIS_CANDIDATES, fits)
           first == {i \in DOMAIN all : \A l \in 1..i - 1 : all[l] # all[i]}
<1>1. /\ space.mode = "thorough"
      /\ space.analysis = IF ANALYSIS_THREADS \in DOMAIN pins THEN <<None>> ELSE threads
      /\ space.serverBatch = Selected(all, first)
  BY DEF ThoroughSpace, Dedup
<1>2. /\ DOMAIN pairs = 1..4
      /\ \A i \in 1..4 : pairs[i][1] \in Nat \ {0} /\ pairs[i][2] \in Nat \ {0}
  BY DEF ROCM_SERVER_BATCH, WGPU_SERVER_BATCH
<1> HIDE DEF pairs
<1>3. DOMAIN all = 1..4 /\ \A i \in 1..4 : all[i] \in Chosen \X Chosen
  <2>1. \A i \in 1..4 : server(i) \in Chosen /\ batch(i) \in Chosen
    BY <1>2 DEF Chosen
  <2>2. \A i \in 1..4 : all[i] = <<server(i), batch(i)>>
    BY <1>2
  <2> QED
    BY <1>2, <2>1, <2>2
<1>4. all \in Seq(Chosen \X Chosen) /\ Len(all) = 4
  <2>1. all \in [1..4 -> Chosen \X Chosen]
    <3>1. all = [i \in 1..4 |-> all[i]]
      BY <1>2
    <3> HIDE DEF all
    <3> QED
      BY <1>3, <3>1
  <2> HIDE DEF all
  <2> QED
    BY <2>1, SeqFromFunction
<1>5. 1 \in first \cap DOMAIN all
  BY <1>3
<1>6. /\ space.serverBatch \in Seq(Chosen \X Chosen) /\ space.serverBatch # <<>>
      /\ Len(space.serverBatch) <= 4
  <2> DEFINE E == {all[i] : i \in first \cap DOMAIN all}
             rest == Selected(all, first)
  <2> HIDE DEF all, first
  <2>1. rest \in Seq(E) /\ rest # <<>> /\ Len(rest) <= 4
    BY <1>4, <1>5, SelectedFacts
  <2>2. E \subseteq Chosen \X Chosen
    BY <1>3
  <2> HIDE DEF rest, E
  <2>3. rest \in Seq(Chosen \X Chosen)
    BY <2>1, <2>2, SeqWider
  <2> QED
    BY <1>1, <2>1, <2>3 DEF rest
<1>7. threads \in Seq(Nat \ {0}) /\ threads # <<>> /\ Len(threads) <= 3
  <2> DEFINE E == {ANALYSIS_CANDIDATES[i] : i \in fits \cap DOMAIN ANALYSIS_CANDIDATES}
  <2>1. /\ ANALYSIS_CANDIDATES \in Seq(Nat \ {0})
        /\ 1 \in fits \cap DOMAIN ANALYSIS_CANDIDATES /\ Len(ANALYSIS_CANDIDATES) = 3
        /\ \A i \in DOMAIN ANALYSIS_CANDIDATES : ANALYSIS_CANDIDATES[i] \in Nat \ {0}
    BY DEF ANALYSIS_CANDIDATES
  <2> HIDE DEF fits
  <2>2. threads \in Seq(E) /\ threads # <<>> /\ Len(threads) <= 3
    BY <2>1, SelectedFacts
  <2>3. E \subseteq Nat \ {0}
    BY <2>1
  <2> HIDE DEF threads, E
  <2> QED
    BY <2>2, <2>3, SeqWider
<1> HIDE DEF threads, space, all, first
<1>8. /\ space.analysis \in Seq(Chosen) /\ space.analysis # <<>> /\ Len(space.analysis) <= 3
      /\ \A i \in DOMAIN space.analysis :
            space.analysis[i] = None => ANALYSIS_THREADS \in DOMAIN pins
  <2>1. CASE ANALYSIS_THREADS \in DOMAIN pins
    BY <1>1, <2>1 DEF Chosen
  <2>2. CASE ANALYSIS_THREADS \notin DOMAIN pins
    <3>1. space.analysis = threads
      BY <1>1, <2>2
    <3>2. Len(threads) \in Nat /\ threads \in [1..Len(threads) -> Chosen]
      BY <1>7 DEF Chosen
    <3>3. \A i \in DOMAIN threads : threads[i] # None
      BY <1>7, NoNumbersAssumption
    <3> QED
      BY <1>7, <3>1, <3>2, <3>3
  <2> QED
    BY <2>1, <2>2
<1>9. IsThoroughSpace(space, pins)
  BY <1>1, <1>6, <1>8 DEF IsThoroughSpace
<1> QED
  BY <1>9 DEF space
-----------------------------------------------------------------------------
(* The fast search.                                                        *)

\* How the trial of a candidate that runs at rate r may end, and what is known
\* of rates after it.
Endings(space, s, r) ==
    {Failed, Measured(r)} \cup (IF 100 * r < PRUNE * BestSoFar(space, s) THEN {Pruned(r)} ELSE {})
Learnt(rate, c, outcome, r) ==
    IF outcome = Failed THEN rate
    ELSE [x \in DOMAIN rate \cup {c} |-> IF x = c THEN r ELSE rate[x]]

\* The rungs that are left.
Untried(space, s) == DOMAIN space.ladder \ s.measured

\* What the search tries, and what it holds for best, an engine can be given.
FastCandidates(space, pins, s) ==
    /\ s.measured \subseteq DOMAIN space.ladder
    /\ s.trial # None => s.rung \in Untried(space, s) /\ s.trial = RungCandidate(space, s.rung)
    /\ s.best # None => s.best \in Winners /\ IsCandidate(s.best.cand, pins)

\* The walk stands beside the best rung, and has seen the rung on the far side
\* once it turned round.
FastWalk(space, s) ==
    /\ s.step \in {1, -1} /\ s.flipped \in BOOLEAN /\ s.at \in Int
    /\ s.best = None => ~s.flipped /\ s.step = 1
    /\ s.best = None \/ s.measured # {} \/ s.trial = None
    /\ s.best # None /\ s.measured # {} =>
          /\ s.at = s.top /\ s.at \in s.measured
          /\ s.trial # None => s.rung = s.at + s.step
          /\ s.trial # None /\ s.flipped => s.at - s.step \notin Untried(space, s)
          /\ s.trial = None /\ ~s.ranOut =>
                s.at - 1 \notin Untried(space, s) /\ s.at + 1 \notin Untried(space, s)

\* No rate that was seen beats the best by more than a tie.
FastRates(s, rate) ==
    /\ \A c \in DOMAIN rate : rate[c] \in Nat \ {0}
    /\ s.best = None \/ s.measured = {} => DOMAIN rate = {}
    /\ s.best # None => \A c \in DOMAIN rate : 100 * rate[c] <= (100 + TIE) * s.best.rate

\* The walk as a whole.
FastSound(space, pins, s, rate) ==
    FastCandidates(space, pins, s) /\ FastWalk(space, s) /\ FastRates(s, rate)

\* Every rung is a candidate.
LEMMA RungIsCandidate ==
  ASSUME NEW pins, NEW space, IsFastSpace(space, pins), NEW i \in DOMAIN space.ladder
  PROVE  IsCandidate(RungCandidate(space, i), pins) /\ RungCandidate(space, i) # None
<1>1. space.ladder[i] \in Chosen \X Chosen
  BY DEF IsFastSpace
<1>2. space.ladder[i][1] \in Chosen /\ space.ladder[i][2] \in Chosen
  BY <1>1
<1>3. RungCandidate(space, i) \in Candidates
  BY <1>2 DEF RungCandidate, Candidate, Candidates, IsFastSpace
<1>4. RungCandidate(space, i).analysis = space.analysis
  BY DEF RungCandidate, Candidate
<1> QED
  BY <1>3, <1>4, NoneAssumption DEF IsCandidate, IsFastSpace

\* The fast walk begins sound.
LEMMA FastStartSound ==
  ASSUME NEW pins, NEW space, IsFastSpace(space, pins), NEW rate, DOMAIN rate = {}
  PROVE  FastSound(space, pins, FastStart(space), rate)
<1> DEFINE first == RungCandidate(space, space.prior)
           s == FastStart(space)
<1>1. space.prior \in DOMAIN space.ladder /\ space.prior \in Int
  BY DEF IsFastSpace
<1>2. IsCandidate(first, pins) /\ first # None
  BY <1>1, RungIsCandidate
<1>3. Winner(first, 0) \in Winners
  BY <1>2 DEF IsCandidate, Winner, Winners
<1>4. s = [trial |-> s.trial, best |-> s.best, rung |-> space.prior, top |-> 0,
           at |-> space.prior, step |-> 1, flipped |-> FALSE, measured |-> {}, ranOut |-> FALSE]
      /\ \/ s.trial = None /\ s.best = Winner(first, 0)
         \/ s.trial = first /\ s.best = None
  BY DEF FastStart
<1> HIDE DEF s, first
<1>5. /\ s.rung = space.prior /\ s.step = 1 /\ s.flipped = FALSE
      /\ s.measured = {} /\ s.at = space.prior
  BY <1>4
<1>6. FastCandidates(space, pins, s)
  BY <1>1, <1>2, <1>3, <1>4, <1>5 DEF FastCandidates, Untried, Winner, first
<1>7. FastWalk(space, s)
  BY <1>1, <1>2, <1>4, <1>5 DEF FastWalk
<1>8. FastRates(s, rate)
  BY DEF FastRates
<1> QED
  BY <1>6, <1>7, <1>8 DEF FastSound, s

\* The first untried rung is untried.
LEMMA LeastUntried ==
  ASSUME NEW pins, NEW space, IsFastSpace(space, pins), NEW U \in SUBSET DOMAIN space.ladder, U # {}
  PROVE  (CHOOSE i \in U : \A l \in U : i <= l) \in U
<1>1. U \subseteq Nat
  BY DEF IsFastSpace
<1> QED
  BY <1>1, Least

\* A trial leaves the fast walk sound, however it ends (`search`, fast.rs).
LEMMA FastAfterSound ==
  ASSUME NEW pins, NEW space, IsFastSpace(space, pins), NEW s, NEW rate,
         FastSound(space, pins, s, rate), s.trial # None, space.mode = "fast",
         NEW r \in Nat \ {0}, s.trial \in DOMAIN rate => r = rate[s.trial],
         NEW outcome \in Endings(space, s, r), NEW withinBudget \in BOOLEAN
  PROVE  FastSound(space, pins, FastAfter(space, s, outcome, withinBudget),
                   Learnt(rate, s.trial, outcome, r))
<1> DEFINE t == FastAfter(space, s, outcome, withinBudget)
           known == Learnt(rate, s.trial, outcome, r)
           won == /\ outcome.kind = "measured"
                  /\ s.best = None \/ 100 * outcome.rate > (100 + TIE) * s.best.rate
           best     == IF won THEN Winner(s.trial, outcome.rate) ELSE s.best
           measured == s.measured \cup {s.rung}
           untried  == DOMAIN space.ladder \ measured
           at       == IF won THEN s.rung ELSE s.at
           lost     == ~won /\ best # None
           onward   == IF lost THEN -s.step ELSE s.step
           blocked  == at + onward \notin untried
           turn     == blocked /\ ~s.flipped /\ ~lost /\ best # None
           step     == IF turn THEN -onward ELSE onward
           least    == CHOOSE i \in untried : \A l \in untried : i <= l
           next     == IF lost /\ s.flipped THEN None
                       ELSE IF at + step \in untried THEN at + step
                       ELSE IF best = None /\ untried # {} THEN least
                       ELSE None
           asked    == Cardinality(measured) >= 2 /\ next # None
           go       == next # None /\ (asked => withinBudget)
<1>1. /\ t.trial = IF go THEN RungCandidate(space, next) ELSE None
      /\ t.best = best /\ t.measured = measured /\ t.at = at /\ t.step = step
      /\ t.rung = IF go THEN next ELSE s.rung
      /\ t.top = IF won THEN s.rung ELSE s.top
      /\ t.flipped = (s.flipped \/ lost \/ turn)
      /\ t.ranOut = (asked /\ ~withinBudget)
  <2>1. t = [trial |-> IF go THEN RungCandidate(space, next) ELSE None, best |-> best,
             rung |-> IF go THEN next ELSE s.rung, top |-> IF won THEN s.rung ELSE s.top,
             at |-> at, step |-> step, flipped |-> s.flipped \/ lost \/ turn,
             measured |-> measured, ranOut |-> asked /\ ~withinBudget]
    BY Zenon DEF FastAfter
  <2> HIDE DEF t, won, best, measured, at, lost, turn, step, next, asked, go
  <2> QED
    BY <2>1
<1>2. s.rung \in DOMAIN space.ladder /\ s.trial = RungCandidate(space, s.rung)
  BY DEF FastSound, FastCandidates, Untried
<1>3. DOMAIN space.ladder \subseteq Nat /\ s.rung \in Int /\ s.at \in Int /\ s.step \in {1, -1}
  BY <1>2 DEF IsFastSpace, FastSound, FastWalk
<1>4. IsCandidate(s.trial, pins)
  BY <1>2, RungIsCandidate
<1>5. outcome.kind = "measured" => outcome.rate = r
  BY DEF Endings, Measured, Pruned, Failed
<1>6. won => Winner(s.trial, r) \in Winners /\ best = Winner(s.trial, r) /\ best # None
  BY <1>4, <1>5, NoneAssumption DEF IsCandidate, Winner, Winners
<1>7. next # None => next \in untried /\ next \in Int
  <2>1. \/ next = None
        \/ next = at + step /\ at + step \in untried
        \/ untried # {} /\ next = least
    <3> HIDE DEF at, step, untried, lost, best, least
    <3> QED
      OBVIOUS
  <2>2. untried # {} => least \in untried
    <3> HIDE DEF measured
    <3>1. untried \in SUBSET DOMAIN space.ladder
      OBVIOUS
    <3> HIDE DEF untried
    <3> QED
      BY <3>1, LeastUntried
  <2>3. untried \subseteq Int
    BY <1>3
  <2> HIDE DEF next, untried, at, step, least
  <2> QED
    BY <2>1, <2>2, <2>3
<1>8. best # None /\ next # None => next = at + step
  OBVIOUS
<1>9. next = None /\ best # None => (lost /\ s.flipped) \/ at + step \notin untried
  <2>1. untried \subseteq Int
    BY <1>3
  <2> HIDE DEF at, step, untried, lost, best
  <2> QED
    BY <2>1, NoNumbersAssumption
<1>10. FastCandidates(space, pins, t)
  <2>1. t.trial # None => t.rung \in Untried(space, t) /\ t.trial = RungCandidate(space, t.rung)
    <3> HIDE DEF next, asked
    <3> QED
      BY <1>1, <1>7 DEF Untried
  <2>2. t.best # None => t.best \in Winners /\ IsCandidate(t.best.cand, pins)
    <3>1. won => best.cand = s.trial
      BY <1>6 DEF Winner
    <3> QED
      BY <1>1, <1>4, <1>6, <3>1 DEF FastSound, FastCandidates
  <2>3. t.measured \subseteq DOMAIN space.ladder
    BY <1>1, <1>2 DEF FastSound, FastCandidates
  <2> QED
    BY <2>1, <2>2, <2>3 DEF FastCandidates
<1>11. s.rung \in measured /\ measured # {} /\ s.measured \subseteq measured
  OBVIOUS
<1>12. FastRates(t, known)
  <2> DEFINE c == s.trial
             b == s.best.rate
  <2>1. /\ \A x \in DOMAIN rate : rate[x] \in Nat \ {0}
        /\ s.best = None => DOMAIN rate = {}
        /\ s.best # None => b \in Nat /\ \A x \in DOMAIN rate : 100 * rate[x] <= 103 * b
    BY DEF FastSound, FastRates, FastCandidates, Winners, TIE
  <2>2. /\ won => best # None /\ best.rate = r
        /\ ~won => best = s.best
    BY <1>5, <1>6 DEF Winner
  <2>3. won <=> outcome.kind = "measured" /\ (s.best = None \/ 100 * r > 103 * b)
    BY <1>5 DEF TIE
  <2>4. ASSUME outcome.kind = "pruned" PROVE s.best # None /\ 100 * r < 92 * b
    <3>1. 100 * r < PRUNE * BestSoFar(space, s)
      BY <2>4 DEF Endings, Measured, Pruned, Failed
    <3>2. BestSoFar(space, s) = IF s.best = None THEN 0 ELSE b
      BY DEF BestSoFar
    <3> QED
      BY <3>1, <3>2 DEF PRUNE
  <2>5. /\ outcome.kind \in {"failed", "measured", "pruned"}
        /\ outcome.kind = "failed" <=> outcome = Failed
    BY DEF Endings, Measured, Pruned, Failed
  <2>6. t.best = best /\ t.measured # {}
    BY <1>1, <1>11
  <2> HIDE DEF won, best, t, b
  <2>7. CASE outcome = Failed
    <3>1. ~won
      BY <2>3, <2>5, <2>7
    <3>2. known = rate
      BY <2>7 DEF Learnt
    <3> QED
      BY <2>1, <2>2, <2>6, <3>1, <3>2 DEF FastRates, b, TIE
  <2>8. CASE outcome # Failed
    <3>1. /\ DOMAIN known = DOMAIN rate \cup {c}
          /\ \A x \in DOMAIN known : known[x] = IF x = c THEN r ELSE rate[x]
      BY <2>8 DEF Learnt
    <3> HIDE DEF known, c
    <3>2. \A x \in DOMAIN known : known[x] = r \/ (x \in DOMAIN rate /\ known[x] = rate[x])
      BY <3>1
    <3>3. \A x \in DOMAIN known : known[x] \in Nat \ {0}
      BY <2>1, <3>2
    <3>4. t.best # None
      BY <2>2, <2>3, <2>4, <2>5, <2>6, <2>8
    <3>5. CASE won
      <4>1. t.best.rate = r
        BY <2>2, <2>6, <3>5
      <4>2. CASE s.best = None
        <5>1. \A x \in DOMAIN known : known[x] = r
          BY <2>1, <3>2, <4>2
        <5>2. \A x \in DOMAIN known : 100 * known[x] <= (100 + TIE) * t.best.rate
          BY <4>1, <5>1 DEF TIE
        <5> QED
          BY <2>6, <3>3, <3>4, <5>2 DEF FastRates
      <4>3. CASE s.best # None
        <5>1. 100 * r > 103 * b
          BY <2>3, <3>5, <4>3
        <5>2. \A x \in DOMAIN known : 100 * known[x] <= 103 * r
          BY <2>1, <3>2, <3>3, <4>3, <5>1
        <5>3. \A x \in DOMAIN known : 100 * known[x] <= (100 + TIE) * t.best.rate
          BY <4>1, <5>2 DEF TIE
        <5> QED
          BY <2>6, <3>3, <3>4, <5>3 DEF FastRates
      <4> QED
        BY <4>2, <4>3
    <3>6. CASE ~won
      <4>1. t.best = s.best /\ s.best # None
        BY <2>2, <2>6, <3>4, <3>6
      <4>2. 100 * r <= 103 * b
        BY <2>1, <2>3, <2>4, <2>5, <2>8, <3>6, <4>1
      <4>3. \A x \in DOMAIN known : 100 * known[x] <= (100 + TIE) * t.best.rate
        BY <2>1, <3>2, <4>1, <4>2 DEF TIE, b
      <4> QED
        BY <2>6, <3>3, <3>4, <4>3 DEF FastRates
    <3> QED
      BY <3>5, <3>6
  <2> QED
    BY <2>7, <2>8
<1>13. FastWalk(space, t)
  <2>1. /\ s.step \in {1, -1} /\ s.flipped \in BOOLEAN /\ s.at \in Int /\ s.rung \in Int
        /\ s.best = None => ~s.flipped /\ s.step = 1
        /\ s.best = None \/ s.measured # {}
        /\ s.best # None => /\ s.at = s.top /\ s.at \in s.measured /\ s.rung = s.at + s.step
                            /\ s.flipped => s.at - s.step \notin Untried(space, s)
    BY <1>3 DEF FastSound, FastWalk
  <2>2. /\ won => best # None
        /\ ~won => best = s.best
    BY <1>6
  <2>3. untried = Untried(space, t) /\ untried \subseteq Untried(space, s) /\ s.rung \notin untried
    BY <1>1 DEF Untried
  <2>4. /\ t.best = best /\ t.at = at /\ t.step = step /\ t.flipped = (s.flipped \/ lost \/ turn)
        /\ t.measured = measured /\ t.top = IF won THEN s.rung ELSE s.top
        /\ t.trial # None => t.rung = next /\ next # None
        /\ t.trial = None /\ ~t.ranOut => next = None
    <3>1. go => RungCandidate(space, next) # None
      <4> HIDE DEF next, untried
      <4>1. next # None => next \in DOMAIN space.ladder
        BY <1>7 DEF untried
      <4> QED
        BY <4>1, RungIsCandidate
    <3> HIDE DEF next, t, at, step, lost, turn, best, won, measured
    <3> QED
      BY <1>1, <3>1
  <2>5. at \in Int /\ (best # None => at \in measured)
    BY <2>1, <2>2
  <2>6. best # None => at = t.top
    BY <2>1, <2>2, <2>4
  <2>7. step \in {1, -1}
    BY <2>1
  <2>8. best = None => ~t.flipped /\ step = 1
    BY <2>1, <2>2, <2>4
  <2> HIDE DEF measured, untried, next, t
  <2>9. best # None /\ (s.flipped \/ lost \/ turn) => at - step \notin untried
    <3> SUFFICES ASSUME best # None, s.flipped \/ lost \/ turn PROVE at - step \notin untried
      OBVIOUS
    <3>1. CASE turn
      BY <2>1, <3>1
    <3>2. CASE ~turn /\ lost
      <4>1. step = -s.step /\ at = s.at /\ s.best # None /\ s.rung = s.at + s.step
        BY <2>1, <2>2, <3>2
      <4> QED
        BY <2>1, <2>3, <4>1
    <3>3. CASE ~turn /\ ~lost
      <4>1. won /\ s.flipped /\ step = s.step /\ at = s.rung
        BY <3>3
      <4>2. s.best # None /\ s.rung - s.step = s.at
        BY <2>1, <4>1
      <4>3. s.at \notin untried
        BY <2>1, <4>2 DEF untried, measured
      <4> QED
        BY <4>1, <4>2, <4>3
    <3> QED
      BY <3>1, <3>2, <3>3
  <2>10. ASSUME best # None, next = None PROVE at - 1 \notin untried /\ at + 1 \notin untried
    <3>1. CASE lost /\ s.flipped
      <4>1. at = s.at /\ s.best # None
        BY <2>2, <3>1
      <4>2. s.at + s.step \notin untried /\ s.at - s.step \notin untried
        BY <2>1, <2>3, <3>1, <4>1
      <4> QED
        BY <2>1, <4>1, <4>2
    <3>2. CASE ~(lost /\ s.flipped)
      <4>1. at + step \notin untried
        BY <1>9, <2>10, <3>2
      <4>2. s.flipped \/ lost \/ turn
        BY <2>10, <4>1
      <4>3. at - step \notin untried
        BY <2>9, <2>10, <4>2
      <4> QED
        BY <2>5, <2>7, <4>1, <4>3
    <3> QED
      BY <3>1, <3>2
  <2> HIDE DEF at, step, best, lost, turn, won
  <2>11. t.flipped \in BOOLEAN
    BY <2>1, <2>4 DEF lost, turn, blocked
  <2>12. t.best # None => /\ t.at = t.top /\ t.at \in t.measured
                          /\ t.trial # None => t.rung = t.at + t.step
                          /\ t.trial # None /\ t.flipped => t.at - t.step \notin Untried(space, t)
                          /\ t.trial = None /\ ~t.ranOut =>
                                /\ t.at - 1 \notin Untried(space, t)
                                /\ t.at + 1 \notin Untried(space, t)
    BY <1>8, <2>3, <2>4, <2>5, <2>6, <2>9, <2>10
  <2> QED
    BY <1>11, <2>4, <2>5, <2>7, <2>8, <2>11, <2>12 DEF FastWalk
<1> QED
  BY <1>10, <1>12, <1>13 DEF FastSound

-----------------------------------------------------------------------------
(* The thorough search.                                                    *)

\* A candidate scored in one window or more, each of which ran at its rate.
Steady(a, pins, rate) ==
    /\ a = [cand |-> a.cand, sum |-> a.sum, windows |-> a.windows]
    /\ IsCandidate(a.cand, pins) /\ a.cand \in DOMAIN rate /\ rate[a.cand] \in Nat \ {0}
    /\ a.windows \in Nat \ {0} /\ a.sum = a.windows * rate[a.cand]

\* A common factor does not matter to an order.
LEMMA Cancel ==
  ASSUME NEW x \in Nat, NEW y \in Nat, NEW m \in Nat \ {0}
  PROVE  x * m >= y * m <=> x >= y
  OBVIOUS

\* Means compare as rates do.
LEMMA AtLeastRates ==
  ASSUME NEW pins, NEW rate, NEW a, NEW b, Steady(a, pins, rate), Steady(b, pins, rate),
         NEW percent \in Nat
  PROVE  AtLeast(a, percent, b) <=> 100 * rate[a.cand] >= percent * rate[b.cand]
<1> DEFINE p == rate[a.cand]
           q == rate[b.cand]
           v == a.windows
           w == b.windows
<1>1. /\ p \in Nat /\ q \in Nat /\ v \in Nat \ {0} /\ w \in Nat \ {0}
      /\ a.sum = v * p /\ b.sum = w * q
  BY DEF Steady
<1>2. AtLeast(a, percent, b) <=> 100 * a.sum * w >= percent * b.sum * v
  BY DEF AtLeast
<1> HIDE DEF p, q, v, w
<1> DEFINE x == 100 * p
           y == percent * q
           m == v * w
<1>3. x \in Nat /\ y \in Nat /\ m \in Nat \ {0}
  BY <1>1
<1>4. 100 * a.sum * w = x * m /\ percent * b.sum * v = y * m
  BY <1>1
<1> HIDE DEF x, y, m
<1>5. x * m >= y * m <=> x >= y
  BY <1>3, Cancel
<1> QED
  BY <1>2, <1>4, <1>5 DEF p, q, x, y

\* The mean of windows that ran at one rate is the rate.
LEMMA MeanIsRate ==
  ASSUME NEW pins, NEW rate, NEW a, Steady(a, pins, rate)
  PROVE  MeanRate(a) = rate[a.cand]
<1> DEFINE p == rate[a.cand]
           v == a.windows
<1>1. p \in Nat /\ v \in Nat \ {0} /\ a.sum = v * p
  BY DEF Steady
<1> HIDE DEF p, v
<1>2. (v * p) \div v = p
  BY <1>1
<1> QED
  BY <1>1, <1>2 DEF MeanRate, p, v

\* Of finitely many rates one is the greatest.
LEMMA FastestOf ==
  ASSUME NEW n \in Nat \ {0}, NEW R, \A i \in 1..n : R[i] \in Nat
  PROVE  \E j \in 1..n : \A i \in 1..n : R[i] <= R[j]
<1> DEFINE T == {k \in Nat : k \in 1..n => \E j \in 1..k : \A i \in 1..k : R[i] <= R[j]}
<1>1. 0 \in T
  OBVIOUS
<1>2. ASSUME NEW k \in Nat, k \in T PROVE k + 1 \in T
  <2> SUFFICES ASSUME k + 1 \in 1..n
               PROVE  \E j \in 1..k + 1 : \A i \in 1..k + 1 : R[i] <= R[j]
    OBVIOUS
  <2>1. CASE k = 0
    <3>1. 1 \in 1..k + 1 /\ \A i \in 1..k + 1 : i = 1 /\ R[i] <= R[1]
      BY <2>1
    <3> QED
      BY <3>1
  <2>2. CASE k # 0
    <3>1. PICK j \in 1..k : \A i \in 1..k : R[i] <= R[j]
      BY <1>2, <2>2
    <3>2. R[j] \in Nat /\ R[k + 1] \in Nat
      OBVIOUS
    <3>3. CASE R[k + 1] <= R[j]
      <4>1. j \in 1..k + 1 /\ \A i \in 1..k + 1 : R[i] <= R[j]
        BY <3>1, <3>3
      <4> QED
        BY <4>1
    <3>4. CASE R[j] <= R[k + 1]
      <4>1. \A i \in 1..k : R[i] <= R[k + 1]
        <5> TAKE i \in 1..k
        <5>1. R[i] \in Nat /\ R[i] <= R[j]
          BY <3>1
        <5> QED
          BY <3>2, <3>4, <5>1
      <4>2. \A i \in 1..k + 1 : R[i] <= R[k + 1]
        BY <3>2, <4>1
      <4>3. k + 1 \in 1..k + 1
        OBVIOUS
      <4> QED
        BY <4>2, <4>3
    <3> QED
      BY <3>2, <3>3, <3>4
  <2> QED
    BY <2>1, <2>2
<1>3. n \in T
  <2> HIDE DEF T
  <2> QED
    BY <1>1, <1>2, Induct
<1> QED
  BY <1>3

\* So are all that are scored.
AllSteady(scored, pins, rate) ==
    /\ Len(scored) \in Nat /\ scored \in Seq(Range(scored))
    /\ \A i \in DOMAIN scored : Steady(scored[i], pins, rate)

\* The leader of the scored is one of them, and none is faster.
LEMMA LeaderIsFastest ==
  ASSUME NEW pins, NEW rate, NEW scored, AllSteady(scored, pins, rate), scored # <<>>
  PROVE  \E j \in DOMAIN scored :
            /\ Leader(scored) = scored[j]
            /\ \A i \in DOMAIN scored : rate[scored[i].cand] <= rate[scored[j].cand]
<1> DEFINE n == Len(scored)
           R == [i \in 1..n |-> rate[scored[i].cand]]
           Leads(a) == \A b \in ToSet(scored) : AtLeast(a, 100, b)
<1>1. n \in Nat \ {0} /\ DOMAIN scored = 1..n
  BY DEF AllSteady
<1>2. \A i \in 1..n : Steady(scored[i], pins, rate) /\ rate[scored[i].cand] \in Nat
  BY <1>1 DEF AllSteady, Steady
<1>3. ToSet(scored) = {scored[i] : i \in 1..n}
  BY <1>1 DEF ToSet
<1> HIDE DEF n
<1>4. PICK j \in 1..n : \A i \in 1..n : R[i] <= R[j]
  <2>1. \A i \in 1..n : R[i] \in Nat
    BY <1>2
  <2> HIDE DEF R
  <2> QED
    BY <1>1, <2>1, FastestOf
<1>5. ASSUME NEW a \in 1..n, NEW b \in 1..n
      PROVE  AtLeast(scored[a], 100, scored[b]) <=>
                rate[scored[a].cand] >= rate[scored[b].cand]
  <2>1. AtLeast(scored[a], 100, scored[b]) <=>
           100 * rate[scored[a].cand] >= 100 * rate[scored[b].cand]
    BY <1>2, AtLeastRates
  <2> DEFINE x == rate[scored[a].cand]
             y == rate[scored[b].cand]
  <2>2. x \in Nat /\ y \in Nat
    BY <1>2
  <2> HIDE DEF x, y
  <2>3. 100 * x >= 100 * y <=> x >= y
    BY <2>2
  <2> QED
    BY <2>1, <2>3 DEF x, y
<1>6. Leads(scored[j])
  BY <1>2, <1>3, <1>4, <1>5
<1>7. scored[j] \in ToSet(scored)
  BY <1>3
<1>8. Leader(scored) \in ToSet(scored) /\ Leads(Leader(scored))
  <2>1. Leader(scored) = CHOOSE a \in ToSet(scored) : Leads(a)
    BY DEF Leader
  <2> HIDE DEF Leads
  <2> QED
    BY <1>6, <1>7, <2>1
<1>9. PICK l \in 1..n : Leader(scored) = scored[l]
  BY <1>3, <1>8
<1>10. \A i \in 1..n : rate[scored[i].cand] <= rate[scored[l].cand]
  BY <1>2, <1>3, <1>5, <1>8, <1>9
<1> QED
  BY <1>1, <1>9, <1>10

\* The winner of a stage is one of the scored, and within TIE of the fastest.
LEMMA StageWinnerNear ==
  ASSUME NEW pins, NEW rate, NEW scored, AllSteady(scored, pins, rate), scored # <<>>
  PROVE  \E j \in DOMAIN scored :
            /\ StageWinner(scored) = scored[j]
            /\ \A i \in DOMAIN scored :
                  97 * rate[scored[i].cand] <= 100 * rate[scored[j].cand]
<1> DEFINE n == Len(scored)
           I == {i \in 1..n : AtLeast(scored[i], 100 - TIE, Leader(scored))}
<1>1. n \in Nat \ {0} /\ DOMAIN scored = 1..n
  BY DEF AllSteady
<1>2. \A i \in 1..n : Steady(scored[i], pins, rate) /\ rate[scored[i].cand] \in Nat
  BY <1>1 DEF AllSteady, Steady
<1>3. PICK l \in 1..n :
         /\ Leader(scored) = scored[l]
         /\ \A i \in 1..n : rate[scored[i].cand] <= rate[scored[l].cand]
  BY <1>1, LeaderIsFastest
<1>4. StageWinner(scored) = scored[IF I # {} THEN Min(I) ELSE 0]
  BY DEF StageWinner, SelectInSeq
<1> HIDE DEF n
<1>5. \A i \in 1..n : AtLeast(scored[i], 97, scored[l]) <=>
                         100 * rate[scored[i].cand] >= 97 * rate[scored[l].cand]
  BY <1>2, AtLeastRates
<1>6. I = {i \in 1..n : 100 * rate[scored[i].cand] >= 97 * rate[scored[l].cand]}
  <2>1. 100 - TIE = 97
    BY DEF TIE
  <2> QED
    BY <1>3, <1>5, <2>1
<1>7. l \in I
  BY <1>2, <1>6
<1>8. I \subseteq Nat /\ I # {}
  BY <1>7
<1>9. Min(I) \in I
  <2> HIDE DEF I
  <2>1. \E m \in I : \A i \in I : m <= i
    BY <1>8, Least
  <2>2. Min(I) = CHOOSE x \in I : \A y \in I : x <= y
    BY DEF Min
  <2> QED
    BY <2>1, <2>2
<1> DEFINE j == Min(I)
<1>10. j \in 1..n /\ 100 * rate[scored[j].cand] >= 97 * rate[scored[l].cand]
  BY <1>6, <1>9
<1>11. StageWinner(scored) = scored[j]
  BY <1>4, <1>8
<1> HIDE DEF j, I
<1>12. \A i \in 1..n : 97 * rate[scored[i].cand] <= 100 * rate[scored[j].cand]
  <2> TAKE i \in 1..n
  <2> DEFINE x == rate[scored[i].cand]
             y == rate[scored[l].cand]
             z == rate[scored[j].cand]
  <2>1. x \in Nat /\ y \in Nat /\ z \in Nat /\ x <= y /\ 100 * z >= 97 * y
    BY <1>2, <1>3, <1>10
  <2> HIDE DEF x, y, z
  <2>2. 97 * x <= 100 * z
    BY <2>1
  <2> QED
    BY <2>2 DEF x, z
<1> QED
  BY <1>1, <1>10, <1>11, <1>12

\* The candidates an engine with these pins can be given.
Fit(pins) == {c \in Candidates : IsCandidate(c, pins)}

\* Everything that was measured is covered by a scored candidate: in the second
\* stage up to the tie the first one forgave.
Share(stage) == IF stage = "pairs" THEN 100 ELSE 97
Covers(stage, scored, rate) ==
    \A c \in DOMAIN rate : \E i \in DOMAIN scored :
        Share(stage) * rate[c] <= 100 * rate[scored[i].cand]

\* A rate that was seen is not 0.
PositiveRates(rate) == \A c \in DOMAIN rate : rate[c] \in Nat \ {0}

\* A winner the engine can be given, and no rate beats it by more than two ties.
WinsOver(best, pins, rate) ==
    /\ best \in Winners /\ IsCandidate(best.cand, pins)
    /\ \A c \in DOMAIN rate : 9409 * rate[c] <= 10000 * best.rate

\* What the search has left to measure fits, and what it measured is covered.
ThoroughSound(pins, s, rate) ==
    /\ PositiveRates(rate)
    /\ AllSteady(s.scored, pins, rate)
    /\ s.todo \in Seq(Fit(pins))
    /\ s.again \in Seq(DOMAIN s.scored)
    /\ s.trial # None =>
          /\ \/ s.todo # <<>> /\ s.trial = Head(s.todo)
             \/ s.todo = <<>> /\ s.again # <<>> /\ s.trial = s.scored[Head(s.again)].cand
          /\ s.best = None
          /\ Covers(s.stage, s.scored, rate)
    /\ s.best # None => WinsOver(s.best, pins, rate)

\* A stage is sound when what was measured is covered by what is scored.
LEMMA StageSound ==
  ASSUME NEW pins, NEW rate, PositiveRates(rate), NEW scored, AllSteady(scored, pins, rate),
         NEW todo \in Seq(Fit(pins)), NEW again \in Seq(DOMAIN scored),
         NEW name, Covers(name, scored, rate)
  PROVE  ThoroughSound(pins, Stage(name, todo, again, scored), rate)
<1> DEFINE s == Stage(name, todo, again, scored)
<1>1. /\ s.stage = name /\ s.todo = todo /\ s.again = again /\ s.scored = scored
      /\ s.best = None
      /\ s.trial = IF todo # <<>> THEN Head(todo)
                   ELSE IF again # <<>> THEN scored[Head(again)].cand ELSE None
  BY DEF Stage
<1> HIDE DEF s
<1>2. ThoroughSound(pins, s, rate)
  BY <1>1 DEF ThoroughSound
<1> QED
  BY <1>2 DEF s

\* So is the end of a search.
LEMMA OverSound ==
  ASSUME NEW pins, NEW rate, PositiveRates(rate), NEW scored, AllSteady(scored, pins, rate),
         NEW s, NEW best, best = None \/ WinsOver(best, pins, rate)
  PROVE  ThoroughSound(pins, Over(s, scored, best), rate)
<1> DEFINE t == Over(s, scored, best)
<1>1. /\ t.todo = <<>> /\ t.again = <<>> /\ t.scored = scored /\ t.best = best /\ t.trial = None
  BY DEF Over, Stage
<1> HIDE DEF t
<1>2. t.todo \in Seq(Fit(pins)) /\ t.again \in Seq(DOMAIN scored)
  BY <1>1
<1>3. ThoroughSound(pins, t, rate)
  BY <1>1, <1>2 DEF ThoroughSound
<1> QED
  BY <1>3 DEF t

\* A sequence is one over its own range.
LEMMA OwnRange ==
  ASSUME NEW S, NEW s \in Seq(S)
  PROVE  s \in Seq(Range(s))
<1> DEFINE R == Range(s)
<1>1. Len(s) \in Nat /\ s \in [1..Len(s) -> R]
  BY DEF Range
<1> HIDE DEF R
<1>2. s \in Seq(R)
  BY <1>1
<1> QED
  BY <1>2 DEF R

\* The thorough search begins sound.
LEMMA ThoroughStartSound ==
  ASSUME NEW pins, NEW space, IsThoroughSpace(space, pins), NEW rate, DOMAIN rate = {}
  PROVE  ThoroughSound(pins, ThoroughStart(space), rate)
<1> DEFINE n == Len(space.serverBatch)
           cand(i) == Candidate(space.analysis[1], space.serverBatch[i][1],
                                space.serverBatch[i][2])
           first == [i \in DOMAIN space.serverBatch |-> cand(i)]
           begun == Stage("pairs", first, <<>>, <<>>)
<1>1. /\ n \in Nat \ {0} /\ DOMAIN space.serverBatch = 1..n /\ 1 \in DOMAIN space.analysis
      /\ space.analysis[1] \in Chosen
      /\ \A i \in 1..n : space.serverBatch[i] \in Chosen \X Chosen
  BY DEF IsThoroughSpace
<1>2. \A i \in 1..n : cand(i) \in Fit(pins)
  <2> TAKE i \in 1..n
  <2>1. space.serverBatch[i][1] \in Chosen /\ space.serverBatch[i][2] \in Chosen
    BY <1>1
  <2>2. cand(i) \in Candidates /\ cand(i).analysis = space.analysis[1]
    BY <1>1, <2>1 DEF Candidate, Candidates
  <2> QED
    BY <1>1, <2>2 DEF Fit, IsCandidate, IsThoroughSpace
<1>3. first \in Seq(Fit(pins)) /\ first[1] \in Fit(pins)
  <2>1. first = [i \in 1..n |-> first[i]] /\ \A i \in 1..n : first[i] = cand(i)
    BY <1>1
  <2> HIDE DEF first, cand, n
  <2>2. first \in [1..n -> Fit(pins)]
    BY <1>2, <2>1
  <2> QED
    BY <1>1, <1>2, <2>1, <2>2, SeqFromFunction
<1>4. ThoroughStart(space) = IF Len(space.analysis) <= 1 /\ Len(space.serverBatch) <= 1
                             THEN Over(begun, <<>>, Winner(first[1], 0)) ELSE begun
  BY DEF ThoroughStart
<1> HIDE DEF first
<1>5. AllSteady(<<>>, pins, rate) /\ PositiveRates(rate)
  <2>1. <<>> \in Seq(Range(<<>>)) /\ Len(<<>>) = 0 /\ DOMAIN <<>> = {}
    BY OwnRange
  <2> QED
    BY <2>1 DEF AllSteady, PositiveRates
<1>6. ThoroughSound(pins, begun, rate)
  <2>1. <<>> \in Seq(DOMAIN <<>>) /\ Covers("pairs", <<>>, rate)
    BY DEF Covers
  <2> QED
    BY <1>3, <1>5, <2>1, StageSound
<1>7. WinsOver(Winner(first[1], 0), pins, rate)
  <2>1. first[1] \in Candidates /\ IsCandidate(first[1], pins)
    BY <1>3 DEF Fit
  <2> QED
    BY <2>1 DEF WinsOver, Winner, Winners
<1> HIDE DEF begun
<1>8. ThoroughSound(pins, Over(begun, <<>>, Winner(first[1], 0)), rate)
  BY <1>5, <1>7, OverSound
<1> QED
  BY <1>4, <1>6, <1>8

\* The end of a stage hands over, or ends the search, within its tie.
LEMMA StageEndsSound ==
  ASSUME NEW pins, NEW space, IsThoroughSpace(space, pins), NEW rate, PositiveRates(rate),
         NEW scored, AllSteady(scored, pins, rate),
         NEW s, Covers(s.stage, scored, rate)
  PROVE  ThoroughSound(pins, StageEnds(space, s, scored), rate)
<1>1. CASE scored = <<>>
  BY <1>1, OverSound DEF StageEnds
<1>2. CASE scored # <<>>
  <2>1. PICK j \in DOMAIN scored :
           /\ StageWinner(scored) = scored[j]
           /\ \A i \in DOMAIN scored : 97 * rate[scored[i].cand] <= 100 * rate[scored[j].cand]
    BY <1>2, StageWinnerNear
  <2> DEFINE w == scored[j]
             top == rate[w.cand]
             other(i) == [w.cand EXCEPT !.analysis = space.analysis[i + 1]]
             m == Len(space.analysis)
             rest == [i \in 1..m - 1 |-> other(i)]
  <2>2. Steady(w, pins, rate) /\ top \in Nat \ {0}
    BY DEF AllSteady, Steady
  <2>3. StageEnds(space, s, scored) =
           IF s.stage = "pairs" /\ rest # <<>>
           THEN Stage("threads", rest, <<>>, <<w>>)
           ELSE Over(s, scored, Winner(w.cand, MeanRate(w)))
    BY <1>2, <2>1 DEF StageEnds
  <2>4. rest \in Seq(Fit(pins))
    <3>1. /\ m \in Nat \ {0}
          /\ \A i \in 1..m - 1 : /\ i + 1 \in DOMAIN space.analysis
                                 /\ space.analysis[i + 1] \in Chosen
      BY DEF IsThoroughSpace
    <3>2. w.cand \in Candidates
      BY <2>2 DEF Steady, IsCandidate
    <3>3. \A i \in 1..m - 1 : other(i) \in Fit(pins)
      <4> TAKE i \in 1..m - 1
      <4>1. other(i) \in Candidates /\ other(i).analysis = space.analysis[i + 1]
        BY <3>1, <3>2 DEF Candidates
      <4> QED
        BY <3>1, <4>1 DEF Fit, IsCandidate, IsThoroughSpace
    <3> HIDE DEF other, m
    <3>4. rest \in [1..m - 1 -> Fit(pins)]
      BY <3>3
    <3> HIDE DEF rest
    <3> QED
      BY <3>1, <3>4, SeqFromFunction
  <2>5. \A c \in DOMAIN rate : \E i \in DOMAIN scored :
           Share(s.stage) * rate[c] <= 100 * rate[scored[i].cand]
    BY DEF Covers
  <2>6. \A i \in DOMAIN scored : rate[scored[i].cand] \in Nat
    BY DEF AllSteady, Steady
  <2> HIDE DEF rest
  <2>7. ASSUME s.stage = "pairs" PROVE \A c \in DOMAIN rate : 97 * rate[c] <= 100 * top
    <3> TAKE c \in DOMAIN rate
    <3>1. PICK i \in DOMAIN scored : 100 * rate[c] <= 100 * rate[scored[i].cand]
      BY <2>5, <2>7 DEF Share
    <3> DEFINE x == rate[c]
               y == rate[scored[i].cand]
    <3>2. x \in Nat /\ y \in Nat /\ top \in Nat /\ 100 * x <= 100 * y /\ 97 * y <= 100 * top
      BY <2>1, <2>2, <2>6, <3>1 DEF PositiveRates
    <3> HIDE DEF x, y, top
    <3>3. 97 * x <= 100 * top
      BY <3>2
    <3> QED
      BY <3>3 DEF x
  <2>8. \A c \in DOMAIN rate : 9409 * rate[c] <= 10000 * top
    <3> TAKE c \in DOMAIN rate
    <3>1. PICK i \in DOMAIN scored : Share(s.stage) * rate[c] <= 100 * rate[scored[i].cand]
      BY <2>5
    <3> DEFINE x == rate[c]
               y == rate[scored[i].cand]
    <3>2. x \in Nat /\ y \in Nat /\ top \in Nat /\ 97 * x <= 100 * y /\ 97 * y <= 100 * top
      BY <2>1, <2>2, <2>6, <3>1 DEF PositiveRates, Share
    <3> HIDE DEF x, y, top
    <3>3. 9409 * x <= 10000 * top
      BY <3>2
    <3> QED
      BY <3>3 DEF x
  <2>9. CASE s.stage = "pairs" /\ rest # <<>>
    <3>1. AllSteady(<<w>>, pins, rate)
      <4> HIDE DEF w
      <4>0. <<w>> \in Seq({w}) /\ Len(<<w>>) = 1 /\ DOMAIN <<w>> = 1..1
        OBVIOUS
      <4>1. <<w>> \in Seq(Range(<<w>>))
        BY <4>0, OwnRange
      <4>2. \A i \in 1..1 : <<w>>[i] = w
        OBVIOUS
      <4> QED
        BY <2>2, <4>0, <4>1, <4>2 DEF AllSteady
    <3>2. Covers("threads", <<w>>, rate)
      <4>1. 1 \in DOMAIN <<w>> /\ <<w>>[1] = w
        OBVIOUS
      <4> QED
        BY <2>7, <2>9, <4>1 DEF Covers, Share
    <3>3. <<>> \in Seq(DOMAIN <<w>>)
      OBVIOUS
    <3> HIDE DEF w
    <3> QED
      BY <2>3, <2>4, <2>9, <3>1, <3>2, <3>3, StageSound
  <2>10. CASE ~(s.stage = "pairs" /\ rest # <<>>)
    <3>1. MeanRate(w) = top
      BY <2>2, MeanIsRate
    <3>2. WinsOver(Winner(w.cand, MeanRate(w)), pins, rate)
      BY <2>2, <2>8, <3>1 DEF WinsOver, Winner, Winners, Steady, IsCandidate
    <3> HIDE DEF w
    <3> QED
      BY <2>3, <2>10, <3>2, OverSound
  <2> QED
    BY <2>9, <2>10
<1> QED
  BY <1>1, <1>2

\* What is scored stays so when another rate is learnt.
LEMMA StillSteady ==
  ASSUME NEW pins, NEW rate, NEW known, DOMAIN rate \subseteq DOMAIN known,
         \A c \in DOMAIN rate : known[c] = rate[c],
         NEW scored, AllSteady(scored, pins, rate)
  PROVE  AllSteady(scored, pins, known)
  BY DEF AllSteady, Steady

\* Contenders are positions of scored candidates, no more than are scored.
LEMMA ContendersFacts ==
  ASSUME NEW n \in Nat, NEW scored, DOMAIN scored = 1..n
  PROVE  Contenders(scored) \in Seq(DOMAIN scored) /\ Len(Contenders(scored)) <= n
<1> DEFINE near == {i \in DOMAIN scored : AtLeast(scored[i], 100 - CLOSE, Leader(scored))}
           f == [i \in DOMAIN scored |-> i]
           E == {f[i] : i \in near \cap DOMAIN f}
           close == Selected(f, near)
<1>1. Contenders(scored) = <<>> \/ Contenders(scored) = close
  BY DEF Contenders
<1>2. f \in [1..n -> DOMAIN scored]
  OBVIOUS
<1>3. E \subseteq DOMAIN scored
  OBVIOUS
<1> HIDE DEF f, near
<1>4. f \in Seq(DOMAIN scored) /\ Len(f) = n
  BY <1>2, SeqFromFunction
<1>5. close \in Seq(E) /\ Len(close) <= n
  BY <1>4, SelectedFacts
<1> HIDE DEF close, E
<1>6. close \in Seq(DOMAIN scored)
  BY <1>3, <1>5, SeqWider
<1>7. <<>> \in Seq(DOMAIN scored) /\ Len(<<>>) = 0
  OBVIOUS
<1> HIDE DEF f, near, close
<1>8. CASE Contenders(scored) = <<>>
  BY <1>7, <1>8
<1>9. CASE Contenders(scored) = close
  BY <1>5, <1>6, <1>9
<1> QED
  BY <1>1, <1>8, <1>9 DEF close

\* A candidate's first window: everything else stays where it was scored.
Gained(all, scored, c, pins, rate) ==
    /\ AllSteady(all, pins, rate)
    /\ DOMAIN scored \subseteq DOMAIN all
    /\ \A i \in DOMAIN scored : all[i] = scored[i]
    /\ \E i \in DOMAIN all : all[i].cand = c

\* The first window of a candidate at its rate.
LEMMA FirstWindow ==
  ASSUME NEW pins, NEW rate, NEW scored, AllSteady(scored, pins, rate),
         NEW c, IsCandidate(c, pins), c \in DOMAIN rate, rate[c] \in Nat \ {0}
  PROVE  Gained(Append(scored, Scored(c, rate[c])), scored, c, pins, rate)
<1> DEFINE x == Scored(c, rate[c])
           n == Len(scored)
           all == Append(scored, x)
           S == Range(scored) \cup {x}
<1>1. x.cand = c /\ Steady(x, pins, rate)
  BY DEF Scored, Steady
<1>2. n \in Nat /\ scored \in Seq(S)
  <2>1. scored \in Seq(Range(scored)) /\ Range(scored) \subseteq S
    BY DEF AllSteady
  <2> HIDE DEF S
  <2> QED
    BY <2>1, SeqWider
<1>3. x \in S
  OBVIOUS
<1> HIDE DEF x, S
<1>4. /\ all \in Seq(S) /\ Len(all) = n + 1 /\ all[n + 1] = x
      /\ DOMAIN all = 1..n + 1 /\ DOMAIN scored = 1..n
      /\ \A i \in 1..n : all[i] = scored[i]
  BY <1>2, <1>3
<1> HIDE DEF all, n
<1>5. all \in Seq(Range(all))
  BY <1>4, OwnRange
<1>6. \A i \in DOMAIN all : Steady(all[i], pins, rate)
  <2> TAKE i \in DOMAIN all
  <2>1. i \in 1..n \/ i = n + 1
    BY <1>2, <1>4
  <2>2. \A l \in 1..n : Steady(scored[l], pins, rate)
    BY <1>4 DEF AllSteady
  <2> QED
    BY <1>1, <1>4, <2>1, <2>2
<1>7. Len(all) \in Nat /\ n + 1 \in DOMAIN all
  BY <1>2, <1>4
<1>8. AllSteady(all, pins, rate)
  BY <1>5, <1>6, <1>7 DEF AllSteady
<1> QED
  BY <1>1, <1>2, <1>4, <1>7, <1>8 DEF Gained, all, x

\* A score with one more window.
LEMMA OneMore ==
  ASSUME NEW c, NEW p, NEW v, NEW r,
         NEW y, y = [cand |-> c, sum |-> p, windows |-> v],
         NEW x, x = [y EXCEPT !.sum = @ + r],
         NEW z, z = [x EXCEPT !.windows = @ + 1]
  PROVE  z = [cand |-> c, sum |-> p + r, windows |-> v + 1]
<1>1. DOMAIN z = {"cand", "sum", "windows"}
  OBVIOUS
<1>2. z = [f \in {"cand", "sum", "windows"} |-> z[f]]
  BY <1>1
<1>3. z = [cand |-> z.cand, sum |-> z.sum, windows |-> z.windows]
  BY <1>2
<1>4. x.cand = c /\ x.sum = p + r /\ x.windows = v
  OBVIOUS
<1>5. z.cand = c /\ z.sum = p + r /\ z.windows = v + 1
  BY <1>1, <1>4
<1> QED
  BY <1>3, <1>5

\* The head and the tail of a sequence that is not empty.
LEMMA HeadAndTail ==
  ASSUME NEW S, NEW s \in Seq(S), s # <<>>
  PROVE  Head(s) \in S /\ Tail(s) \in Seq(S)
  OBVIOUS

\* A function on 1..n is a sequence over its range.
LEMMA FunctionSeq ==
  ASSUME NEW n \in Nat, NEW f, f = [i \in 1..n |-> f[i]]
  PROVE  f \in Seq(Range(f)) /\ Len(f) = n
<1> DEFINE R == Range(f)
<1>1. f \in [1..n -> R]
  BY DEF Range
<1> HIDE DEF R
<1>2. f \in Seq(R) /\ Len(f) = n
  BY <1>1, SeqFromFunction
<1> QED
  BY <1>2 DEF R

\* Another window of a contender: the same candidates are scored.
Renewed(all, scored, pins, rate) ==
    /\ AllSteady(all, pins, rate) /\ DOMAIN all = DOMAIN scored
    /\ \A l \in DOMAIN scored : all[l].cand = scored[l].cand

\* Another window at the candidate's rate.
LEMMA NextWindow ==
  ASSUME NEW pins, NEW rate, NEW scored, AllSteady(scored, pins, rate),
         NEW i \in DOMAIN scored, NEW r, r = rate[scored[i].cand],
         NEW all, all = [scored EXCEPT ![i].sum = @ + r, ![i].windows = @ + 1]
  PROVE  Renewed(all, scored, pins, rate)
<1> DEFINE n == Len(scored)
           x == [cand |-> scored[i].cand, sum |-> scored[i].sum + r,
                 windows |-> scored[i].windows + 1]
<1>1. /\ n \in Nat /\ DOMAIN scored = 1..n /\ scored \in Seq(Range(scored))
      /\ \A l \in 1..n : Steady(scored[l], pins, rate)
  BY DEF AllSteady
<1>2. scored[i] = [cand |-> scored[i].cand, sum |-> scored[i].sum,
                   windows |-> scored[i].windows]
  BY DEF AllSteady, Steady
<1>3. all[i] = x /\ DOMAIN all = 1..n /\ \A l \in 1..n : l # i => all[l] = scored[l]
  <2> HIDE DEF n
  <2>1. /\ DOMAIN all = DOMAIN scored /\ (\A l \in DOMAIN scored : l # i => all[l] = scored[l])
        /\ all[i] = [[scored[i] EXCEPT !.sum = @ + r] EXCEPT !.windows = @ + 1]
    OBVIOUS
  <2>2. all[i] = x
    BY <1>2, <2>1, OneMore
  <2> HIDE DEF x
  <2> QED
    BY <1>1, <2>1, <2>2
<1>4. Steady(x, pins, rate)
  <2> DEFINE v == scored[i].windows
             p == rate[scored[i].cand]
  <2>1. v \in Nat \ {0} /\ p \in Nat \ {0} /\ scored[i].sum = v * p
    BY <1>1 DEF Steady
  <2> HIDE DEF v, p
  <2>2. v * p + p = (v + 1) * p
    BY <2>1
  <2>3. x.sum = x.windows * p /\ x.windows \in Nat \ {0}
    BY <2>1, <2>2 DEF v, p
  <2> QED
    BY <1>1, <2>3 DEF Steady, p
<1>5. x.cand = scored[i].cand
  OBVIOUS
<1> HIDE DEF n, x
<1>6. \A l \in 1..n : Steady(all[l], pins, rate) /\ all[l].cand = scored[l].cand
  BY <1>1, <1>3, <1>4, <1>5
<1>7. all \in Seq(Range(all)) /\ Len(all) \in Nat
  <2>1. all = [l \in 1..n |-> all[l]]
    BY <1>1, <1>3
  <2>2. n \in Nat
    BY <1>1
  <2>3. all \in Seq(Range(all)) /\ Len(all) = n
    BY <2>1, <2>2, FunctionSeq
  <2> QED
    BY <2>2, <2>3
<1> QED
  BY <1>1, <1>3, <1>6, <1>7 DEF AllSteady, Renewed

\* A trial leaves the thorough search sound, however it ends (`search`, thorough.rs).
LEMMA ThoroughAfterSound ==
  ASSUME NEW pins, NEW space, IsThoroughSpace(space, pins), NEW s, NEW rate,
         ThoroughSound(pins, s, rate), s.trial # None,
         NEW r \in Nat \ {0}, s.trial \in DOMAIN rate => r = rate[s.trial],
         NEW outcome \in Endings(space, s, r)
  PROVE  ThoroughSound(pins, ThoroughAfter(space, s, outcome),
                       Learnt(rate, s.trial, outcome, r))
<1> DEFINE c == s.trial
           known == Learnt(rate, c, outcome, r)
           counted == outcome.kind = "measured"
<1>0. /\ PositiveRates(rate) /\ AllSteady(s.scored, pins, rate)
      /\ s.todo \in Seq(Fit(pins)) /\ s.again \in Seq(DOMAIN s.scored)
      /\ Covers(s.stage, s.scored, rate)
  BY DEF ThoroughSound
<1>1. /\ outcome.kind \in {"failed", "measured", "pruned"}
      /\ outcome.kind = "failed" <=> outcome = Failed
      /\ counted => outcome.rate = r
      /\ outcome.kind = "pruned" => 100 * r < 92 * BestSoFar(space, s)
  BY DEF Endings, Measured, Pruned, Failed, PRUNE
<1>2. /\ DOMAIN rate \subseteq DOMAIN known /\ PositiveRates(known)
      /\ \A x \in DOMAIN rate : known[x] = rate[x]
      /\ \A x \in DOMAIN known : x \in DOMAIN rate \/ (x = c /\ outcome # Failed)
      /\ outcome # Failed => c \in DOMAIN known /\ known[c] = r
  <2>1. CASE outcome = Failed
    BY <1>0, <2>1 DEF Learnt
  <2>2. CASE outcome # Failed
    <3>1. /\ DOMAIN known = DOMAIN rate \cup {c}
          /\ \A x \in DOMAIN known : known[x] = IF x = c THEN r ELSE rate[x]
      BY <2>2 DEF Learnt
    <3> HIDE DEF known
    <3> QED
      BY <1>0, <2>2, <3>1 DEF PositiveRates
  <2> QED
    BY <2>1, <2>2
<1> HIDE DEF known
<1>3. AllSteady(s.scored, pins, known)
  BY <1>0, <1>2, StillSteady
<1>4. \A x \in DOMAIN rate : \E i \in DOMAIN s.scored :
         Share(s.stage) * known[x] <= 100 * known[s.scored[i].cand]
  <2> TAKE x \in DOMAIN rate
  <2>1. PICK i \in DOMAIN s.scored : Share(s.stage) * rate[x] <= 100 * rate[s.scored[i].cand]
    BY <1>0 DEF Covers
  <2>2. s.scored[i].cand \in DOMAIN rate
    BY <1>0 DEF AllSteady, Steady
  <2> QED
    BY <1>2, <2>1, <2>2
<1>5. Share(s.stage) \in {97, 100}
  BY DEF Share
<1>6. CASE s.todo # <<>>
  <2> DEFINE scored == IF counted THEN Append(s.scored, Scored(c, outcome.rate)) ELSE s.scored
  <2>1. c = Head(s.todo) /\ c \in Fit(pins) /\ Tail(s.todo) \in Seq(Fit(pins))
    <3>1. c = Head(s.todo)
      BY <1>6 DEF ThoroughSound
    <3> QED
      BY <1>0, <1>6, <3>1
  <2>2. /\ AllSteady(scored, pins, known)
        /\ DOMAIN s.scored \subseteq DOMAIN scored
        /\ \A i \in DOMAIN s.scored : scored[i] = s.scored[i]
        /\ counted => \E i \in DOMAIN scored : scored[i].cand = c
    <3>1. CASE counted
      <4>1. outcome.rate = known[c] /\ c \in DOMAIN known /\ known[c] \in Nat \ {0}
        BY <1>1, <1>2, <3>1
      <4> HIDE DEF c
      <4> DEFINE old == s.scored
      <4>2. AllSteady(old, pins, known) /\ IsCandidate(c, pins)
        BY <1>3, <2>1 DEF Fit
      <4>3. scored = Append(old, Scored(c, known[c]))
        BY <3>1, <4>1
      <4> HIDE DEF old, scored, c, counted
      <4>4. Gained(Append(old, Scored(c, known[c])), old, c, pins, known)
        BY <4>1, <4>2, FirstWindow
      <4>5. Gained(scored, old, c, pins, known)
        BY <4>3, <4>4
      <4> QED
        BY <4>5 DEF Gained, old
    <3>2. CASE ~counted
      BY <1>3, <3>2
    <3> QED
      BY <3>1, <3>2
  <2> HIDE DEF scored
  <2>3. Covers(s.stage, scored, known)
    <3> SUFFICES ASSUME NEW x \in DOMAIN known
                 PROVE  \E i \in DOMAIN scored :
                           Share(s.stage) * known[x] <= 100 * known[scored[i].cand]
      BY DEF Covers
    <3>1. CASE x \in DOMAIN rate
      BY <1>4, <2>2, <3>1
    <3>2. CASE x \notin DOMAIN rate
      <4>1. x = c /\ outcome # Failed /\ known[x] = r
        BY <1>2, <3>2
      <4>2. CASE counted
        <5>1. PICK i \in DOMAIN scored : scored[i].cand = c
          BY <2>2, <4>2
        <5>2. Share(s.stage) * r <= 100 * r
          BY <1>5
        <5> QED
          BY <4>1, <5>1, <5>2
      <4>3. CASE ~counted
        <5>1. 100 * r < 92 * BestSoFar(space, s)
          BY <1>1, <4>1, <4>3
        <5>2. BestSoFar(space, s) =
                 IF s.scored = <<>> \/ s.todo = <<>> THEN 0 ELSE MeanRate(Leader(s.scored))
          BY DEF BestSoFar, IsThoroughSpace
        <5>3. s.scored # <<>>
          BY <5>1, <5>2
        <5>4. PICK j \in DOMAIN s.scored : Leader(s.scored) = s.scored[j]
          BY <1>3, <5>3, LeaderIsFastest
        <5>5. Steady(s.scored[j], pins, known)
          BY <1>3 DEF AllSteady
        <5> DEFINE top == known[s.scored[j].cand]
        <5>6. MeanRate(s.scored[j]) = top /\ top \in Nat
          BY <5>5, MeanIsRate DEF Steady
        <5>7. 100 * r < 92 * top
          BY <1>6, <5>1, <5>2, <5>3, <5>4, <5>6
        <5> HIDE DEF top
        <5>8. Share(s.stage) * r <= 100 * top
          BY <1>5, <5>6, <5>7
        <5> QED
          BY <2>2, <4>1, <5>8 DEF top
      <4> QED
        BY <4>2, <4>3
    <3> QED
      BY <3>1, <3>2
  <2>4. ThoroughAfter(space, s, outcome) =
           IF Len(s.todo) > 1 THEN Stage(s.stage, Tail(s.todo), <<>>, scored)
           ELSE IF Contenders(scored) # <<>>
                THEN Stage(s.stage, <<>>, Contenders(scored), scored)
           ELSE StageEnds(space, s, scored)
    BY <1>6 DEF ThoroughAfter, scored
  <2>5. ThoroughSound(pins, Stage(s.stage, Tail(s.todo), <<>>, scored), known)
    <3>1. <<>> \in Seq(DOMAIN scored)
      OBVIOUS
    <3> QED
      BY <1>2, <2>1, <2>2, <2>3, <3>1, StageSound
  <2>6. ThoroughSound(pins, Stage(s.stage, <<>>, Contenders(scored), scored), known)
    <3>1. <<>> \in Seq(Fit(pins))
      OBVIOUS
    <3>2. Len(scored) \in Nat /\ DOMAIN scored = 1..Len(scored)
      BY <2>2 DEF AllSteady
    <3>3. Contenders(scored) \in Seq(DOMAIN scored)
      BY <3>2, ContendersFacts
    <3> QED
      BY <1>2, <2>2, <2>3, <3>1, <3>3, StageSound
  <2>7. ThoroughSound(pins, StageEnds(space, s, scored), known)
    BY <1>2, <2>2, <2>3, StageEndsSound
  <2> QED
    BY <2>4, <2>5, <2>6, <2>7 DEF known
<1>7. CASE s.todo = <<>>
  <2> DEFINE i == Head(s.again)
             scored == IF counted
                       THEN [s.scored EXCEPT ![i].sum = @ + outcome.rate, ![i].windows = @ + 1]
                       ELSE s.scored
  <2>1. s.again # <<>> /\ c = s.scored[i].cand
    BY <1>7 DEF ThoroughSound
  <2>2. i \in DOMAIN s.scored /\ Tail(s.again) \in Seq(DOMAIN s.scored)
    BY <1>0, <2>1, HeadAndTail
  <2> HIDE DEF i
  <2>3. c \in DOMAIN rate
    BY <1>0, <2>1, <2>2 DEF AllSteady, Steady
  <2>4. /\ AllSteady(scored, pins, known) /\ DOMAIN scored = DOMAIN s.scored
        /\ \A l \in DOMAIN s.scored : scored[l].cand = s.scored[l].cand
    <3>1. CASE counted
      <4>1. outcome.rate = known[s.scored[i].cand]
        BY <1>1, <1>2, <2>1, <2>3, <3>1
      <4> DEFINE old == s.scored
                 more == outcome.rate
      <4>2. scored = [old EXCEPT ![i].sum = @ + more, ![i].windows = @ + 1]
        BY <3>1
      <4>3. AllSteady(old, pins, known) /\ i \in DOMAIN old /\ more = known[old[i].cand]
        BY <1>3, <2>2, <4>1
      <4> HIDE DEF scored, old, more, c, counted
      <4>4. Renewed(scored, old, pins, known)
        BY <4>2, <4>3, NextWindow
      <4> QED
        BY <4>4 DEF Renewed, old
    <3>2. CASE ~counted
      BY <1>3, <3>2
    <3> QED
      BY <3>1, <3>2
  <2>5. ThoroughAfter(space, s, outcome) =
           IF Len(s.again) > 1 THEN Stage(s.stage, <<>>, Tail(s.again), scored)
           ELSE StageEnds(space, s, scored)
    BY <1>7 DEF ThoroughAfter, i
  <2> HIDE DEF scored
  <2>6. Covers(s.stage, scored, known)
    <3>1. \A x \in DOMAIN known : x \in DOMAIN rate
      BY <1>2, <2>3
    <3> QED
      BY <1>4, <2>4, <3>1 DEF Covers
  <2>7. ThoroughSound(pins, Stage(s.stage, <<>>, Tail(s.again), scored), known)
    <3>1. <<>> \in Seq(Fit(pins))
      OBVIOUS
    <3> QED
      BY <1>2, <2>2, <2>4, <2>6, <3>1, StageSound
  <2>8. ThoroughSound(pins, StageEnds(space, s, scored), known)
    BY <1>2, <2>4, <2>6, StageEndsSound
  <2> QED
    BY <2>5, <2>7, <2>8 DEF known
<1> QED
  BY <1>6, <1>7

-----------------------------------------------------------------------------
(* Either search.                                                          *)

\* The search of a space is sound in the way of its mode.
SearchSound(space, pins, s, rate) ==
    \/ IsFastSpace(space, pins) /\ FastSound(space, pins, s, rate)
    \/ IsThoroughSpace(space, pins) /\ ThoroughSound(pins, s, rate)

\* A search begins sound in the space of its mode (`tune`, autotune/mod.rs).
LEMMA SearchStartSound ==
  ASSUME NEW pins, NumberPins(pins), NEW depth \in Nat, NEW lanes \in Nat \cup {None},
         NEW cfg, NEW rate, DOMAIN rate = {},
         NEW space, space = Space(cfg, pins, depth, lanes)
  PROVE  /\ SearchSound(space, pins, SearchStart(space), rate)
         /\ space.mode = "fast" <=> cfg.mode = "fast"
<1>1. CASE cfg.mode = "fast"
  <2>1. space = FastSpace(pins, depth, cfg.backend, lanes)
    BY <1>1 DEF Space
  <2>2. IsFastSpace(space, pins)
    BY <2>1, FastSpaceSound
  <2>3. space.mode = "fast" /\ SearchStart(space) = FastStart(space)
    BY <2>2 DEF IsFastSpace, SearchStart
  <2>4. FastSound(space, pins, FastStart(space), rate)
    BY <2>2, FastStartSound
  <2> QED
    BY <1>1, <2>2, <2>3, <2>4 DEF SearchSound
<1>2. CASE cfg.mode # "fast"
  <2>1. space = ThoroughSpace(pins, depth, cfg.backend)
    BY <1>2 DEF Space
  <2>2. IsThoroughSpace(space, pins)
    BY <2>1, ThoroughSpaceSound
  <2>3. space.mode = "thorough" /\ SearchStart(space) = ThoroughStart(space)
    BY <2>2 DEF IsThoroughSpace, SearchStart
  <2>4. ThoroughSound(pins, ThoroughStart(space), rate)
    BY <2>2, ThoroughStartSound
  <2> QED
    BY <1>2, <2>2, <2>3, <2>4 DEF SearchSound
<1> QED
  BY <1>1, <1>2

\* A search is sound after every trial.
LEMMA SearchAfterSound ==
  ASSUME NEW pins, NEW space, NEW s, NEW rate, SearchSound(space, pins, s, rate), s.trial # None,
         NEW r \in Nat \ {0}, s.trial \in DOMAIN rate => r = rate[s.trial],
         NEW outcome \in Endings(space, s, r), NEW withinBudget \in BOOLEAN
  PROVE  SearchSound(space, pins, SearchAfter(space, s, outcome, withinBudget),
                     Learnt(rate, s.trial, outcome, r))
<1>1. CASE IsFastSpace(space, pins) /\ FastSound(space, pins, s, rate)
  <2>1. space.mode = "fast"
    BY <1>1 DEF IsFastSpace
  <2>2. FastSound(space, pins, FastAfter(space, s, outcome, withinBudget),
                  Learnt(rate, s.trial, outcome, r))
    BY <1>1, <2>1, FastAfterSound
  <2> QED
    BY <1>1, <2>1, <2>2 DEF SearchSound, SearchAfter
<1>2. CASE IsThoroughSpace(space, pins) /\ ThoroughSound(pins, s, rate)
  <2>1. space.mode # "fast"
    BY <1>2 DEF IsThoroughSpace
  <2>2. ThoroughSound(pins, ThoroughAfter(space, s, outcome), Learnt(rate, s.trial, outcome, r))
    BY <1>2, ThoroughAfterSound
  <2> QED
    BY <1>2, <2>1, <2>2 DEF SearchSound, SearchAfter
<1> QED
  BY <1>1, <1>2 DEF SearchSound

\* What is known of rates stays a function.
IsFunction(f) == f = [x \in DOMAIN f |-> f[x]]

\* A rate that is learnt leaves the rates a function.
LEMMA LearntFunction ==
  ASSUME NEW rate, IsFunction(rate), NEW c, NEW outcome, NEW r
  PROVE  IsFunction(Learnt(rate, c, outcome, r))
  BY DEF IsFunction, Learnt

\* The winner is a candidate the engine can be given, and near the best rate.
LEMMA WinnerSound ==
  ASSUME NEW pins, NEW space, NEW s, NEW rate, SearchSound(space, pins, s, rate), s.best # None
  PROVE  /\ IsCandidate(s.best.cand, pins)
         /\ DOMAIN rate # {} =>
               IF space.mode = "fast"
               THEN /\ \A c \in DOMAIN rate : 100 * rate[c] <= (100 + TIE) * s.best.rate
                    /\ s.trial = None /\ ~s.ranOut =>
                          {s.top - 1, s.top + 1} \cap DOMAIN space.ladder \subseteq s.measured
               ELSE \A c \in DOMAIN rate :
                       10000 * s.best.rate >= (100 - TIE) * (100 - TIE) * rate[c]
<1>1. CASE IsFastSpace(space, pins) /\ FastSound(space, pins, s, rate)
  <2>1. space.mode = "fast"
    BY <1>1 DEF IsFastSpace
  <2>2. IsCandidate(s.best.cand, pins)
    BY <1>1 DEF FastSound, FastCandidates
  <2>3. \A c \in DOMAIN rate : 100 * rate[c] <= (100 + TIE) * s.best.rate
    BY <1>1 DEF FastSound, FastRates
  <2>4. ASSUME DOMAIN rate # {}, s.trial = None, ~s.ranOut
        PROVE  {s.top - 1, s.top + 1} \cap DOMAIN space.ladder \subseteq s.measured
    <3>1. s.measured # {}
      BY <1>1, <2>4 DEF FastSound, FastRates
    <3>2. s.at = s.top /\ s.at - 1 \notin Untried(space, s) /\ s.at + 1 \notin Untried(space, s)
      BY <1>1, <2>4, <3>1 DEF FastSound, FastWalk
    <3> QED
      BY <3>2 DEF Untried
  <2> QED
    BY <2>1, <2>2, <2>3, <2>4
<1>2. CASE IsThoroughSpace(space, pins) /\ ThoroughSound(pins, s, rate)
  <2>1. space.mode # "fast"
    BY <1>2 DEF IsThoroughSpace
  <2>2. WinsOver(s.best, pins, rate)
    BY <1>2 DEF ThoroughSound
  <2>3. s.best.rate \in Nat /\ PositiveRates(rate)
    BY <1>2, <2>2 DEF WinsOver, Winners, ThoroughSound
  <2>4. (100 - TIE) * (100 - TIE) = 9409
    BY DEF TIE
  <2>5. \A c \in DOMAIN rate : 10000 * s.best.rate >= 9409 * rate[c]
    BY <2>2, <2>3 DEF WinsOver, PositiveRates
  <2> QED
    BY <2>1, <2>2, <2>4, <2>5 DEF WinsOver
<1> QED
  BY <1>1, <1>2 DEF SearchSound

\* A rate that is known is positive.
LEMMA KnownRates ==
  ASSUME NEW pins, NEW space, NEW s, NEW rate, SearchSound(space, pins, s, rate),
         NEW c \in DOMAIN rate
  PROVE  rate[c] \in Nat \ {0}
  BY DEF SearchSound, FastSound, FastRates, ThoroughSound, PositiveRates

-----------------------------------------------------------------------------
(* A search ends.                                                          *)

\* What the second stage of a thorough search takes at most: each other number of
\* analysis threads, and each again if they are close.
SecondStage(space, name) ==
    IF name = "pairs" /\ Len(space.analysis) > 1 THEN 2 * Len(space.analysis) - 1 ELSE 0

\* What a stage and those behind it take at most.
StageTrials(space, name, todo, again, scored) ==
    (IF todo # <<>> THEN 2 * Len(todo) + Len(scored) ELSE Len(again)) + SecondStage(space, name)

\* The trials a search may still make.
TrialsLeft(space, s) ==
    IF s.trial = None THEN 0
    ELSE IF space.mode = "fast" THEN Cardinality(Untried(space, s))
    ELSE StageTrials(space, s.stage, s.todo, s.again, s.scored)

\* Two windows for each of four pairs, five for the threads.
MaxTrials == 13

\* The second stage takes a number of trials.
LEMMA SecondStageBound ==
  ASSUME NEW pins, NEW space, IsThoroughSpace(space, pins), NEW name
  PROVE  SecondStage(space, name) \in 0..5
<1> DEFINE m == Len(space.analysis)
<1>1. space.analysis \in Seq(Chosen) /\ m <= 3
  BY DEF IsThoroughSpace
<1>2. m \in Nat
  BY <1>1
<1>3. SecondStage(space, name) \in {2 * m - 1, 0} /\ (m <= 1 => SecondStage(space, name) = 0)
  <2>1. SecondStage(space, name) = IF name = "pairs" /\ m > 1 THEN 2 * m - 1 ELSE 0
    BY DEF SecondStage
  <2> HIDE DEF m
  <2> QED
    BY <1>2, <2>1
<1> HIDE DEF m
<1> QED
  BY <1>1, <1>2, <1>3

\* So does the fast walk, which tries no rung twice.
LEMMA UntriedBound ==
  ASSUME NEW pins, NEW space, IsFastSpace(space, pins), NEW s
  PROVE  IsFiniteSet(Untried(space, s)) /\ Cardinality(Untried(space, s)) \in 0..5
<1> DEFINE n == Len(space.ladder)
           U == Untried(space, s)
<1>1. n \in 0..5 /\ DOMAIN space.ladder = 1..n
  <2>1. space.ladder \in Seq(Chosen \X Chosen) /\ n <= 5
    BY DEF IsFastSpace
  <2>2. n \in Nat /\ DOMAIN space.ladder = 1..n
    BY <2>1
  <2> HIDE DEF n
  <2> QED
    BY <2>1, <2>2
<1>2. U \subseteq 1..n
  BY <1>1 DEF Untried
<1> HIDE DEF n, U
<1>3. IsFiniteSet(1..n) /\ Cardinality(1..n) = n
  <2>1. n \in Int /\ 1 \in Int
    BY <1>1
  <2>2. IsFiniteSet(1..n) /\ Cardinality(1..n) = IF 1 > n THEN 0 ELSE n - 1 + 1
    BY <2>1, FS_Interval
  <2> QED
    BY <1>1, <2>2
<1>4. IsFiniteSet(U) /\ Cardinality(U) <= n /\ Cardinality(U) \in Nat
  BY <1>2, <1>3, FS_Subset, FS_CardinalityType
<1> QED
  BY <1>1, <1>4 DEF U

\* A stage has as many trials left as it has candidates to measure.
LEMMA StageLeft ==
  ASSUME NEW pins, NEW space, IsThoroughSpace(space, pins), NEW name, NEW todo, NEW again,
         NEW scored, NEW n \in Nat,
         StageTrials(space, name, todo, again, scored) <= n,
         StageTrials(space, name, todo, again, scored) \in Nat
  PROVE  TrialsLeft(space, Stage(name, todo, again, scored)) \in 0..n
<1> DEFINE s == Stage(name, todo, again, scored)
<1>1. s.stage = name /\ s.todo = todo /\ s.again = again /\ s.scored = scored
  BY DEF Stage
<1> HIDE DEF s
<1>2. TrialsLeft(space, s) \in {0, StageTrials(space, name, todo, again, scored)}
  BY <1>1 DEF TrialsLeft, IsThoroughSpace
<1> HIDE DEF StageTrials
<1> QED
  BY <1>2 DEF s

\* At its end a stage leaves the second, if it was the first.
LEMMA StageEndsLeft ==
  ASSUME NEW pins, NEW space, IsThoroughSpace(space, pins), NEW s, NEW scored
  PROVE  TrialsLeft(space, StageEnds(space, s, scored)) \in 0..SecondStage(space, s.stage)
<1> DEFINE w == StageWinner(scored)
           m == Len(space.analysis)
           rest == [i \in 1..m - 1 |-> [w.cand EXCEPT !.analysis = space.analysis[i + 1]]]
           second == SecondStage(space, s.stage)
<1>1. second \in Nat
  BY SecondStageBound
<1>2. ASSUME NEW best PROVE TrialsLeft(space, Over(s, scored, best)) = 0
  BY DEF TrialsLeft, Over, Stage
<1>3. \/ \E best : StageEnds(space, s, scored) = Over(s, scored, best)
      \/ /\ s.stage = "pairs" /\ rest # <<>>
         /\ StageEnds(space, s, scored) = Stage("threads", rest, <<>>, <<w>>)
  BY DEF StageEnds
<1>4. CASE \E best : StageEnds(space, s, scored) = Over(s, scored, best)
  <2> HIDE DEF second
  <2>1. TrialsLeft(space, StageEnds(space, s, scored)) = 0
    BY <1>2, <1>4
  <2> QED
    BY <1>1, <2>1 DEF second
<1>5. CASE /\ s.stage = "pairs" /\ rest # <<>>
           /\ StageEnds(space, s, scored) = Stage("threads", rest, <<>>, <<w>>)
  <2>1. m \in Nat \ {0}
    BY DEF IsThoroughSpace
  <2>2. Len(rest) = m - 1 /\ rest \in Seq(Range(rest))
    <3>1. rest = [i \in 1..m - 1 |-> rest[i]] /\ m - 1 \in Nat
      BY <2>1
    <3> HIDE DEF rest, m
    <3> QED
      BY <3>1, FunctionSeq
  <2>3. m > 1
    <3> HIDE DEF m
    <3>1. m = 1 => Len(rest) = 0
      BY <2>2
    <3> HIDE DEF rest
    <3> QED
      BY <1>5, <2>1, <2>2, <3>1
  <2>4. second = 2 * m - 1
    BY <1>5, <2>3 DEF SecondStage
  <2>5. Len(<<w>>) = 1
    OBVIOUS
  <2> HIDE DEF rest, m, w
  <2>6. SecondStage(space, "threads") = 0
    BY DEF SecondStage
  <2>7. StageTrials(space, "threads", rest, <<>>, <<w>>) = 2 * m - 1
    BY <1>5, <2>1, <2>2, <2>5, <2>6 DEF StageTrials
  <2> HIDE DEF second
  <2>8. TrialsLeft(space, Stage("threads", rest, <<>>, <<w>>)) \in 0..second
    BY <1>1, <2>4, <2>7, StageLeft
  <2> QED
    BY <1>5, <2>8 DEF second
<1> QED
  BY <1>3, <1>4, <1>5

\* What is left of a sequence behind its head.
LEMMA Rest ==
  ASSUME NEW S, NEW s \in Seq(S), s # <<>>
  PROVE  /\ Len(s) \in Nat \ {0} /\ Tail(s) \in Seq(S) /\ Len(Tail(s)) = Len(s) - 1
         /\ Len(s) > 1 => Tail(s) # <<>>
<1> DEFINE t == Tail(s)
<1>1. Len(s) \in Nat \ {0} /\ t \in Seq(S) /\ Len(t) = Len(s) - 1
  OBVIOUS
<1> HIDE DEF t
<1>2. t = <<>> => Len(t) = 0
  OBVIOUS
<1>3. Len(s) > 1 => t # <<>>
  BY <1>1, <1>2
<1> QED
  BY <1>1, <1>3 DEF t

\* The thorough search: a window of each candidate, one more of each that is
\* close, and the same for the threads.
LEMMA ThoroughLeft ==
  ASSUME NEW pins, NEW space, IsThoroughSpace(space, pins), NEW s, NEW rate,
         ThoroughSound(pins, s, rate), s.trial # None, NEW outcome
  PROVE  /\ TrialsLeft(space, s) \in Nat \ {0}
         /\ TrialsLeft(space, ThoroughAfter(space, s, outcome)) \in 0..TrialsLeft(space, s) - 1
<1> DEFINE n == Len(s.scored)
           second == SecondStage(space, s.stage)
<1>1. n \in Nat /\ DOMAIN s.scored = 1..n /\ s.scored \in Seq(Range(s.scored))
  BY DEF ThoroughSound, AllSteady
<1>2. second \in Nat
  BY SecondStageBound
<1>3. s.todo \in Seq(Fit(pins)) /\ s.again \in Seq(DOMAIN s.scored)
  BY DEF ThoroughSound
<1>4. s.todo # <<>> \/ s.again # <<>>
  BY DEF ThoroughSound
<1>5. TrialsLeft(space, s) =
         (IF s.todo # <<>> THEN 2 * Len(s.todo) + n ELSE Len(s.again)) + second
  BY DEF TrialsLeft, StageTrials, IsThoroughSpace
<1>6. CASE s.todo # <<>>
  <2> DEFINE k == Len(s.todo)
             scored == IF outcome.kind = "measured"
                       THEN Append(s.scored, Scored(s.trial, outcome.rate)) ELSE s.scored
  <2>1. k \in Nat \ {0} /\ Len(Tail(s.todo)) = k - 1
    BY <1>3, <1>6, Rest
  <2>2. Len(scored) \in Nat /\ DOMAIN scored = 1..Len(scored) /\ Len(scored) <= n + 1
    <3> DEFINE x == Scored(s.trial, outcome.rate)
               S == Range(s.scored) \cup {x}
    <3> HIDE DEF x
    <3>1. s.scored \in Seq(S)
      <4>1. Range(s.scored) \subseteq S
        OBVIOUS
      <4> HIDE DEF S
      <4> QED
        BY <1>1, <4>1, SeqWider
    <3>2. x \in S
      OBVIOUS
    <3> HIDE DEF S
    <3>3. Append(s.scored, x) \in Seq(S) /\ Len(Append(s.scored, x)) = n + 1
      BY <3>1, <3>2
    <3>4. scored \in Seq(S) /\ Len(scored) \in {n, n + 1}
      BY <3>1, <3>3 DEF x
    <3> HIDE DEF scored, n
    <3> QED
      BY <1>1, <3>4
  <2>3. TrialsLeft(space, s) = 2 * k + n + second
    BY <1>5, <1>6
  <2>4. ThoroughAfter(space, s, outcome) =
           IF k > 1 THEN Stage(s.stage, Tail(s.todo), <<>>, scored)
           ELSE IF Contenders(scored) # <<>>
                THEN Stage(s.stage, <<>>, Contenders(scored), scored)
           ELSE StageEnds(space, s, scored)
    BY <1>6 DEF ThoroughAfter
  <2>5. Contenders(scored) \in Seq(DOMAIN scored) /\ Len(Contenders(scored)) <= Len(scored)
    <3> HIDE DEF scored
    <3> QED
      BY <2>2, ContendersFacts
  <2>6. Len(Contenders(scored)) \in Nat
    <3> HIDE DEF scored
    <3> QED
      BY <2>5
  <2> DEFINE left == 2 * k + n + second - 1
             later == Len(scored)
             more == Len(Contenders(scored))
  <2>7. k > 1 => StageTrials(space, s.stage, Tail(s.todo), <<>>, scored) = 2 * (k - 1) + later + second
    <3>1. k > 1 => Tail(s.todo) # <<>>
      BY <1>3, <1>6, Rest
    <3> HIDE DEF scored, k
    <3> QED
      BY <2>1, <3>1 DEF StageTrials
  <2>8. StageTrials(space, s.stage, <<>>, Contenders(scored), scored) = more + second
    <3> HIDE DEF scored
    <3> QED
      BY DEF StageTrials
  <2> HIDE DEF scored, k, n, second
  <2>9. left \in Nat /\ 2 * (k - 1) + later + second <= left /\ more + second <= left
        /\ 2 * (k - 1) + later + second \in Nat /\ more + second \in Nat /\ second <= left
    BY <1>1, <1>2, <2>1, <2>2, <2>5, <2>6
  <2> HIDE DEF left, later, more
  <2>10. k > 1 => TrialsLeft(space, Stage(s.stage, Tail(s.todo), <<>>, scored)) \in 0..left
    BY <2>7, <2>9, StageLeft
  <2>11. TrialsLeft(space, Stage(s.stage, <<>>, Contenders(scored), scored)) \in 0..left
    BY <2>8, <2>9, StageLeft
  <2>12. TrialsLeft(space, StageEnds(space, s, scored)) \in 0..left
    <3>1. TrialsLeft(space, StageEnds(space, s, scored)) \in 0..second
      BY StageEndsLeft DEF second
    <3> QED
      BY <1>2, <2>9, <3>1
  <2>13. TrialsLeft(space, ThoroughAfter(space, s, outcome)) \in 0..left
    BY <2>4, <2>10, <2>11, <2>12
  <2>14. TrialsLeft(space, s) \in Nat \ {0} /\ TrialsLeft(space, s) - 1 = left
    BY <1>1, <1>2, <2>1, <2>3 DEF left
  <2> QED
    BY <2>13, <2>14
<1>7. CASE s.todo = <<>>
  <2> DEFINE k == Len(s.again)
             left == k + second - 1
             i == Head(s.again)
             scored == IF outcome.kind = "measured"
                       THEN [s.scored EXCEPT ![i].sum = @ + outcome.rate, ![i].windows = @ + 1]
                       ELSE s.scored
  <2>1. k \in Nat \ {0} /\ Len(Tail(s.again)) = k - 1
    BY <1>3, <1>4, <1>7, Rest
  <2>2. TrialsLeft(space, s) = k + second
    BY <1>5, <1>7
  <2>3. ThoroughAfter(space, s, outcome) =
           IF k > 1 THEN Stage(s.stage, <<>>, Tail(s.again), scored)
           ELSE StageEnds(space, s, scored)
    BY <1>7 DEF ThoroughAfter
  <2> HIDE DEF scored, k, i, second
  <2>4. StageTrials(space, s.stage, <<>>, Tail(s.again), scored) = k - 1 + second
    BY <2>1 DEF StageTrials, second
  <2>5. left \in Nat /\ k - 1 + second = left /\ second <= left
    BY <1>2, <2>1
  <2> HIDE DEF left
  <2>6. TrialsLeft(space, Stage(s.stage, <<>>, Tail(s.again), scored)) \in 0..left
    BY <2>4, <2>5, StageLeft
  <2>7. TrialsLeft(space, StageEnds(space, s, scored)) \in 0..left
    <3>1. TrialsLeft(space, StageEnds(space, s, scored)) \in 0..second
      BY StageEndsLeft DEF second
    <3> QED
      BY <1>2, <2>5, <3>1
  <2>8. TrialsLeft(space, s) \in Nat \ {0} /\ TrialsLeft(space, s) - 1 = left
    BY <1>2, <2>1, <2>2 DEF left
  <2> QED
    BY <2>3, <2>6, <2>7, <2>8
<1> QED
  BY <1>6, <1>7

\* The fast search: a rung fewer.
LEMMA FastLeft ==
  ASSUME NEW pins, NEW space, IsFastSpace(space, pins), NEW s, NEW rate,
         FastSound(space, pins, s, rate), s.trial # None, NEW outcome, NEW withinBudget
  PROVE  /\ TrialsLeft(space, s) \in Nat \ {0}
         /\ TrialsLeft(space, FastAfter(space, s, outcome, withinBudget))
                \in 0..TrialsLeft(space, s) - 1
<1> DEFINE U == Untried(space, s)
           t == FastAfter(space, s, outcome, withinBudget)
           left == Cardinality(U) - 1
<1>1. t.measured = s.measured \cup {s.rung}
  BY DEF FastAfter
<1>2. s.rung \in U
  BY DEF FastSound, FastCandidates
<1>3. Untried(space, t) = U \ {s.rung}
  BY <1>1 DEF Untried
<1>4. space.mode = "fast"
  BY DEF IsFastSpace
<1>5. IsFiniteSet(U) /\ Cardinality(U) \in 0..5
  BY UntriedBound
<1> HIDE DEF t, U
<1>6. Cardinality(U \ {s.rung}) = left
  BY <1>2, <1>5, FS_RemoveElement
<1>7. Cardinality(U) # 0
  BY <1>2, <1>5, FS_EmptySet
<1>8. TrialsLeft(space, s) = Cardinality(U) /\ TrialsLeft(space, t) \in {0, left}
  BY <1>3, <1>4, <1>6 DEF TrialsLeft, U
<1>9. TrialsLeft(space, s) \in Nat \ {0} /\ TrialsLeft(space, t) \in 0..TrialsLeft(space, s) - 1
  BY <1>5, <1>7, <1>8
<1> QED
  BY <1>9 DEF t

\* Each trial leaves fewer (`search` of either, up to its next trial).
LEMMA FewerTrials ==
  ASSUME NEW pins, NEW space, NEW s, NEW rate, SearchSound(space, pins, s, rate),
         s.trial # None, NEW outcome, NEW withinBudget
  PROVE  TrialsLeft(space, SearchAfter(space, s, outcome, withinBudget))
            \in 0..TrialsLeft(space, s) - 1
<1>1. CASE IsFastSpace(space, pins) /\ FastSound(space, pins, s, rate)
  BY <1>1, FastLeft DEF SearchAfter, IsFastSpace
<1>2. CASE IsThoroughSpace(space, pins) /\ ThoroughSound(pins, s, rate)
  <2>1. SearchAfter(space, s, outcome, withinBudget) = ThoroughAfter(space, s, outcome)
    BY <1>2 DEF SearchAfter, IsThoroughSpace
  <2> QED
    BY <1>2, <2>1, ThoroughLeft
<1> QED
  BY <1>1, <1>2 DEF SearchSound

\* A search begins with a bounded number of them.
LEMMA TrialsAtStart ==
  ASSUME NEW pins, NumberPins(pins), NEW depth \in Nat, NEW lanes \in Nat \cup {None},
         NEW cfg, NEW space, space = Space(cfg, pins, depth, lanes)
  PROVE  TrialsLeft(space, SearchStart(space)) \in 0..MaxTrials
<1> USE DEF MaxTrials
<1>1. CASE cfg.mode = "fast"
  <2>1. space = FastSpace(pins, depth, cfg.backend, lanes)
    BY <1>1 DEF Space
  <2>2. IsFastSpace(space, pins)
    BY <2>1, FastSpaceSound
  <2>3. TrialsLeft(space, SearchStart(space)) \in {0, Cardinality(Untried(space, SearchStart(space)))}
    BY <2>2 DEF TrialsLeft, IsFastSpace
  <2>4. Cardinality(Untried(space, SearchStart(space))) \in 0..5
    BY <2>2, UntriedBound
  <2> QED
    BY <2>3, <2>4
<1>2. CASE cfg.mode # "fast"
  <2> DEFINE m == Len(space.serverBatch)
             first == [i \in DOMAIN space.serverBatch |->
                         Candidate(space.analysis[1], space.serverBatch[i][1],
                                   space.serverBatch[i][2])]
  <2>1. space = ThoroughSpace(pins, depth, cfg.backend)
    BY <1>2 DEF Space
  <2>2. IsThoroughSpace(space, pins)
    BY <2>1, ThoroughSpaceSound
  <2>3. SearchStart(space) = ThoroughStart(space)
    BY <2>2 DEF IsThoroughSpace, SearchStart
  <2>4. \/ ThoroughStart(space) = Stage("pairs", first, <<>>, <<>>)
        \/ ThoroughStart(space) =
               Over(Stage("pairs", first, <<>>, <<>>), <<>>, Winner(first[1], 0))
    BY DEF ThoroughStart
  <2>5. m \in 0..4 /\ DOMAIN space.serverBatch = 1..m /\ m # 0
    <3>1. space.serverBatch \in Seq(Chosen \X Chosen) /\ m <= 4 /\ space.serverBatch # <<>>
      BY <2>2 DEF IsThoroughSpace
    <3>2. m \in Nat \ {0} /\ DOMAIN space.serverBatch = 1..m
      BY <3>1
    <3> HIDE DEF m
    <3> QED
      BY <3>1, <3>2
  <2>6. Len(first) = m
    <3>1. first = [i \in 1..m |-> first[i]] /\ m \in Nat
      BY <2>5
    <3> HIDE DEF first, m
    <3> QED
      BY <3>1, FunctionSeq
  <2> HIDE DEF first, m
  <2>7. first # <<>>
    <3>1. Len(<<>>) = 0
      OBVIOUS
    <3> QED
      BY <2>5, <2>6, <3>1
  <2>8. SecondStage(space, "pairs") \in 0..5
    BY <2>2, SecondStageBound
  <2>9. StageTrials(space, "pairs", first, <<>>, <<>>) \in 0..13
    <3>1. StageTrials(space, "pairs", first, <<>>, <<>>) = 2 * m + 0 + SecondStage(space, "pairs")
      BY <2>6, <2>7 DEF StageTrials
    <3> QED
      BY <2>5, <2>8, <3>1
  <2>10. TrialsLeft(space, Stage("pairs", first, <<>>, <<>>)) \in 0..13
    <3>1. /\ StageTrials(space, "pairs", first, <<>>, <<>>) \in Nat
          /\ StageTrials(space, "pairs", first, <<>>, <<>>) <= 13
      BY <2>9
    <3>2. ASSUME NEW n \in Nat, StageTrials(space, "pairs", first, <<>>, <<>>) <= n
          PROVE  TrialsLeft(space, Stage("pairs", first, <<>>, <<>>)) \in 0..n
      BY <2>2, <3>1, <3>2, StageLeft
    <3> QED
      BY <3>1, <3>2
  <2>11. ASSUME NEW begun, NEW best PROVE TrialsLeft(space, Over(begun, <<>>, best)) = 0
    BY DEF TrialsLeft, Over, Stage
  <2> QED
    BY <2>3, <2>4, <2>10, <2>11
<1> QED
  BY <1>1, <1>2
=============================================================================
