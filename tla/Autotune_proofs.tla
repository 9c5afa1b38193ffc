--------------------------- MODULE Autotune_proofs ---------------------------
(***************************************************************************)
(* Whatever a search, another worker or an old entry of the cache comes up *)
(* with, the engine runs with what was measured, what an operator set      *)
(* explicitly is part of it, and a winner is close to the best of all that *)
(* was measured, for any sections, workers, rates, starts and kills; and   *)
(* no reader ever finds the cache half written, unless processes of the    *)
(* same id store at the same time.                                         *)
(***************************************************************************)
EXTENDS Autotune, TuneSearch_proofs

-----------------------------------------------------------------------------
(* Overrides.                                                              *)

\* Of several settings of a key the last one counts.
LEMMA LastWins ==
  ASSUME NEW raw, NEW n \in Nat, DOMAIN raw = 1..n, NEW i \in 1..n,
         \A l \in 1..n : raw[l][1] = raw[i][1] => l <= i
  PROVE  raw[i][1] \in DOMAIN ParseOverrides(raw) /\ ParseOverrides(raw)[raw[i][1]] = raw[i][2]
<1> DEFINE k == raw[i][1]
           IsLast(j) == raw[j][1] = k /\ \A l \in DOMAIN raw : raw[l][1] = k => l <= j
<1>1. k \in {raw[j][1] : j \in DOMAIN raw}
  OBVIOUS
<1>2. (CHOOSE j \in DOMAIN raw : IsLast(j)) = i
  <2>1. IsLast(i)
    OBVIOUS
  <2>2. \A j \in DOMAIN raw : IsLast(j) => j = i
    OBVIOUS
  <2> QED
    BY <2>1, <2>2
<1>3. ParseOverrides(raw)[k] = raw[CHOOSE j \in DOMAIN raw : IsLast(j)][2]
  BY <1>1 DEF ParseOverrides
<1> QED
  BY <1>1, <1>2, <1>3 DEF ParseOverrides

\* The keys of a string are those it sets, finitely many.
LEMMA ParsedKeys ==
  ASSUME NEW raw, NEW n \in Nat, DOMAIN raw = 1..n
  PROVE  /\ DOMAIN ParseOverrides(raw) = {raw[i][1] : i \in 1..n}
         /\ IsFiniteSet(DOMAIN ParseOverrides(raw))
<1> DEFINE T == {raw[i][1] : i \in 1..n}
           f == [i \in 1..n |-> raw[i][1]]
<1>1. DOMAIN ParseOverrides(raw) = T
  BY DEF ParseOverrides
<1>2. f \in Surjection(1..n, T)
  BY DEF Surjection
<1>3. IsFiniteSet(1..n)
  BY FS_Interval
<1> QED
  BY <1>1, <1>2, <1>3, FS_Surjection

\* `format` writes each key once.
LEMMA FormatFacts ==
  ASSUME NEW over, IsFiniteSet(DOMAIN over)
  PROVE  /\ Format(over) \in Seq({<<k, over[k]>> : k \in DOMAIN over})
         /\ \A k \in DOMAIN over : \E i \in 1..Len(Format(over)) : Format(over)[i] = <<k, over[k]>>
         /\ \A i, j \in 1..Len(Format(over)) : Format(over)[i][1] = Format(over)[j][1] => i = j
<1> DEFINE D == DOMAIN over
           S == {<<k, over[k]>> : k \in D}
           n == Cardinality(S)
           f == [k \in D |-> <<k, over[k]>>]
           F == Format(over)
<1>1. IsFiniteSet(S)
  <2>1. f \in Surjection(D, S)
    BY DEF Surjection
  <2> QED
    BY <2>1, FS_Surjection
<1> HIDE DEF S
<1>2. n \in Nat /\ ExistsBijection(1..n, S)
  BY <1>1, FS_CardinalityType
<1>3. F \in [1..n -> S] /\ IsInjective(F)
  <2>1. \E g \in [1..n -> S] : IsInjective(g)
    BY <1>2 DEF ExistsBijection, Bijection, Injection
  <2>2. F = CHOOSE g \in [1..n -> S] : IsInjective(g)
    BY DEF Format, SetToSeq, S
  <2> QED
    BY <2>1, <2>2
<1>4. F \in Surjection(1..n, S)
  <2>1. F \in Injection(1..n, S)
    BY <1>3 DEF Injection
  <2>2. Cardinality(1..n) = n
    BY <1>2, FS_Interval
  <2> QED
    BY <1>1, <2>1, <2>2, FS_Injection
<1> HIDE DEF n, F
<1>5. F \in Seq(S) /\ Len(F) = n
  BY <1>2, <1>3
<1>6. \A k \in D : \E i \in 1..Len(F) : F[i] = <<k, over[k]>>
  BY <1>4, <1>5 DEF Surjection, S
<1>7. \A i, j \in 1..Len(F) : F[i][1] = F[j][1] => i = j
  <2> SUFFICES ASSUME NEW i \in 1..n, NEW j \in 1..n, F[i][1] = F[j][1] PROVE i = j
    BY <1>5
  <2>1. F[i] = F[j]
    BY <1>3 DEF S
  <2> QED
    BY <1>3, <2>1 DEF IsInjective
<1> QED
  BY <1>5, <1>6, <1>7 DEF F, S

\* Every key has a last setting, the one that counts.
LEMMA ParsedLast ==
  ASSUME NEW raw, NEW n \in Nat, DOMAIN raw = 1..n, NEW k \in DOMAIN ParseOverrides(raw)
  PROVE  \E i \in 1..n : /\ raw[i][1] = k /\ \A l \in 1..n : raw[l][1] = k => l <= i
                         /\ ParseOverrides(raw)[k] = raw[i][2]
<1> DEFINE I == {i \in 1..n : raw[i][1] = k}
<1>1. I \subseteq 1..n /\ I # {}
  BY DEF ParseOverrides
<1>2. PICK i \in I : \A l \in I : l <= i
  <2> HIDE DEF I
  <2> QED
    BY <1>1, Greatest
<1>3. i \in 1..n /\ raw[i][1] = k /\ \A l \in 1..n : raw[l][1] = k => l <= i
  BY <1>2
<1>4. ParseOverrides(raw)[raw[i][1]] = raw[i][2]
  BY <1>3, LastWins
<1> QED
  BY <1>3, <1>4

\* Of two strings joined the second one wins.
LEMMA ParseJoined ==
  ASSUME NEW U, NEW A \in Seq(U), NEW B \in Seq(U)
  PROVE  ParseOverrides(A \o B) = FillFrom(ParseOverrides(B), ParseOverrides(A))
<1> DEFINE a == Len(A)
           b == Len(B)
           n == a + b
           all == A \o B
           PA == ParseOverrides(A)
           PB == ParseOverrides(B)
           P == ParseOverrides(all)
<1>1. a \in Nat /\ b \in Nat /\ n \in Nat /\ DOMAIN A = 1..a /\ DOMAIN B = 1..b
  OBVIOUS
<1>2. DOMAIN all = 1..n /\ \A i \in 1..n : all[i] = IF i <= a THEN A[i] ELSE B[i - a]
  <2>1. /\ all \in Seq(U) /\ Len(all) = a + b
        /\ \A i \in 1..(a + b) : all[i] = IF i <= a THEN A[i] ELSE B[i - a]
    BY ConcatProperties
  <2> HIDE DEF all
  <2> QED
    BY <2>1
<1> HIDE DEF a, b, all
<1>3. (\A i \in 1..a : all[i] = A[i]) /\ (\A i \in 1..b : a + i \in 1..n /\ all[a + i] = B[i])
  <2>1. \A i \in 1..a : i \in 1..n /\ i <= a
    BY <1>1
  <2>2. \A i \in 1..b : a + i \in 1..n /\ ~(a + i <= a) /\ (a + i) - a = i
    BY <1>1
  <2> QED
    BY <1>2, <2>1, <2>2
<1>4. \A l \in 1..n : l \in 1..a \/ \E i \in 1..b : l = a + i
  <2> TAKE l \in 1..n
  <2>1. CASE l <= a
    BY <1>1, <2>1
  <2>2. CASE l > a
    <3>1. l - a \in 1..b /\ l = a + (l - a)
      BY <1>1, <2>2
    <3> QED
      BY <3>1
  <2> QED
    BY <1>1, <2>1, <2>2
<1>5. /\ DOMAIN PA = {A[i][1] : i \in 1..a} /\ DOMAIN PB = {B[i][1] : i \in 1..b}
      /\ DOMAIN P = {all[i][1] : i \in 1..n}
  <2> HIDE DEF n
  <2>1. DOMAIN PA = {A[i][1] : i \in 1..a}
    BY <1>1, ParsedKeys
  <2>2. DOMAIN PB = {B[i][1] : i \in 1..b}
    BY <1>1, ParsedKeys
  <2>3. n \in Nat /\ DOMAIN all = 1..n
    BY <1>1, <1>2
  <2>4. DOMAIN P = {all[i][1] : i \in 1..n}
    BY <2>3, ParsedKeys
  <2> QED
    BY <2>1, <2>2, <2>4
<1>6. DOMAIN P = DOMAIN PA \cup DOMAIN PB
  <2>1. \A i \in 1..a : i \in 1..n
    BY <1>1
  <2> HIDE DEF n, PA, PB, P
  <2>2. \A i \in 1..n : all[i][1] \in DOMAIN PA \cup DOMAIN PB
    <3> TAKE i \in 1..n
    <3>1. CASE i \in 1..a
      BY <1>3, <1>5, <3>1
    <3>2. ASSUME NEW h \in 1..b, i = a + h PROVE all[i][1] \in DOMAIN PB
      BY <1>3, <1>5, <3>2
    <3> QED
      BY <1>4, <3>1, <3>2
  <2>3. \A i \in 1..a : A[i][1] \in DOMAIN P
    <3> TAKE i \in 1..a
    <3>1. i \in 1..n /\ all[i][1] = A[i][1]
      BY <1>3, <2>1
    <3> QED
      BY <1>5, <3>1
  <2>4. \A i \in 1..b : B[i][1] \in DOMAIN P
    <3> TAKE i \in 1..b
    <3>1. a + i \in 1..n /\ all[a + i][1] = B[i][1]
      BY <1>3
    <3> QED
      BY <1>5, <3>1
  <2>5. DOMAIN P \subseteq DOMAIN PA \cup DOMAIN PB
    BY <1>5, <2>2
  <2>6. DOMAIN PA \subseteq DOMAIN P
    BY <1>5, <2>3
  <2>7. DOMAIN PB \subseteq DOMAIN P
    BY <1>5, <2>4
  <2> QED
    BY <2>5, <2>6, <2>7
<1>7. ASSUME NEW k \in DOMAIN PB PROVE P[k] = PB[k]
  <2>1. PICK i \in 1..b : B[i][1] = k /\ (\A l \in 1..b : B[l][1] = k => l <= i) /\ PB[k] = B[i][2]
    BY <1>1, ParsedLast
  <2> DEFINE j == a + i
  <2>2. j \in 1..n /\ all[j] = B[i]
    BY <1>3
  <2>3. \A l \in 1..n : all[l][1] = all[j][1] => l <= j
    <3> SUFFICES ASSUME NEW l \in 1..n, all[l][1] = k PROVE l <= j
      BY <2>1, <2>2
    <3>1. CASE l \in 1..a
      BY <1>1, <3>1
    <3>2. ASSUME NEW h \in 1..b, l = a + h PROVE l <= j
      <4>1. h <= i
        BY <1>3, <2>1, <3>2
      <4> QED
        BY <1>1, <3>2, <4>1
    <3> QED
      BY <1>4, <3>1, <3>2
  <2> HIDE DEF j, n
  <2>4. P[all[j][1]] = all[j][2]
    BY <1>1, <1>2, <2>2, <2>3, LastWins
  <2> QED
    BY <2>1, <2>2, <2>4
<1>8. ASSUME NEW k \in DOMAIN PA, k \notin DOMAIN PB PROVE P[k] = PA[k]
  <2>1. PICK i \in 1..a : A[i][1] = k /\ (\A l \in 1..a : A[l][1] = k => l <= i) /\ PA[k] = A[i][2]
    BY <1>1, ParsedLast
  <2>2. i \in 1..n /\ all[i] = A[i]
    BY <1>1, <1>3
  <2>3. \A l \in 1..n : all[l][1] = all[i][1] => l <= i
    <3> SUFFICES ASSUME NEW l \in 1..n, all[l][1] = k PROVE l <= i
      BY <2>1, <2>2
    <3>1. CASE l \in 1..a
      BY <1>3, <2>1, <3>1
    <3>2. ASSUME NEW h \in 1..b, l = a + h PROVE FALSE
      BY <1>3, <1>5, <1>8, <3>2
    <3> QED
      BY <1>4, <3>1, <3>2
  <2> HIDE DEF n
  <2>4. P[all[i][1]] = all[i][2]
    BY <1>1, <1>2, <2>2, <2>3, LastWins
  <2> QED
    BY <2>1, <2>2, <2>4
<1>9. P = [k \in DOMAIN P |-> P[k]]
  BY DEF ParseOverrides
<1> HIDE DEF P, PA, PB
<1>10. P = FillFrom(PB, PA)
  BY <1>6, <1>7, <1>8, <1>9 DEF FillFrom
<1> QED
  BY <1>10 DEF P, PA, PB, all

\* What is written is read back.
LEMMA ParseFormat ==
  ASSUME NEW over, IsFiniteSet(DOMAIN over), over = [k \in DOMAIN over |-> over[k]]
  PROVE  ParseOverrides(Format(over)) = over
<1> DEFINE F == Format(over)
           n == Len(F)
           S == {<<k, over[k]>> : k \in DOMAIN over}
           P == ParseOverrides(F)
<1>1. /\ F \in Seq(S)
      /\ \A k \in DOMAIN over : \E i \in 1..n : F[i] = <<k, over[k]>>
      /\ \A i, j \in 1..n : F[i][1] = F[j][1] => i = j
  BY FormatFacts
<1> HIDE DEF F
<1>2. n \in Nat /\ DOMAIN F = 1..n /\ \A i \in 1..n : F[i][1] \in DOMAIN over
  BY <1>1
<1> HIDE DEF n, S
<1>3. DOMAIN P = {F[i][1] : i \in 1..n}
  <2>1. n \in Nat /\ DOMAIN F = 1..n
    BY <1>2
  <2> QED
    BY <2>1, ParsedKeys
<1>4. DOMAIN P = DOMAIN over
  <2> HIDE DEF P
  <2>1. DOMAIN P \subseteq DOMAIN over
    BY <1>2, <1>3
  <2>2. ASSUME NEW k \in DOMAIN over PROVE k \in DOMAIN P
    <3>1. PICK i \in 1..n : F[i] = <<k, over[k]>>
      BY <1>1
    <3>2. F[i][1] = k
      BY <3>1
    <3> QED
      BY <1>3, <3>2
  <2> QED
    BY <2>1, <2>2
<1>5. ASSUME NEW k \in DOMAIN over PROVE P[k] = over[k]
  <2>1. PICK i \in 1..n : F[i] = <<k, over[k]>>
    BY <1>1
  <2>2. F[i][1] = k /\ F[i][2] = over[k]
    BY <2>1
  <2>3. \A l \in 1..n : F[l][1] = F[i][1] => l <= i
    <3> TAKE l \in 1..n
    <3>1. l \in Int /\ i \in Int
      BY <1>2
    <3> QED
      BY <1>1, <3>1
  <2>4. P[F[i][1]] = F[i][2]
    BY <1>2, <2>3, LastWins
  <2> QED
    BY <2>2, <2>4
<1>6. P = [k \in DOMAIN P |-> P[k]]
  BY DEF ParseOverrides
<1> HIDE DEF P
<1>7. P = over
  BY <1>4, <1>5, <1>6
<1> QED
  BY <1>7 DEF P, F

\* There are four tuning keys.
LEMMA TuningKeysFinite == IsFiniteSet(TuningKeys)
<1>1. TuningKeys = (({ANALYSIS_THREADS} \cup {SEARCH_THREADS}) \cup {SERVER_THREADS})
                      \cup {BATCH_SIZE}
  BY DEF TuningKeys
<1>2. IsFiniteSet({ANALYSIS_THREADS} \cup {SEARCH_THREADS})
  BY FS_Singleton, FS_AddElement
<1>3. IsFiniteSet(({ANALYSIS_THREADS} \cup {SEARCH_THREADS}) \cup {SERVER_THREADS})
  BY <1>2, FS_AddElement
<1> QED
  BY <1>1, <1>3, FS_AddElement

\* What f16 adds to an engine's argument.
F16(fp16, backend) ==
    IF fp16 /\ IsKataGoRs(backend) THEN [k \in {FP16} |-> TRUE] ELSE NoOverrides

\* What the engine makes of its argument: the raw overrides, and where they do
\* not say, f16 and the fields that are set.
LEMMA EffectiveIs ==
  ASSUME NEW c, DOMAIN c.fields = TuningKeys, NEW R, c.override \in Seq(R)
  PROVE  Effective(c) = FillFrom(ParseOverrides(c.override),
                                 FillFrom(F16(c.fp16, c.backend),
                                          Retain(c.fields, {k \in TuningKeys : c.fields[k] > 0})))
<1> DEFINE over == Retain(c.fields, {k \in TuningKeys : c.fields[k] > 0})
           P == {<<k, over[k]>> : k \in DOMAIN over}
           x == <<FP16, TRUE>>
           A == Format(over)
           B == IF c.fp16 /\ IsKataGoRs(c.backend) THEN <<x>> ELSE <<>>
           raw == c.override
           U == P \cup {x} \cup R
<1>1. IsFiniteSet(DOMAIN over) /\ over = [k \in DOMAIN over |-> over[k]]
  <2>1. DOMAIN over \subseteq TuningKeys
    BY DEF Retain
  <2>2. over = [k \in DOMAIN over |-> over[k]]
    BY DEF Retain
  <2> HIDE DEF over
  <2> QED
    BY <2>1, <2>2, TuningKeysFinite, FS_Subset
<1>2. Effective(c) = ParseOverrides((A \o B) \o raw)
  BY DEF Effective, KatagoOverrides
<1> HIDE DEF over
<1>3. A \in Seq(P) /\ ParseOverrides(A) = over
  BY <1>1, FormatFacts, ParseFormat
<1> HIDE DEF x
<1>4. <<x>> \in Seq({x}) /\ DOMAIN <<x>> = 1..1 /\ <<x>>[1] = x
  OBVIOUS
<1>5. ParseOverrides(<<x>>) = [k \in {FP16} |-> TRUE]
  <2> DEFINE y == <<x>>
             Q == ParseOverrides(y)
  <2>1. DOMAIN y = 1..1 /\ y[1] = x
    OBVIOUS
  <2> HIDE DEF y
  <2>2. DOMAIN Q = {y[i][1] : i \in 1..1}
    BY <2>1, ParsedKeys
  <2>3. x[1] = FP16 /\ x[2] = TRUE
    BY DEF x
  <2>4. DOMAIN Q = {FP16}
    BY <2>1, <2>2, <2>3
  <2>5. 1 \in Nat /\ 1 \in 1..1 /\ \A l \in 1..1 : y[l][1] = y[1][1] => l <= 1
    OBVIOUS
  <2>6. Q[y[1][1]] = y[1][2]
    BY <2>1, <2>5, LastWins
  <2>7. Q = [k \in DOMAIN Q |-> Q[k]]
    BY DEF ParseOverrides
  <2> HIDE DEF Q
  <2>8. Q = [k \in {FP16} |-> TRUE]
    BY <2>1, <2>3, <2>4, <2>6, <2>7
  <2> QED
    BY <2>8 DEF Q, y
<1>6. ParseOverrides(<<>>) = NoOverrides
  BY DEF ParseOverrides, NoOverrides
<1>7. ParseOverrides(B) = F16(c.fp16, c.backend)
  BY <1>5, <1>6 DEF F16
<1>8. B \in Seq({x})
  <2>1. <<>> \in Seq({x})
    OBVIOUS
  <2> QED
    BY <1>4, <2>1
<1> HIDE DEF A, B, P
<1>9. A \in Seq(U) /\ B \in Seq(U) /\ raw \in Seq(U)
  <2>1. P \subseteq U /\ {x} \subseteq U /\ R \subseteq U
    OBVIOUS
  <2> HIDE DEF U
  <2> QED
    BY <1>3, <1>8, <2>1, SeqWider
<1> HIDE DEF U, raw
<1>10. ParseOverrides(A \o B) = FillFrom(ParseOverrides(B), ParseOverrides(A))
  BY <1>9, ParseJoined
<1>11. A \o B \in Seq(U)
  BY <1>9
<1>12. ParseOverrides((A \o B) \o raw) = FillFrom(ParseOverrides(raw), ParseOverrides(A \o B))
  BY <1>9, <1>11, ParseJoined
<1> QED
  BY <1>2, <1>3, <1>7, <1>10, <1>12 DEF raw, over

-----------------------------------------------------------------------------
(* What an engine runs with.                                               *)

\* Tuned around its pins.
RunsWith(pins, tuned, fp16, backend) == FillFrom(FillFrom(pins, tuned), F16(fp16, backend))

\* A result an engine can be given: numbers for keys that are not pinned, among
\* them those whose fields would not be left alone.
Good(tuned, pins) ==
    /\ DOMAIN tuned \subseteq TuningKeys \ DOMAIN pins
    /\ \A k \in DOMAIN tuned : tuned[k] \in Nat \ {0}
    /\ {ANALYSIS_THREADS, SEARCH_THREADS} \subseteq DOMAIN pins \cup DOMAIN tuned

\* A configuration as a record.
IsConfig(c) ==
    c = [autotune |-> c.autotune, backend |-> c.backend, mode |-> c.mode, fp16 |-> c.fp16,
         host |-> c.host, concurrency |-> c.concurrency, override |-> c.override,
         maxVisits |-> c.maxVisits, autotuneVisits |-> c.autotuneVisits,
         humanModel |-> c.humanModel, fields |-> c.fields, explicit |-> c.explicit]

\* The configuration a section is read into.
IsSetup(c, g) ==
    /\ c.override = g.override /\ c.explicit = DOMAIN g.given /\ c.fp16 = g.fp16
    /\ c.backend = g.backend /\ c.concurrency = g.concurrency
    /\ DOMAIN c.fields = TuningKeys
    /\ \A k \in TuningKeys :
          c.fields[k] = IF k \in DOMAIN g.given THEN g.given[k] ELSE FieldDefault(k)
    /\ c.maxVisits = g.maxVisits /\ c.autotuneVisits = g.autotuneVisits
    /\ c.humanModel = g.humanModel
    /\ IsConfig(c)

\* A section is read into its configuration.
LEMMA SetupIs ==
  ASSUME NEW g, IsSection(g)
  PROVE  IsSetup(ReadSetup(g), g)
<1> DEFINE c == ReadSetup(g)
<1>1. /\ c.override = g.override /\ c.explicit = DOMAIN g.given /\ c.fp16 = g.fp16
      /\ c.backend = g.backend /\ c.concurrency = g.concurrency
      /\ c.fields = FillFrom(g.given, [k \in TuningKeys |-> FieldDefault(k)])
      /\ c.maxVisits = g.maxVisits /\ c.autotuneVisits = g.autotuneVisits
      /\ c.humanModel = g.humanModel
      /\ IsConfig(c)
  BY DEF ReadSetup, IsConfig
<1> HIDE DEF c
<1>2. DOMAIN g.given \subseteq TuningKeys
  BY DEF IsSection
<1>3. /\ DOMAIN c.fields = TuningKeys
      /\ \A k \in TuningKeys :
            c.fields[k] = IF k \in DOMAIN g.given THEN g.given[k] ELSE FieldDefault(k)
  BY <1>1, <1>2 DEF FillFrom
<1>4. IsSetup(c, g)
  BY <1>1, <1>3 DEF IsSetup
<1> QED
  BY <1>4 DEF c

\* The keys a section pins, and to what.
IsPinning(pins, g) ==
    /\ IsFiniteSet(DOMAIN pins)
    /\ IsFiniteSet(DOMAIN ParseOverrides(g.override))
    /\ DOMAIN pins = DOMAIN ParseOverrides(g.override) \cup {k \in DOMAIN g.given : g.given[k] > 0}
    /\ \A k \in DOMAIN ParseOverrides(g.override) : pins[k] = ParseOverrides(g.override)[k]
    /\ \A k \in DOMAIN g.given :
          g.given[k] > 0 /\ k \notin DOMAIN ParseOverrides(g.override) => pins[k] = g.given[k]

\* What a section pins: its raw overrides, and the fields it gives that are not 0.
LEMMA PinsAre ==
  ASSUME NEW g, IsSection(g)
  PROVE  IsPinning(Pins(ReadSetup(g)), g) /\ NumberPins(Pins(ReadSetup(g)))
<1> DEFINE c == ReadSetup(g)
           raw == g.override
           P == ParseOverrides(raw)
           set == {k \in c.explicit : c.fields[k] > 0}
           pins == Pins(c)
           n == Len(raw)
<1>1. IsSetup(c, g)
  BY SetupIs
<1>2. /\ DOMAIN g.given \subseteq TuningKeys /\ \A k \in DOMAIN g.given : g.given[k] \in Nat
  BY DEF IsSection
<1>3. n \in Nat /\ DOMAIN raw = 1..n
  BY DEF IsSection
<1>4. pins = FillFrom(P, Retain(c.fields, set))
  BY <1>1 DEF Pins, IsSetup
<1> HIDE DEF c, pins, n
<1>5. IsFiniteSet(DOMAIN P)
  BY <1>3, ParsedKeys
<1>6. ASSUME NEW k \in DOMAIN P, k \in TuningKeys PROVE P[k] \in Nat \cup {Junk}
  <2>1. PICK i \in 1..n : raw[i][1] = k /\ P[k] = raw[i][2]
    BY <1>3, ParsedLast
  <2> QED
    BY <1>3, <1>6, <2>1 DEF IsSection
<1> HIDE DEF P
<1>7. set = {k \in DOMAIN g.given : g.given[k] > 0}
  BY <1>1, <1>2 DEF IsSetup
<1>8. /\ DOMAIN pins = DOMAIN P \cup set
      /\ \A k \in DOMAIN P : pins[k] = P[k]
      /\ \A k \in set : k \notin DOMAIN P => pins[k] = g.given[k]
  BY <1>1, <1>2, <1>4, <1>7 DEF IsSetup, FillFrom, Retain
<1>9. IsFiniteSet(set)
  <2>1. set \subseteq TuningKeys
    BY <1>2, <1>7
  <2> HIDE DEF set
  <2> QED
    BY <2>1, TuningKeysFinite, FS_Subset
<1>10. IsFiniteSet(DOMAIN pins)
  <2> HIDE DEF set
  <2>1. IsFiniteSet(DOMAIN P \cup set)
    BY <1>5, <1>9, FS_Union
  <2> QED
    BY <1>8, <2>1
<1>11. NumberPins(pins)
  BY <1>2, <1>6, <1>7, <1>8 DEF NumberPins
<1>12. IsPinning(pins, g)
  BY <1>5, <1>7, <1>8, <1>10 DEF IsPinning, P
<1> QED
  BY <1>11, <1>12 DEF pins, c

\* The trial's engine.
LEMMA TrialRuns ==
  ASSUME NEW g, IsSection(g), NEW c, c = ReadSetup(g), NEW pins, pins = Pins(c),
         NEW tuned, Good(tuned, pins)
  PROVE  LET ran == Engine(LaunchCfg(c, FillFrom(pins, tuned)))
         IN /\ ran = [overrides |-> RunsWith(pins, tuned, g.fp16, g.backend),
                      visits |-> ran.visits, human |-> None]
            /\ ran.visits <= g.maxVisits
<1> DEFINE over == FillFrom(pins, tuned)
           t == LaunchCfg(c, over)
           S == {<<k, over[k]>> : k \in DOMAIN over}
           none == Retain(t.fields, {k \in TuningKeys : t.fields[k] > 0})
           f16 == F16(g.fp16, g.backend)
<1>1. IsSetup(c, g) /\ IsPinning(pins, g)
  BY SetupIs, PinsAre
<1>2. /\ t.override = Format(over) /\ t.fields = [k \in TuningKeys |-> 0]
      /\ t.fp16 = g.fp16 /\ t.backend = g.backend
      /\ t.maxVisits = TrialVisits(c) /\ t.humanModel = None
  <2>1. IsConfig(c) /\ c.fp16 = g.fp16 /\ c.backend = g.backend
    BY <1>1 DEF IsSetup
  <2> HIDE DEF over
  <2> QED
    BY <2>1 DEF LaunchCfg, IsConfig
<1>3. IsFiniteSet(DOMAIN over) /\ over = [k \in DOMAIN over |-> over[k]]
  <2>1. DOMAIN tuned \subseteq TuningKeys /\ IsFiniteSet(DOMAIN pins)
    BY <1>1 DEF Good, IsPinning
  <2>2. IsFiniteSet(DOMAIN tuned)
    BY <2>1, TuningKeysFinite, FS_Subset
  <2>3. DOMAIN over = DOMAIN pins \cup DOMAIN tuned /\ over = [k \in DOMAIN over |-> over[k]]
    BY DEF FillFrom
  <2> HIDE DEF over
  <2>4. IsFiniteSet(DOMAIN pins \cup DOMAIN tuned)
    BY <2>1, <2>2, FS_Union
  <2> QED
    BY <2>3, <2>4
<1> HIDE DEF over, t
<1>4. t.override \in Seq(S) /\ ParseOverrides(t.override) = over
  BY <1>2, <1>3, FormatFacts, ParseFormat
<1> HIDE DEF S
<1>5. DOMAIN t.fields = TuningKeys /\ DOMAIN none = {}
  BY <1>2 DEF Retain
<1>6. Effective(t) = FillFrom(over, FillFrom(f16, none))
  BY <1>2, <1>4, <1>5, EffectiveIs
<1> HIDE DEF none
<1>7. f16 = [k \in DOMAIN f16 |-> f16[k]]
  BY DEF F16, NoOverrides
<1> HIDE DEF f16
<1>8. FillFrom(f16, none) = f16
  BY <1>5, <1>7 DEF FillFrom
<1>9. Effective(t) = RunsWith(pins, tuned, g.fp16, g.backend)
  BY <1>6, <1>8 DEF RunsWith, over, f16
<1>10. t.maxVisits <= g.maxVisits
  <2>1. /\ c.maxVisits = g.maxVisits /\ c.maxVisits \in Nat
        /\ c.autotuneVisits = g.autotuneVisits /\ c.autotuneVisits \in Nat
    BY <1>1 DEF IsSetup, IsSection
  <2> QED
    BY <1>2, <2>1 DEF TrialVisits, Lesser
<1> QED
  BY <1>2, <1>9, <1>10 DEF Engine, t, over

\* The engine a tuned configuration launches.
LEMMA TunedRuns ==
  ASSUME NEW g, IsSection(g), NEW c, c = ReadSetup(g), NEW pins, pins = Pins(c),
         NEW tuned, Good(tuned, pins)
  PROVE  Engine(WithTuned(c, tuned)) =
            [Engine(c) EXCEPT !.overrides = RunsWith(pins, tuned, g.fp16, g.backend)]
<1> DEFINE P == ParseOverrides(g.override)
           numbers == {k \in DOMAIN tuned \cap TuningKeys : tuned[k] # Junk}
           over == FillFrom(Retain(tuned, DOMAIN tuned \ numbers), P)
           fields == [k \in TuningKeys |->
                        IF k \in numbers THEN tuned[k]
                        ELSE IF k \in DOMAIN P \ c.explicit THEN 0 ELSE c.fields[k]]
           t == WithTuned(c, tuned)
           S == {<<k, P[k]>> : k \in DOMAIN P}
           f16 == F16(g.fp16, g.backend)
           set == Retain(fields, {k \in TuningKeys : fields[k] > 0})
<1>1. IsSetup(c, g) /\ IsPinning(pins, g)
  BY SetupIs, PinsAre
<1>2. P = [k \in DOMAIN P |-> P[k]]
  BY DEF ParseOverrides
<1>3. /\ t.override = Format(over) /\ t.fields = fields /\ t.fp16 = g.fp16 /\ t.backend = g.backend
      /\ t.maxVisits = c.maxVisits /\ t.humanModel = c.humanModel
  <2>1. /\ IsConfig(c)
        /\ c.fp16 = g.fp16 /\ c.backend = g.backend /\ c.override = g.override
    BY <1>1 DEF IsSetup
  <2>2. t = [c EXCEPT !.fields = fields, !.override = Format(over)]
    BY <2>1 DEF WithTuned
  <2> HIDE DEF t, fields, over
  <2> QED
    BY <2>1, <2>2 DEF IsConfig
<1>4. DOMAIN tuned \subseteq TuningKeys /\ numbers = DOMAIN tuned
  BY NoNumbersAssumption DEF Good
<1> HIDE DEF P, t, numbers
<1>5. over = P
  <2>1. DOMAIN Retain(tuned, DOMAIN tuned \ numbers) = {}
    BY <1>4 DEF Retain
  <2> QED
    BY <1>2, <2>1 DEF FillFrom
<1> HIDE DEF over
<1>6. t.override \in Seq(S) /\ ParseOverrides(t.override) = P
  <2>1. IsFiniteSet(DOMAIN P)
    BY <1>1 DEF IsPinning, P
  <2> QED
    BY <1>2, <1>3, <1>5, <2>1, FormatFacts, ParseFormat
<1> HIDE DEF S
<1>7. Effective(t) = FillFrom(P, FillFrom(f16, set))
  <2>1. DOMAIN t.fields = TuningKeys
    BY <1>3
  <2> HIDE DEF fields
  <2> QED
    BY <1>3, <1>6, <2>1, EffectiveIs
<1>8. DOMAIN f16 \subseteq {FP16} /\ FP16 \notin TuningKeys
  BY DEF F16, NoOverrides, TuningKeys, ANALYSIS_THREADS, SEARCH_THREADS, SERVER_THREADS,
         BATCH_SIZE, FP16
<1> HIDE DEF f16
<1>9. \A k \in TuningKeys : fields[k] = IF k \in DOMAIN tuned THEN tuned[k]
                                        ELSE IF k \in DOMAIN P \ c.explicit THEN 0 ELSE c.fields[k]
  BY <1>4
<1>10. DOMAIN set = {k \in TuningKeys : fields[k] > 0} /\ \A k \in DOMAIN set : set[k] = fields[k]
  BY DEF Retain
<1> HIDE DEF set, fields
<1>11. /\ DOMAIN pins = DOMAIN P \cup {k \in DOMAIN g.given : g.given[k] > 0}
       /\ \A k \in DOMAIN P : pins[k] = P[k]
       /\ \A k \in DOMAIN g.given : g.given[k] > 0 /\ k \notin DOMAIN P => pins[k] = g.given[k]
       /\ DOMAIN g.given \subseteq TuningKeys
  BY <1>1 DEF IsPinning, P, IsSection
<1>12. ASSUME NEW k \in TuningKeys, k \notin DOMAIN P
       PROVE  /\ k \in DOMAIN tuned =>
                    fields[k] = tuned[k] /\ k \notin DOMAIN pins /\ k \in DOMAIN set
              /\ k \in DOMAIN pins =>
                    fields[k] = pins[k] /\ k \notin DOMAIN tuned /\ k \in DOMAIN set
              /\ k \in DOMAIN set => k \in DOMAIN tuned \cup DOMAIN pins
  <2>1. CASE k \in DOMAIN tuned
    <3>1. tuned[k] > 0 /\ k \notin DOMAIN pins
      BY <2>1 DEF Good
    <3> QED
      BY <1>9, <1>10, <2>1, <3>1
  <2>2. CASE k \notin DOMAIN tuned
    <3>1. fields[k] = c.fields[k]
      BY <1>9, <1>12, <2>2
    <3>2. k \in DOMAIN pins <=> k \in DOMAIN g.given /\ g.given[k] > 0
      BY <1>11, <1>12
    <3>3. CASE k \in DOMAIN g.given
      <4>1. c.fields[k] = g.given[k]
        BY <1>1, <3>3 DEF IsSetup
      <4> QED
        BY <1>10, <1>11, <1>12, <2>2, <3>1, <3>2, <3>3, <4>1
    <3>4. CASE k \notin DOMAIN g.given
      <4>1. c.fields[k] = FieldDefault(k)
        BY <1>1, <3>4 DEF IsSetup
      <4>2. k \notin DOMAIN pins
        BY <3>2, <3>4
      <4>3. k # ANALYSIS_THREADS /\ k # SEARCH_THREADS
        BY <2>2, <4>2 DEF Good
      <4>4. FieldDefault(k) = 0
        BY <4>3 DEF FieldDefault
      <4> QED
        BY <1>10, <2>2, <3>1, <4>1, <4>2, <4>4
    <3> QED
      BY <3>3, <3>4
  <2> QED
    BY <2>1, <2>2
<1>13. FillFrom(P, FillFrom(f16, set)) = FillFrom(FillFrom(pins, tuned), f16)
  <2> DEFINE a == FillFrom(P, FillFrom(f16, set))
             b == FillFrom(FillFrom(pins, tuned), f16)
  <2>1. DOMAIN set \subseteq TuningKeys /\ DOMAIN tuned \subseteq TuningKeys
    BY <1>4, <1>10
  <2>2. /\ DOMAIN a = DOMAIN P \cup (DOMAIN f16 \cup DOMAIN set)
        /\ DOMAIN b = (DOMAIN pins \cup DOMAIN tuned) \cup DOMAIN f16
        /\ a = [k \in DOMAIN a |-> a[k]] /\ b = [k \in DOMAIN b |-> b[k]]
    BY DEF FillFrom
  <2>3. \A k \in DOMAIN a :
           a[k] = IF k \in DOMAIN P THEN P[k] ELSE IF k \in DOMAIN f16 THEN f16[k] ELSE set[k]
    BY DEF FillFrom
  <2>4. \A k \in DOMAIN b :
           b[k] = IF k \in DOMAIN pins THEN pins[k]
                  ELSE IF k \in DOMAIN tuned THEN tuned[k] ELSE f16[k]
    BY DEF FillFrom
  <2> HIDE DEF a, b
  <2>5. DOMAIN a = DOMAIN b
    <3>1. DOMAIN a \subseteq DOMAIN b
      BY <1>11, <1>12, <2>1, <2>2
    <3>2. DOMAIN b \subseteq DOMAIN a
      BY <1>11, <1>12, <2>1, <2>2
    <3> QED
      BY <3>1, <3>2
  <2>6. ASSUME NEW k \in DOMAIN a PROVE a[k] = b[k]
    <3>1. CASE k \in DOMAIN P
      <4>1. k \in DOMAIN pins /\ pins[k] = P[k]
        BY <1>11, <3>1
      <4> QED
        BY <2>3, <2>4, <2>5, <3>1, <4>1
    <3>2. CASE k \notin DOMAIN P /\ k \in TuningKeys
      <4>1. k \notin DOMAIN f16
        BY <1>8, <3>2
      <4>2. k \in DOMAIN set /\ a[k] = fields[k]
        BY <1>10, <2>2, <2>3, <3>2, <4>1
      <4> QED
        BY <1>12, <2>4, <2>5, <3>2, <4>2
    <3>3. CASE k \notin DOMAIN P /\ k \notin TuningKeys
      <4>1. k \in DOMAIN f16 /\ k \notin DOMAIN pins /\ k \notin DOMAIN tuned
        BY <1>11, <2>1, <2>2, <3>3
      <4> QED
        BY <2>3, <2>4, <2>5, <3>3, <4>1
    <3> QED
      BY <3>1, <3>2, <3>3
  <2>7. a = b
    BY <2>2, <2>5, <2>6
  <2> QED
    BY <2>7 DEF a, b
<1>14. Effective(t) = RunsWith(pins, tuned, g.fp16, g.backend)
  BY <1>7, <1>13 DEF RunsWith, f16
<1> QED
  BY <1>3, <1>14 DEF Engine, t

\* The engine of a configuration nothing was tuned in.
LEMMA PinsRun ==
  ASSUME NEW g, IsSection(g), NEW c, c = ReadSetup(g), NEW pins, pins = Pins(c),
         NEW k \in DOMAIN pins
  PROVE  Effective(c)[k] = pins[k]
<1> DEFINE P == ParseOverrides(g.override)
           f16 == F16(g.fp16, g.backend)
           set == Retain(c.fields, {l \in TuningKeys : c.fields[l] > 0})
<1>1. IsSetup(c, g) /\ IsPinning(pins, g)
  BY SetupIs, PinsAre
<1>2. /\ c.override = g.override /\ DOMAIN c.fields = TuningKeys
      /\ c.fp16 = g.fp16 /\ c.backend = g.backend
      /\ \A l \in DOMAIN g.given : l \in TuningKeys /\ c.fields[l] = g.given[l]
  BY <1>1 DEF IsSetup, IsSection
<1>3. c.override \in Seq(Range(g.override))
  BY <1>2 DEF IsSection
<1>4. Effective(c) = FillFrom(P, FillFrom(f16, set))
  BY <1>2, <1>3, EffectiveIs
<1>5. DOMAIN f16 \subseteq {FP16} /\ FP16 \notin TuningKeys
  BY DEF F16, NoOverrides, TuningKeys, ANALYSIS_THREADS, SEARCH_THREADS, SERVER_THREADS,
         BATCH_SIZE, FP16
<1>6. /\ DOMAIN set = {l \in TuningKeys : c.fields[l] > 0}
      /\ \A l \in DOMAIN set : set[l] = c.fields[l]
  BY <1>2 DEF Retain
<1> HIDE DEF f16, set
<1>7. CASE k \in DOMAIN P
  <2>1. pins[k] = P[k]
    BY <1>1, <1>7 DEF IsPinning
  <2> HIDE DEF P
  <2> QED
    BY <1>4, <1>7, <2>1 DEF FillFrom
<1>8. CASE k \notin DOMAIN P
  <2>1. k \in DOMAIN g.given /\ g.given[k] > 0 /\ pins[k] = g.given[k]
    BY <1>1, <1>8 DEF IsPinning
  <2>2. k \in DOMAIN set /\ k \notin DOMAIN f16 /\ set[k] = g.given[k]
    BY <1>2, <1>5, <1>6, <2>1
  <2> HIDE DEF P
  <2> QED
    BY <1>4, <1>8, <2>1, <2>2 DEF FillFrom
<1> QED
  BY <1>7, <1>8

-----------------------------------------------------------------------------
(* The invariant: what a worker found, and what is in the file, is a       *)
(* result for its key, measured as the engine is launched; what a search   *)
(* tries is sound, and its winner near the best rate.                      *)

\* A result for these pins, and what its trial ran with.
IsResult(tuned, ran, pins, fp16, backend, visits) ==
    /\ Good(tuned, pins)
    /\ ran.overrides = RunsWith(pins, tuned, fp16, backend)
    /\ ran.visits <= visits /\ ran.human = None

EntriesSound(es) ==
    \A e \in es : IsResult(e.tuned, e.ran, e.key.pinned, e.key.fp16, e.key.backend,
                          e.key.maxVisits)

\* A worker at stage st, started with sec, its configuration at c.
Sound(st, sec, c, p, f) ==
    /\ st # "off" => IsSection(sec) /\ p = Pins(ReadSetup(sec))
    /\ st \notin {"off", "up"} => c = ReadSetup(sec)
    /\ st \in {"lookup", "probe", "tune"} => f.how = "nothing"
    /\ st \in {"read", "open", "write", "rename", "apply"} =>
          f.how # "nothing" /\ IsResult(f.tuned, f.ran, p, sec.fp16, sec.backend, sec.maxVisits)
    /\ st = "up" =>
          \/ f.how = "nothing" /\ c = ReadSetup(sec)
          \/ /\ f.how # "nothing" /\ IsResult(f.tuned, f.ran, p, sec.fp16, sec.backend, sec.maxVisits)
             /\ c = WithTuned(ReadSetup(sec), f.tuned)

\* A worker's search, the rates it has seen, and the trials it may still make.
Searching(st, sp, p, s, known, mode) ==
    /\ IsFunction(known)
    /\ st # "tune" => known = NoRates
    /\ st = "tune" => SearchSound(sp, p, s, known) /\ (sp.mode = "fast" <=> mode = "fast")
    /\ st = "tune" => TrialsLeft(sp, s) \in 0..MaxTrials

\* A function with an entry for each worker.
IsOn(f) == DOMAIN f = Workers /\ f = [w \in Workers |-> f[w]]

AllOn ==
    /\ IsOn(stage) /\ IsOn(section) /\ IsOn(cfg) /\ IsOn(pinned) /\ IsOn(found) /\ IsOn(seen)
    /\ IsOn(space) /\ IsOn(search) /\ IsOn(rate) /\ IsOn(pid)

\* What the files hold.
FilesSound ==
    /\ DOMAIN tmp = Pids /\ tmp = [p \in Pids |-> tmp[p]]
    /\ EntriesSound(cache.entries) /\ \A p \in Pids : EntriesSound(tmp[p].entries)

IInv ==
    /\ AllOn
    /\ \A w \in Workers :
          /\ Sound(stage[w], section[w], cfg[w], pinned[w], found[w])
          /\ Searching(stage[w], space[w], pinned[w], search[w], rate[w], cfg[w].mode)
          /\ EntriesSound(seen[w]) /\ (Storing(w) => pid[w] \in Pids)
    /\ FilesSound

\* A function on the workers stays one.
LEMMA StillOn ==
  ASSUME NEW f, IsOn(f), NEW w, NEW x
  PROVE  IsOn([f EXCEPT ![w] = x])
  BY DEF IsOn

\* A worker's entry in a function that does not change.
LEMMA Same ==
  ASSUME NEW f, IsOn(f), NEW w \in Workers
  PROVE  f = [f EXCEPT ![w] = f[w]]
  BY DEF IsOn

\* At the beginning the invariant holds.
LEMMA InitInv == ASSUME Init PROVE IInv
<1>1. AllOn
  BY DEF Init, AllOn, IsOn
<1>2. EntriesSound({}) /\ IsFunction(NoRates)
  BY DEF EntriesSound, IsFunction, NoRates
<1>5. FilesSound /\ \A w \in Workers : ~Storing(w)
  BY <1>2 DEF Init, FilesSound, Absent, Storing
<1>3. \A w \in Workers : Sound(stage[w], section[w], cfg[w], pinned[w], found[w])
  BY DEF Init, Sound
<1>4. \A w \in Workers :
         Searching(stage[w], space[w], pinned[w], search[w], rate[w], cfg[w].mode)
  BY <1>2 DEF Init, Searching
<1> QED
  BY <1>1, <1>2, <1>3, <1>4, <1>5 DEF Init, IInv

\* A step of one worker: the others' part of the invariant stands.
LEMMA OwnStep ==
  ASSUME IInv, NEW w \in Workers,
         NEW st, stage' = [stage EXCEPT ![w] = st],
         NEW g, section' = [section EXCEPT ![w] = g],
         NEW c, cfg' = [cfg EXCEPT ![w] = c],
         NEW p, pinned' = [pinned EXCEPT ![w] = p],
         NEW f, found' = [found EXCEPT ![w] = f],
         NEW es, seen' = [seen EXCEPT ![w] = es],
         NEW q, pid' = [pid EXCEPT ![w] = q], st \in {"write", "rename"} => q \in Pids,
         NEW sp, space' = [space EXCEPT ![w] = sp],
         NEW s, search' = [search EXCEPT ![w] = s],
         NEW known, rate' = [rate EXCEPT ![w] = known],
         Sound(st, g, c, p, f), Searching(st, sp, p, s, known, c.mode),
         EntriesSound(es), FilesSound'
  PROVE  IInv'
<1>1. AllOn'
  BY StillOn DEF IInv, AllOn
<1>2. ASSUME NEW v \in Workers
      PROVE  Sound(stage'[v], section'[v], cfg'[v], pinned'[v], found'[v])
  BY DEF IInv, AllOn, IsOn
<1>3. ASSUME NEW v \in Workers
      PROVE  Searching(stage'[v], space'[v], pinned'[v], search'[v], rate'[v], cfg'[v].mode)
  BY DEF IInv, AllOn, IsOn
<1>4. ASSUME NEW v \in Workers PROVE EntriesSound(seen'[v])
  BY DEF IInv, AllOn, IsOn
<1>5. ASSUME NEW v \in Workers PROVE (Storing(v) => pid[v] \in Pids)'
  BY DEF IInv, AllOn, IsOn, Storing
<1> QED
  BY <1>1, <1>2, <1>3, <1>4, <1>5 DEF IInv

\* A step that is not one of a store.
LEMMA OwnQuiet ==
  ASSUME IInv, NEW w \in Workers, UNCHANGED storeVars,
         NEW st, stage' = [stage EXCEPT ![w] = st], st \notin {"write", "rename"},
         NEW g, section' = [section EXCEPT ![w] = g],
         NEW c, cfg' = [cfg EXCEPT ![w] = c],
         NEW p, pinned' = [pinned EXCEPT ![w] = p],
         NEW f, found' = [found EXCEPT ![w] = f],
         NEW sp, space' = [space EXCEPT ![w] = sp],
         NEW s, search' = [search EXCEPT ![w] = s],
         NEW known, rate' = [rate EXCEPT ![w] = known],
         Sound(st, g, c, p, f), Searching(st, sp, p, s, known, c.mode)
  PROVE  IInv'
<1>1. seen' = [seen EXCEPT ![w] = seen[w]] /\ pid' = [pid EXCEPT ![w] = pid[w]]
  BY Same DEF storeVars, IInv, AllOn
<1>2. FilesSound' /\ EntriesSound(seen[w])
  BY DEF storeVars, IInv, FilesSound
<1> QED
  BY <1>1, <1>2, OwnStep

\* What a worker's step finds.
LEMMA Before ==
  ASSUME IInv, NEW w \in Workers
  PROVE  /\ stage = [stage EXCEPT ![w] = stage[w]]
         /\ section = [section EXCEPT ![w] = section[w]]
         /\ cfg = [cfg EXCEPT ![w] = cfg[w]]
         /\ pinned = [pinned EXCEPT ![w] = pinned[w]]
         /\ found = [found EXCEPT ![w] = found[w]]
         /\ seen = [seen EXCEPT ![w] = seen[w]]
         /\ pid = [pid EXCEPT ![w] = pid[w]]
         /\ space = [space EXCEPT ![w] = space[w]]
         /\ search = [search EXCEPT ![w] = search[w]]
         /\ rate = [rate EXCEPT ![w] = rate[w]]
         /\ Sound(stage[w], section[w], cfg[w], pinned[w], found[w])
         /\ Searching(stage[w], space[w], pinned[w], search[w], rate[w], cfg[w].mode)
         /\ EntriesSound(seen[w]) /\ FilesSound
  BY Same DEF IInv, AllOn

\* A section stays one when the command line overrides its mode.
LEMMA AskedSection ==
  ASSUME NEW t, IsSection(t), NEW on, NEW how,
         NEW g, g = [t EXCEPT !.autotune = on, !.mode = how]
  PROVE  IsSection(g)
<1>1. t = [autotune |-> t.autotune, backend |-> t.backend, mode |-> t.mode, fp16 |-> t.fp16,
           host |-> t.host, concurrency |-> t.concurrency, maxVisits |-> t.maxVisits,
           autotuneVisits |-> t.autotuneVisits, humanModel |-> t.humanModel,
           given |-> t.given, override |-> t.override]
  BY DEF IsSection
<1>2. g = [autotune |-> on, backend |-> t.backend, mode |-> how, fp16 |-> t.fp16,
           host |-> t.host, concurrency |-> t.concurrency, maxVisits |-> t.maxVisits,
           autotuneVisits |-> t.autotuneVisits, humanModel |-> t.humanModel,
           given |-> t.given, override |-> t.override]
  BY <1>1
<1>3. /\ g = [autotune |-> g.autotune, backend |-> g.backend, mode |-> g.mode, fp16 |-> g.fp16,
              host |-> g.host, concurrency |-> g.concurrency, maxVisits |-> g.maxVisits,
              autotuneVisits |-> g.autotuneVisits, humanModel |-> g.humanModel,
              given |-> g.given, override |-> g.override]
      /\ g.given = t.given /\ g.override = t.override /\ g.concurrency = t.concurrency
      /\ g.maxVisits = t.maxVisits /\ g.autotuneVisits = t.autotuneVisits
  BY <1>2
<1> QED
  BY <1>3 DEF IsSection

\* A start leaves a parsed section, pins its keys, and has found nothing.
LEMMA StartInv ==
  ASSUME IInv, NEW w \in Workers, Start(w)
  PROVE  IInv'
<1>1. PICK s \in Starts(w) :
         /\ section' = [section EXCEPT ![w] = [s.section EXCEPT !.autotune = @ \/ s.command,
                                              !.mode = IF s.fast THEN "fast" ELSE @]]
         /\ cfg' = [cfg EXCEPT ![w] = ReadSetup([s.section EXCEPT
                        !.autotune = @ \/ s.command, !.mode = IF s.fast THEN "fast" ELSE @])]
         /\ pinned' = [pinned EXCEPT ![w] = Pins(cfg'[w])]
  BY DEF Start
<1> DEFINE t == s.section
           on == t.autotune \/ s.command
           how == IF s.fast THEN "fast" ELSE t.mode
           g == [t EXCEPT !.autotune = on, !.mode = how]
           c == ReadSetup(g)
           p == Pins(c)
<1>2. IsSection(g)
  <2>1. IsSection(t)
    BY StartsAssumption
  <2> HIDE DEF t, on, how
  <2> QED
    BY <2>1, AskedSection
<1>3. section' = [section EXCEPT ![w] = g] /\ cfg' = [cfg EXCEPT ![w] = c]
  BY <1>1
<1> HIDE DEF g
<1>4. /\ stage[w] \in {"off", "up"} /\ stage' = [stage EXCEPT ![w] = "lookup"]
      /\ found' = [found EXCEPT ![w] = Nothing]
      /\ UNCHANGED <<space, search, rate, storeVars>>
  BY DEF Start, Go
<1>5. pinned' = [pinned EXCEPT ![w] = p]
  <2>1. cfg'[w] = c
    BY <1>3 DEF IInv, AllOn, IsOn
  <2> HIDE DEF c
  <2> QED
    BY <1>1, <2>1
<1>6. Sound("lookup", g, c, p, Nothing)
  BY <1>2 DEF Sound, Nothing
<1>7. Searching("lookup", space[w], p, search[w], rate[w], c.mode)
  BY <1>4, Before DEF Searching
<1> HIDE DEF c, p
<1>8. /\ space' = [space EXCEPT ![w] = space[w]]
      /\ search' = [search EXCEPT ![w] = search[w]]
      /\ rate' = [rate EXCEPT ![w] = rate[w]]
  BY <1>4, Before
<1> QED
  BY <1>3, <1>4, <1>5, <1>6, <1>7, <1>8, OwnQuiet

\* An entry that is hit was tuned around the same pins.
LEMMA HitIsResult ==
  ASSUME IInv, NEW w \in Workers, stage[w] = "lookup", NEW e \in Hits(cache.entries, KeyOf(w))
  PROVE  IsResult(e.tuned, e.ran, pinned[w], section[w].fp16, section[w].backend,
                  section[w].maxVisits)
<1>1. e \in cache.entries /\ (e.key = KeyOf(w) \/ e.key = [KeyOf(w) EXCEPT !.mode = "thorough"])
  BY DEF Hits
<1>2. /\ KeyOf(w).pinned = pinned[w] /\ KeyOf(w).fp16 = cfg[w].fp16
      /\ KeyOf(w).backend = cfg[w].backend /\ KeyOf(w).maxVisits = cfg[w].maxVisits
  BY DEF KeyOf
<1>3. /\ e.key.pinned = pinned[w] /\ e.key.fp16 = cfg[w].fp16
      /\ e.key.backend = cfg[w].backend /\ e.key.maxVisits = cfg[w].maxVisits
  BY <1>1, <1>2 DEF KeyOf
<1>4. IsSection(section[w]) /\ cfg[w] = ReadSetup(section[w]) /\ EntriesSound(cache.entries)
  BY Before DEF Sound, FilesSound
<1>5. /\ cfg[w].fp16 = section[w].fp16 /\ cfg[w].backend = section[w].backend
      /\ cfg[w].maxVisits = section[w].maxVisits
  BY <1>4, SetupIs DEF IsSetup
<1> QED
  BY <1>1, <1>3, <1>4, <1>5 DEF EntriesSound

\* What a search settles on is a result.
LEMMA TunedIsGood ==
  ASSUME NEW pins, NEW cand, IsCandidate(cand, pins)
  PROVE  Good(TunedKeys(pins, cand), pins)
<1> DEFINE chosen == [k \in TuningKeys |->
              CASE k = SEARCH_THREADS   -> 1
                [] k = ANALYSIS_THREADS -> cand.analysis
                [] k = SERVER_THREADS   -> cand.servers
                [] k = BATCH_SIZE       -> cand.batch]
           tuned == TunedKeys(pins, cand)
<1>1. /\ DOMAIN tuned = TuningKeys \cap ({k \in TuningKeys : chosen[k] # None} \ DOMAIN pins)
      /\ \A k \in DOMAIN tuned : tuned[k] = chosen[k]
  BY DEF TunedKeys, Retain
<1>2. cand.analysis \in Chosen /\ cand.servers \in Chosen /\ cand.batch \in Chosen
  BY DEF IsCandidate, Candidates
<1>3. /\ chosen[SEARCH_THREADS] = 1 /\ chosen[ANALYSIS_THREADS] = cand.analysis
      /\ chosen[SERVER_THREADS] = cand.servers /\ chosen[BATCH_SIZE] = cand.batch
  BY DEF TuningKeys, ANALYSIS_THREADS, SEARCH_THREADS, SERVER_THREADS, BATCH_SIZE
<1>4. \A k \in TuningKeys : chosen[k] \in Chosen
  <2>1. 1 \in Chosen
    BY DEF Chosen
  <2> HIDE DEF chosen
  <2> QED
    BY <1>2, <1>3, <2>1 DEF TuningKeys
<1> HIDE DEF tuned, chosen
<1>5. \A k \in DOMAIN tuned : tuned[k] \in Nat \ {0}
  BY <1>1, <1>4 DEF Chosen
<1>6. {ANALYSIS_THREADS, SEARCH_THREADS} \subseteq DOMAIN pins \cup DOMAIN tuned
  <2>1. SEARCH_THREADS \in TuningKeys /\ ANALYSIS_THREADS \in TuningKeys /\ None # 1
    BY NoNumbersAssumption DEF TuningKeys
  <2>2. cand.analysis = None => ANALYSIS_THREADS \in DOMAIN pins
    BY DEF IsCandidate
  <2> QED
    BY <1>1, <1>3, <2>1, <2>2
<1>7. Good(tuned, pins)
  BY <1>1, <1>5, <1>6 DEF Good
<1> QED
  BY <1>7 DEF tuned

\* A step that leaves the search, what was found and the file.
LEMMA MovesOn ==
  ASSUME IInv, NEW w \in Workers, NEW st, stage' = [stage EXCEPT ![w] = st],
         UNCHANGED <<section, cfg, pinned, found, space, search, rate, storeVars>>,
         stage[w] # "tune", st \notin {"tune", "write", "rename"},
         Sound(st, section[w], cfg[w], pinned[w], found[w])
  PROVE  IInv'
<1>1. Searching(st, space[w], pinned[w], search[w], rate[w], cfg[w].mode)
  BY Before DEF Searching
<1>2. /\ section' = [section EXCEPT ![w] = section[w]] /\ cfg' = [cfg EXCEPT ![w] = cfg[w]]
      /\ pinned' = [pinned EXCEPT ![w] = pinned[w]] /\ found' = [found EXCEPT ![w] = found[w]]
      /\ space' = [space EXCEPT ![w] = space[w]] /\ search' = [search EXCEPT ![w] = search[w]]
      /\ rate' = [rate EXCEPT ![w] = rate[w]]
  BY Before
<1> QED
  BY <1>1, <1>2, OwnQuiet

\* Looking the key up: nothing is found, or a result for this key.
LEMMA LookupInv ==
  ASSUME IInv, NEW w \in Workers, Lookup(w)
  PROVE  IInv'
<1>0. /\ Sound(stage[w], section[w], cfg[w], pinned[w], found[w])
      /\ Searching(stage[w], space[w], pinned[w], search[w], rate[w], cfg[w].mode)
  BY Before
<1>1. CASE Skip(w)
  <2>1. /\ stage[w] = "lookup" /\ stage' = [stage EXCEPT ![w] = "up"]
        /\ UNCHANGED <<section, cfg, pinned, found, space, search, rate, storeVars>>
    BY <1>1 DEF Skip, Go
  <2>2. Sound("up", section[w], cfg[w], pinned[w], found[w])
    BY <1>0, <2>1 DEF Sound
  <2> QED
    BY <1>0, <2>1, <2>2, MovesOn
<1>2. CASE Miss(w)
  <2>1. /\ stage[w] = "lookup" /\ stage' = [stage EXCEPT ![w] = "probe"]
        /\ UNCHANGED <<section, cfg, pinned, found, space, search, rate, storeVars>>
    BY <1>2 DEF Miss, Go
  <2>2. Sound("probe", section[w], cfg[w], pinned[w], found[w])
    BY <1>0, <2>1 DEF Sound
  <2> QED
    BY <1>0, <2>1, <2>2, MovesOn
<1>3. CASE Hit(w)
  <2>1. PICK e \in Hits(cache.entries, KeyOf(w)) :
           found' = [found EXCEPT ![w] = [how |-> "hit", tuned |-> e.tuned, ran |-> e.ran]]
    BY <1>3 DEF Hit
  <2> DEFINE f == [how |-> "hit", tuned |-> e.tuned, ran |-> e.ran]
  <2>2. /\ stage[w] = "lookup" /\ stage' = [stage EXCEPT ![w] = "apply"]
        /\ UNCHANGED <<section, cfg, pinned, space, search, rate, storeVars>>
    BY <1>3 DEF Hit, Go
  <2>3. IsResult(e.tuned, e.ran, pinned[w], section[w].fp16, section[w].backend,
                 section[w].maxVisits)
    BY <2>2, HitIsResult
  <2>4. f.how = "hit" /\ f.tuned = e.tuned /\ f.ran = e.ran /\ found' = [found EXCEPT ![w] = f]
    BY <2>1
  <2> HIDE DEF f
  <2>5. Sound("apply", section[w], cfg[w], pinned[w], f)
    BY <1>0, <2>2, <2>3, <2>4 DEF Sound
  <2>6. Searching("apply", space[w], pinned[w], search[w], rate[w], cfg[w].mode)
    BY <1>0, <2>2 DEF Searching
  <2>7. /\ section' = [section EXCEPT ![w] = section[w]] /\ cfg' = [cfg EXCEPT ![w] = cfg[w]]
        /\ pinned' = [pinned EXCEPT ![w] = pinned[w]]
        /\ space' = [space EXCEPT ![w] = space[w]] /\ search' = [search EXCEPT ![w] = search[w]]
        /\ rate' = [rate EXCEPT ![w] = rate[w]]
    BY <1>0, <2>2, Before
  <2>8. stage' = [stage EXCEPT ![w] = "apply"] /\ found' = [found EXCEPT ![w] = f]
    BY <2>2, <2>4
  <2> QED
    BY <2>2, <2>5, <2>6, <2>7, <2>8, OwnQuiet
<1> QED
  BY <1>1, <1>2, <1>3 DEF Lookup

\* The search a probe begins is sound.
LEMMA ProbeInv ==
  ASSUME IInv, NEW w \in Workers, Probe(w)
  PROVE  IInv'
<1> DEFINE depth == Games(w) * POSITIONS_PER_GAME
           sp == Space(cfg[w], pinned[w], depth, Lanes)
           s == SearchStart(sp)
<1>0. /\ Sound(stage[w], section[w], cfg[w], pinned[w], found[w])
      /\ Searching(stage[w], space[w], pinned[w], search[w], rate[w], cfg[w].mode)
  BY Before
<1>1. /\ stage[w] = "probe" /\ stage' = [stage EXCEPT ![w] = "tune"]
      /\ space' = [space EXCEPT ![w] = sp]
      /\ search' = [search EXCEPT ![w] = SearchStart(space'[w])]
      /\ UNCHANGED <<section, cfg, pinned, found, rate, storeVars>>
  BY DEF Probe, Go
<1>2. search' = [search EXCEPT ![w] = s]
  <2>1. space'[w] = sp
    BY <1>1 DEF IInv, AllOn, IsOn
  <2> HIDE DEF sp
  <2> QED
    BY <1>1, <2>1
<1>3. /\ IsSection(section[w])
      /\ pinned[w] = Pins(ReadSetup(section[w])) /\ cfg[w] = ReadSetup(section[w])
  BY <1>0, <1>1 DEF Sound
<1>4. NumberPins(pinned[w])
  BY <1>3, PinsAre
<1>5. depth \in Nat
  <2>1. cfg[w].concurrency \in Nat
    BY <1>3, SetupIs DEF IsSetup, IsSection
  <2>2. Games(w) \in Nat
    BY <2>1 DEF Games, Greater
  <2> QED
    BY <2>2 DEF POSITIONS_PER_GAME
<1>6. rate[w] = NoRates /\ IsFunction(rate[w]) /\ DOMAIN rate[w] = {}
  BY <1>0, <1>1 DEF Searching, NoRates
<1> HIDE DEF depth
<1>7. SearchSound(sp, pinned[w], s, rate[w]) /\ (sp.mode = "fast" <=> cfg[w].mode = "fast")
  <2>1. sp = Space(cfg[w], pinned[w], depth, Lanes)
    OBVIOUS
  <2>2. DOMAIN rate[w] = {} /\ Lanes \in Nat \cup {None}
    BY <1>6, LanesAssumption
  <2>3. s = SearchStart(sp)
    OBVIOUS
  <2> HIDE DEF sp, s
  <2> DEFINE c == cfg[w]
             p == pinned[w]
             known == rate[w]
  <2>4. NumberPins(p) /\ sp = Space(c, p, depth, Lanes) /\ DOMAIN known = {}
    BY <1>4, <2>1, <2>2
  <2> HIDE DEF c, p, known
  <2>5. SearchSound(sp, p, SearchStart(sp), known) /\ (sp.mode = "fast" <=> c.mode = "fast")
    BY <1>5, <2>2, <2>4, SearchStartSound
  <2> QED
    BY <2>3, <2>5 DEF c, p, known
<1>8. TrialsLeft(sp, s) \in 0..MaxTrials
  <2>1. sp = Space(cfg[w], pinned[w], depth, Lanes) /\ s = SearchStart(sp)
    OBVIOUS
  <2> HIDE DEF sp, s
  <2> DEFINE c == cfg[w]
             p == pinned[w]
  <2>2. NumberPins(p) /\ sp = Space(c, p, depth, Lanes) /\ Lanes \in Nat \cup {None}
    BY <1>4, <2>1, LanesAssumption
  <2> HIDE DEF c, p
  <2>3. TrialsLeft(sp, SearchStart(sp)) \in 0..MaxTrials
    BY <1>5, <2>2, TrialsAtStart
  <2> QED
    BY <2>1, <2>3
<1> HIDE DEF sp, s
<1>9. Searching("tune", sp, pinned[w], s, rate[w], cfg[w].mode)
  BY <1>6, <1>7, <1>8 DEF Searching
<1>10. Sound("tune", section[w], cfg[w], pinned[w], found[w])
  BY <1>0, <1>1 DEF Sound
<1>11. /\ section' = [section EXCEPT ![w] = section[w]] /\ cfg' = [cfg EXCEPT ![w] = cfg[w]]
       /\ pinned' = [pinned EXCEPT ![w] = pinned[w]] /\ found' = [found EXCEPT ![w] = found[w]]
       /\ rate' = [rate EXCEPT ![w] = rate[w]]
  BY <1>0, <1>1, Before
<1> QED
  <2>1. stage' = [stage EXCEPT ![w] = "tune"] /\ space' = [space EXCEPT ![w] = sp]
        /\ UNCHANGED storeVars
    BY <1>0, <1>1
  <2> QED
    BY <1>2, <1>9, <1>10, <1>11, <2>1, OwnQuiet

\* A trial leaves its search fewer.
LEMMA FewerInTrial ==
  ASSUME IInv, NEW w \in Workers, stage[w] = "tune", search[w].trial # None,
         NEW outcome, NEW withinBudget
  PROVE  /\ TrialsLeft(space[w], search[w]) \in 0..MaxTrials
         /\ TrialsLeft(space[w], SearchAfter(space[w], search[w], outcome, withinBudget))
               < TrialsLeft(space[w], search[w])
         /\ TrialsLeft(space[w], SearchAfter(space[w], search[w], outcome, withinBudget))
               \in 0..MaxTrials
<1> DEFINE sp == space[w]
           p == pinned[w]
           s == search[w]
           known == rate[w]
           left == TrialsLeft(sp, s)
           later == TrialsLeft(sp, SearchAfter(sp, s, outcome, withinBudget))
<1>1. SearchSound(sp, p, s, known) /\ s.trial # None /\ left \in 0..MaxTrials
  BY Before DEF Searching
<1> HIDE DEF sp, p, s, known
<1>2. later \in 0..left - 1
  BY <1>1, FewerTrials
<1> HIDE DEF left, later
<1>3. later < left /\ later \in 0..MaxTrials
  BY <1>1, <1>2 DEF MaxTrials
<1> QED
  BY <1>1, <1>3 DEF left, later, sp, s

\* So is the one a trial leaves.
LEMMA TrialInv ==
  ASSUME IInv, NEW w \in Workers, Trial(w)
  PROVE  IInv'
<1> DEFINE c == search[w].trial
<1>0. /\ Sound(stage[w], section[w], cfg[w], pinned[w], found[w])
      /\ Searching(stage[w], space[w], pinned[w], search[w], rate[w], cfg[w].mode)
  BY Before
<1>1. /\ stage[w] = "tune" /\ c # None
      /\ UNCHANGED <<stage, section, cfg, pinned, space, found, storeVars>>
  BY DEF Trial
<1>2. PICK r \in (IF c \in DOMAIN rate[w] THEN {rate[w][c]} ELSE Rates),
           withinBudget \in BOOLEAN :
         \E outcome \in Outcomes(w, r) :
            /\ search' = [search EXCEPT
                             ![w] = SearchAfter(space[w], search[w], outcome, withinBudget)]
            /\ rate' = [rate EXCEPT ![w] =
                           IF outcome = Failed THEN rate[w]
                           ELSE [x \in DOMAIN rate[w] \cup {c} |-> IF x = c THEN r ELSE rate[w][x]]]
  BY DEF Trial
<1>3. PICK outcome \in Outcomes(w, r) :
         /\ search' = [search EXCEPT ![w] = SearchAfter(space[w], search[w], outcome, withinBudget)]
         /\ rate' = [rate EXCEPT ![w] = Learnt(rate[w], c, outcome, r)]
  BY <1>2 DEF Learnt
<1>4. SearchSound(space[w], pinned[w], search[w], rate[w]) /\ IsFunction(rate[w])
      /\ (space[w].mode = "fast" <=> cfg[w].mode = "fast")
  BY <1>0, <1>1 DEF Searching
<1>5. r \in Nat \ {0} /\ (c \in DOMAIN rate[w] => r = rate[w][c])
  <2>1. CASE c \in DOMAIN rate[w]
    BY <1>2, <1>4, <2>1, KnownRates
  <2>2. CASE c \notin DOMAIN rate[w]
    BY <1>2, <2>2, RatesAssumption
  <2> QED
    BY <2>1, <2>2
<1>6. outcome \in Endings(space[w], search[w], r)
  BY <1>3 DEF Outcomes, Endings
<1> DEFINE s == SearchAfter(space[w], search[w], outcome, withinBudget)
           known == Learnt(rate[w], c, outcome, r)
<1>7. SearchSound(space[w], pinned[w], s, known)
  BY <1>1, <1>4, <1>5, <1>6, SearchAfterSound
<1>8. IsFunction(known)
  BY <1>4, LearntFunction
<1>9. search' = [search EXCEPT ![w] = s] /\ rate' = [rate EXCEPT ![w] = known]
  BY <1>3
<1>10. TrialsLeft(space[w], s) \in 0..MaxTrials
  BY <1>0, <1>1, <1>3, FewerInTrial DEF Searching
<1> HIDE DEF s, known
<1>11. Searching("tune", space[w], pinned[w], s, known, cfg[w].mode)
  BY <1>4, <1>7, <1>8, <1>10 DEF Searching
<1>12. /\ section' = [section EXCEPT ![w] = section[w]] /\ cfg' = [cfg EXCEPT ![w] = cfg[w]]
       /\ pinned' = [pinned EXCEPT ![w] = pinned[w]] /\ found' = [found EXCEPT ![w] = found[w]]
       /\ space' = [space EXCEPT ![w] = space[w]]
       /\ stage' = [stage EXCEPT ![w] = "tune"]
       /\ Sound("tune", section[w], cfg[w], pinned[w], found[w])
  BY <1>0, <1>1, Before
<1> QED
  BY <1>0, <1>1, <1>9, <1>11, <1>12, OwnQuiet

\* The end of a search drops it.
LEMMA Dropped ==
  ASSUME IInv, NEW w \in Workers, DropSearch(w), NEW st \in {"read", "up"},
         stage' = [stage EXCEPT ![w] = st],
         UNCHANGED <<section, cfg, pinned, storeVars>>,
         NEW f, found' = [found EXCEPT ![w] = f],
         Sound(st, section[w], cfg[w], pinned[w], f)
  PROVE  IInv'
<1>1. /\ space' = [space EXCEPT ![w] = None] /\ search' = [search EXCEPT ![w] = None]
      /\ rate' = [rate EXCEPT ![w] = NoRates]
  BY DEF DropSearch
<1>2. Searching(st, None, pinned[w], None, NoRates, cfg[w].mode)
  BY DEF Searching, IsFunction, NoRates
<1>3. /\ section' = [section EXCEPT ![w] = section[w]] /\ cfg' = [cfg EXCEPT ![w] = cfg[w]]
      /\ pinned' = [pinned EXCEPT ![w] = pinned[w]]
  BY Before
<1> QED
  BY <1>1, <1>2, <1>3, OwnQuiet

\* The end of a search: its winner is a result, measured as its trial ran.
LEMMA EndInv ==
  ASSUME IInv, NEW w \in Workers, Finish(w) \/ NoWinner(w) \/ TimedOut(w)
  PROVE  IInv'
<1>0. /\ Sound(stage[w], section[w], cfg[w], pinned[w], found[w])
      /\ Searching(stage[w], space[w], pinned[w], search[w], rate[w], cfg[w].mode)
      /\ found = [found EXCEPT ![w] = found[w]]
  BY Before
<1>1. CASE NoWinner(w) \/ TimedOut(w)
  <2>1. /\ stage[w] \in {"probe", "tune"} /\ stage' = [stage EXCEPT ![w] = "up"]
        /\ UNCHANGED <<section, cfg, pinned, found, storeVars>> /\ DropSearch(w)
    BY <1>1 DEF NoWinner, TimedOut, Go
  <2>2. Sound("up", section[w], cfg[w], pinned[w], found[w])
    BY <1>0, <2>1 DEF Sound
  <2> QED
    BY <1>0, <2>1, <2>2, Dropped
<1>2. CASE Finish(w)
  <2> DEFINE cand == search[w].best.cand
             pins == pinned[w]
             tuned == TunedKeys(pins, cand)
             ran == Engine(LaunchCfg(cfg[w], TrialOverrides(pins, cand)))
             f == [how |-> "tuned", tuned |-> tuned, ran |-> ran]
  <2>1. /\ stage[w] = "tune" /\ search[w].best # None /\ stage' = [stage EXCEPT ![w] = "read"]
        /\ found' = [found EXCEPT ![w] = f]
        /\ UNCHANGED <<section, cfg, pinned, storeVars>> /\ DropSearch(w)
    BY <1>2 DEF Finish, Go
  <2>2. IsSection(section[w]) /\ cfg[w] = ReadSetup(section[w]) /\ pins = Pins(cfg[w])
    BY <1>0, <2>1 DEF Sound
  <2>3. IsCandidate(cand, pins)
    BY <1>0, <2>1, WinnerSound DEF Searching
  <2>4. Good(tuned, pins)
    BY <2>3, TunedIsGood
  <2>5. TrialOverrides(pins, cand) = FillFrom(pins, tuned)
    BY DEF TrialOverrides
  <2> HIDE DEF tuned, pins
  <2>6. LET e == Engine(LaunchCfg(cfg[w], FillFrom(pins, tuned)))
        IN /\ e = [overrides |-> RunsWith(pins, tuned, section[w].fp16, section[w].backend),
                   visits |-> e.visits, human |-> None]
           /\ e.visits <= section[w].maxVisits
    BY <2>2, <2>4, TrialRuns
  <2>7. /\ ran.overrides = RunsWith(pins, tuned, section[w].fp16, section[w].backend)
        /\ ran.visits <= section[w].maxVisits /\ ran.human = None
    BY <2>5, <2>6
  <2>8. f.how = "tuned" /\ f.tuned = tuned /\ f.ran = ran
    OBVIOUS
  <2> HIDE DEF f, ran
  <2>9. Sound("read", section[w], cfg[w], pins, f)
    BY <1>0, <2>1, <2>2, <2>4, <2>7, <2>8 DEF Sound, IsResult
  <2> QED
    BY <2>1, <2>9, Dropped DEF pins
<1> QED
  BY <1>1, <1>2

\* A step of a store, or its end, that leaves what was found.
LEMMA StoreStep ==
  ASSUME IInv, NEW w \in Workers,
         NEW st \in {"open", "write", "rename", "apply"}, stage' = [stage EXCEPT ![w] = st],
         stage[w] \in {"read", "open", "write", "rename"}, UNCHANGED othersVars,
         NEW es, seen' = [seen EXCEPT ![w] = es], EntriesSound(es),
         NEW q, pid' = [pid EXCEPT ![w] = q], st \in {"write", "rename"} => q \in Pids,
         FilesSound'
  PROVE  IInv'
<1>0. /\ Sound(stage[w], section[w], cfg[w], pinned[w], found[w])
      /\ Searching(stage[w], space[w], pinned[w], search[w], rate[w], cfg[w].mode)
  BY Before
<1>1. Sound(st, section[w], cfg[w], pinned[w], found[w])
  BY <1>0 DEF Sound
<1>2. Searching(st, space[w], pinned[w], search[w], rate[w], cfg[w].mode)
  BY <1>0 DEF Searching
<1>3. /\ section' = [section EXCEPT ![w] = section[w]] /\ cfg' = [cfg EXCEPT ![w] = cfg[w]]
      /\ pinned' = [pinned EXCEPT ![w] = pinned[w]] /\ found' = [found EXCEPT ![w] = found[w]]
      /\ space' = [space EXCEPT ![w] = space[w]] /\ search' = [search EXCEPT ![w] = search[w]]
      /\ rate' = [rate EXCEPT ![w] = rate[w]]
  BY Before DEF othersVars
<1> QED
  BY <1>1, <1>2, <1>3, OwnStep

\* Whatever a process has open when it writes.
LEMMA PutSound ==
  ASSUME FilesSound, NEW w \in Workers, NEW file, Put(w, file), EntriesSound(file.entries)
  PROVE  FilesSound'
<1>1. EntriesSound(cache.entries) /\ \A p \in Pids : EntriesSound(tmp[p].entries)
  BY DEF FilesSound
<1>2. EntriesSound(cache'.entries)
  BY <1>1 DEF Put
<1>3. DOMAIN tmp' = Pids /\ tmp' = [p \in Pids |-> tmp'[p]]
  BY DEF Put, FilesSound
<1>4. ASSUME NEW p \in Pids PROVE EntriesSound(tmp'[p].entries)
  BY <1>1 DEF Put, FilesSound
<1>5. (\A p \in Pids : EntriesSound(tmp[p].entries))'
  BY <1>4 DEF EntriesSound
<1>6. (EntriesSound(cache.entries))'
  BY <1>2 DEF EntriesSound
<1> QED
  BY <1>3, <1>5, <1>6 DEF FilesSound

\* What a store writes is its own result, among entries read.
LEMMA StoredSound ==
  ASSUME IInv, NEW w \in Workers, stage[w] = "write"
  PROVE  EntriesSound(Stored(w).entries)
<1> DEFINE new == [key |-> KeyOf(w), tuned |-> found[w].tuned, ran |-> found[w].ran]
<1>1. Sound(stage[w], section[w], cfg[w], pinned[w], found[w]) /\ EntriesSound(seen[w])
  BY Before
<1>2. /\ IsSection(section[w]) /\ cfg[w] = ReadSetup(section[w])
      /\ IsResult(found[w].tuned, found[w].ran, pinned[w], section[w].fp16, section[w].backend,
                  section[w].maxVisits)
  BY <1>1 DEF Sound
<1>3. /\ cfg[w].fp16 = section[w].fp16 /\ cfg[w].backend = section[w].backend
      /\ cfg[w].maxVisits = section[w].maxVisits
  BY <1>2, SetupIs DEF IsSetup
<1>4. /\ new.key.pinned = pinned[w] /\ new.key.fp16 = cfg[w].fp16
      /\ new.key.backend = cfg[w].backend /\ new.key.maxVisits = cfg[w].maxVisits
  BY DEF KeyOf
<1>5. IsResult(new.tuned, new.ran, new.key.pinned, new.key.fp16, new.key.backend,
               new.key.maxVisits)
  BY <1>2, <1>3, <1>4
<1>6. Stored(w).entries = {e \in seen[w] : e.key # KeyOf(w)} \cup {new}
  BY DEF Stored, Whole
<1> HIDE DEF new
<1> QED
  BY <1>1, <1>5, <1>6 DEF EntriesSound

\* The end of a store, at its rename, its failure or its process's death.
LEMMA DroppedFiles ==
  ASSUME IInv, NEW w \in Workers, StoreDropped(w)
  PROVE  FilesSound'
<1>1. FilesSound /\ EntriesSound(Torn.entries)
  BY DEF IInv, Torn, EntriesSound
<1>2. CASE UNCHANGED <<cache, tmp>>
  BY <1>1, <1>2 DEF FilesSound
<1>3. CASE Put(w, Torn)
  BY <1>1, <1>3, PutSound
<1> QED
  BY <1>2, <1>3 DEF StoreDropped

\* The store's steps.
LEMMA StoreInv ==
  ASSUME IInv, NEW w \in Workers, Store(w)
  PROVE  IInv'
<1>0. /\ EntriesSound(seen[w]) /\ FilesSound /\ EntriesSound({})
      /\ seen = [seen EXCEPT ![w] = seen[w]] /\ pid = [pid EXCEPT ![w] = pid[w]]
      /\ (Storing(w) => pid[w] \in Pids)
  BY Before DEF EntriesSound, IInv
<1>1. CASE StoreRead(w)
  <2>1. PICK es \in Reads : seen' = [seen EXCEPT ![w] = es]
    BY <1>1 DEF StoreRead
  <2>2. EntriesSound(es)
    BY <1>0, <2>1 DEF Reads, FilesSound
  <2>3. /\ stage[w] = "read" /\ stage' = [stage EXCEPT ![w] = "open"]
        /\ UNCHANGED <<othersVars, pid, cache, tmp>>
    BY <1>1 DEF StoreRead, Go
  <2>4. FilesSound'
    BY <1>0, <2>3 DEF FilesSound
  <2>5. pid' = [pid EXCEPT ![w] = pid[w]]
    BY <1>0, <2>3
  <2> QED
    BY <2>1, <2>2, <2>3, <2>4, <2>5, StoreStep
<1>2. CASE StoreOpen(w)
  <2>1. PICK p \in Pids : pid' = [pid EXCEPT ![w] = p] /\ tmp' = [tmp EXCEPT ![p] = Empty]
    BY <1>2 DEF StoreOpen
  <2>2. /\ stage[w] = "open" /\ stage' = [stage EXCEPT ![w] = "write"]
        /\ UNCHANGED <<othersVars, seen, cache>>
    BY <1>2 DEF StoreOpen, Go
  <2>3. Empty.entries = {}
    BY DEF Empty
  <2>4. \A x \in Pids : tmp'[x].entries \in {tmp[x].entries, {}}
    BY <1>0, <2>1, <2>3 DEF FilesSound
  <2>5. FilesSound'
    BY <1>0, <2>1, <2>2, <2>4 DEF FilesSound, EntriesSound
  <2>6. seen' = [seen EXCEPT ![w] = seen[w]]
    BY <1>0, <2>2
  <2> QED
    BY <1>0, <2>1, <2>2, <2>5, <2>6, StoreStep
<1>3. CASE StoreWrite(w)
  <2>1. /\ stage[w] = "write" /\ stage' = [stage EXCEPT ![w] = "rename"]
        /\ UNCHANGED <<othersVars, seen, pid>>
    BY <1>3 DEF StoreWrite, Go
  <2>2. PICK file \in {Stored(w), Torn} : Put(w, file)
    BY <1>3 DEF StoreWrite
  <2>3. EntriesSound(file.entries)
    <3>1. EntriesSound(Torn.entries)
      BY <1>0 DEF Torn
    <3> QED
      BY <2>1, <2>2, <3>1, StoredSound
  <2>4. FilesSound'
    BY <1>0, <2>2, <2>3, PutSound
  <2>5. /\ seen' = [seen EXCEPT ![w] = seen[w]] /\ pid' = [pid EXCEPT ![w] = pid[w]]
        /\ pid[w] \in Pids
    BY <1>0, <2>1 DEF Storing
  <2> QED
    BY <1>0, <2>1, <2>4, <2>5, StoreStep
<1>4. CASE StoreRename(w)
  <2>1. /\ stage[w] = "rename" /\ stage' = [stage EXCEPT ![w] = "apply"]
        /\ seen' = [seen EXCEPT ![w] = {}] /\ pid' = [pid EXCEPT ![w] = None]
        /\ cache' = tmp[pid[w]] /\ tmp' = [tmp EXCEPT ![pid[w]] = Absent]
        /\ UNCHANGED othersVars
    BY <1>4 DEF StoreRename, Go
  <2>2. pid[w] \in Pids /\ Absent.entries = {}
    BY <1>0, <2>1 DEF Storing, Absent
  <2>3. \A x \in Pids : tmp'[x].entries \in {tmp[x].entries, {}}
    BY <1>0, <2>1, <2>2 DEF FilesSound
  <2>4. FilesSound'
    BY <1>0, <2>1, <2>2, <2>3 DEF FilesSound, EntriesSound
  <2> QED
    BY <1>0, <2>1, <2>4, StoreStep
<1>5. CASE StoreFails(w)
  <2>1. /\ stage[w] \in {"open", "write", "rename"} /\ stage' = [stage EXCEPT ![w] = "apply"]
        /\ seen' = [seen EXCEPT ![w] = {}] /\ pid' = [pid EXCEPT ![w] = None]
        /\ UNCHANGED othersVars /\ StoreDropped(w)
    BY <1>5 DEF StoreFails, StoreDropped, Go
  <2>2. FilesSound'
    BY <2>1, DroppedFiles
  <2> QED
    BY <1>0, <2>1, <2>2, StoreStep
<1> QED
  BY <1>1, <1>2, <1>3, <1>4, <1>5 DEF Store

\* The process is killed.
LEMMA KilledInv ==
  ASSUME IInv, NEW w \in Workers, Killed(w)
  PROVE  IInv'
<1>1. /\ stage' = [stage EXCEPT ![w] = "off"] /\ section' = [section EXCEPT ![w] = None]
      /\ cfg' = [cfg EXCEPT ![w] = None] /\ pinned' = [pinned EXCEPT ![w] = NoOverrides]
      /\ found' = [found EXCEPT ![w] = Nothing] /\ seen' = [seen EXCEPT ![w] = {}]
      /\ pid' = [pid EXCEPT ![w] = None] /\ space' = [space EXCEPT ![w] = None]
      /\ search' = [search EXCEPT ![w] = None] /\ rate' = [rate EXCEPT ![w] = NoRates]
  BY DEF Killed, StoreDropped, DropSearch, Go
<1>2. FilesSound'
  BY DroppedFiles DEF Killed
<1>3. Sound("off", None, None, NoOverrides, Nothing) /\ EntriesSound({})
  BY DEF Sound, EntriesSound
<1>4. Searching("off", None, NoOverrides, None, NoRates, None.mode)
  BY DEF Searching, IsFunction, NoRates
<1> QED
  BY <1>1, <1>2, <1>3, <1>4, OwnStep

\* Applying a result.
LEMMA ApplyInv ==
  ASSUME IInv, NEW w \in Workers, Apply(w)
  PROVE  IInv'
<1> DEFINE c == WithTuned(cfg[w], found[w].tuned)
<1>0. /\ Sound(stage[w], section[w], cfg[w], pinned[w], found[w])
      /\ Searching(stage[w], space[w], pinned[w], search[w], rate[w], cfg[w].mode)
  BY Before
<1>1. /\ stage[w] = "apply" /\ stage' = [stage EXCEPT ![w] = "up"]
      /\ cfg' = [cfg EXCEPT ![w] = c]
      /\ UNCHANGED <<section, pinned, space, search, rate, found, storeVars>>
  BY DEF Apply, Go
<1>2. Sound("up", section[w], c, pinned[w], found[w])
  BY <1>0, <1>1 DEF Sound
<1> HIDE DEF c
<1>3. Searching("up", space[w], pinned[w], search[w], rate[w], c.mode)
  BY <1>0, <1>1 DEF Searching
<1>4. /\ section' = [section EXCEPT ![w] = section[w]] /\ space' = [space EXCEPT ![w] = space[w]]
      /\ pinned' = [pinned EXCEPT ![w] = pinned[w]] /\ found' = [found EXCEPT ![w] = found[w]]
      /\ search' = [search EXCEPT ![w] = search[w]]
      /\ rate' = [rate EXCEPT ![w] = rate[w]]
  BY <1>0, <1>1, Before
<1> QED
  BY <1>0, <1>1, <1>2, <1>3, <1>4, OwnQuiet

\* The invariant is inductive.
THEOREM Invariance == Spec => []IInv
<1>1. Init => IInv
  BY InitInv
<1>2. IInv /\ [Next]_vars => IInv'
  <2> SUFFICES ASSUME IInv, [Next]_vars PROVE IInv'
    OBVIOUS
  <2>1. CASE Next
    <3>1. PICK w \in Workers :
             \/ Start(w) \/ Lookup(w) \/ Probe(w) \/ Trial(w) \/ Store(w) \/ Apply(w) \/ Killed(w)
             \/ (Finish(w) \/ NoWinner(w) \/ TimedOut(w))
      BY <2>1 DEF Next, Tune
    <3> QED
      BY <3>1, StartInv, LookupInv, ProbeInv, TrialInv, EndInv, StoreInv, ApplyInv, KilledInv
  <2>2. CASE UNCHANGED vars
    BY <2>2 DEF vars, storeVars, IInv, AllOn, FilesSound, Storing
  <2> QED
    BY <2>1, <2>2
<1> QED
  BY <1>1, <1>2, PTL DEF Spec

\* An engine that was tuned, from a search or the cache, runs with everything
\* the operator set (`apply`, autotune/mod.rs; `with_tuned`, engine/mod.rs).
THEOREM PinsAreHonoured == Spec => []PinsHonoured
<1>1. IInv => PinsHonoured
  <2> SUFFICES ASSUME IInv, NEW w \in Workers, stage[w] = "up"
               PROVE  LET raw == section[w].override
                          given == section[w].given
                      IN /\ \A i \in DOMAIN raw :
                               (\A l \in DOMAIN raw : raw[l][1] = raw[i][1] => l <= i)
                                  => Effective(cfg[w])[raw[i][1]] = raw[i][2]
                         /\ \A k \in DOMAIN given :
                               given[k] > 0 /\ (\A i \in DOMAIN raw : raw[i][1] # k)
                                  => Effective(cfg[w])[k] = given[k]
    BY DEF PinsHonoured, Up
  <2> DEFINE g == section[w]
             raw == g.override
             given == g.given
             c == ReadSetup(g)
             pins == Pins(c)
             t == found[w].tuned
             P == ParseOverrides(raw)
             n == Len(raw)
             E == Effective(cfg[w])
  <2>1. /\ IsSection(g)
        /\ \/ cfg[w] = c
           \/ Good(t, pins) /\ cfg[w] = WithTuned(c, t)
    BY Before DEF Sound, IsResult
  <2>2. n \in Nat /\ DOMAIN raw = 1..n
    BY <2>1 DEF IsSection
  <2>3. IsPinning(pins, g)
    BY <2>1, PinsAre
  <2> HIDE DEF g, t, pins, c
  <2>4. ASSUME NEW k \in DOMAIN pins PROVE E[k] = pins[k]
    <3>1. CASE cfg[w] = c
      BY <2>1, <3>1, PinsRun DEF c, pins
    <3>2. CASE Good(t, pins) /\ cfg[w] = WithTuned(c, t)
      <4>1. Engine(WithTuned(c, t)).overrides = RunsWith(pins, t, g.fp16, g.backend)
        <5>1. Engine(WithTuned(c, t)) =
                 [Engine(c) EXCEPT !.overrides = RunsWith(pins, t, g.fp16, g.backend)]
          BY <2>1, <3>2, TunedRuns DEF c, pins
        <5> QED
          BY <5>1 DEF Engine
      <4>2. Effective(WithTuned(c, t)) = RunsWith(pins, t, g.fp16, g.backend)
        BY <4>1 DEF Engine
      <4> QED
        BY <3>2, <4>2 DEF RunsWith, FillFrom
    <3> QED
      BY <2>1, <3>1, <3>2
  <2> HIDE DEF E, n
  <2>5. /\ DOMAIN pins = DOMAIN P \cup {k \in DOMAIN given : given[k] > 0}
        /\ \A k \in DOMAIN P : pins[k] = P[k]
        /\ \A k \in DOMAIN given : given[k] > 0 /\ k \notin DOMAIN P => pins[k] = given[k]
    BY <2>3 DEF IsPinning
  <2>6. ASSUME NEW i \in DOMAIN raw, \A l \in DOMAIN raw : raw[l][1] = raw[i][1] => l <= i
        PROVE  E[raw[i][1]] = raw[i][2]
    <3>1. raw[i][1] \in DOMAIN P /\ P[raw[i][1]] = raw[i][2]
      BY <2>2, <2>6, LastWins
    <3> HIDE DEF P
    <3> QED
      BY <2>4, <2>5, <3>1
  <2>7. ASSUME NEW k \in DOMAIN given, given[k] > 0, \A i \in DOMAIN raw : raw[i][1] # k
        PROVE  E[k] = given[k]
    <3>1. k \notin DOMAIN P
      BY <2>7 DEF ParseOverrides
    <3> HIDE DEF P
    <3> QED
      BY <2>4, <2>5, <2>7, <3>1
  <2> QED
    BY <2>6, <2>7 DEF E, g
<1> QED
  BY <1>1, Invariance, PTL

\* A tuned engine is launched with the overrides its winner's trial ran with, also
\* when the winner came from the cache, under whatever configuration it was tuned,
\* and with the visits and the human network its own configuration asks for
\* (`launch_cfg`, `trial_visits`, `CacheKey`, `with_tuned`); an untuned one as it was
\* configured.
THEOREM LaunchIsAsMeasured == Spec => []LaunchedAsMeasured
<1>1. IInv => LaunchedAsMeasured
  <2> SUFFICES ASSUME IInv, NEW w \in Workers, stage[w] = "up"
               PROVE  LET asked == Engine(ReadSetup(section[w]))
                          ran == found[w].ran
                      IN IF found[w].how = "nothing" THEN Engine(cfg[w]) = asked
                         ELSE /\ Engine(cfg[w]) = [asked EXCEPT !.overrides = ran.overrides]
                              /\ ran.visits <= asked.visits /\ ran.human = None
    BY DEF LaunchedAsMeasured, Up
  <2> DEFINE g == section[w]
             c == ReadSetup(g)
             pins == pinned[w]
             t == found[w].tuned
             ran == found[w].ran
  <2>1. Sound("up", g, cfg[w], pins, found[w])
    BY Before
  <2>2. IsSection(g) /\ pins = Pins(c)
    BY <2>1 DEF Sound
  <2>3. CASE found[w].how = "nothing"
    BY <2>1, <2>3 DEF Sound
  <2>4. CASE found[w].how # "nothing"
    <3>1. /\ Good(t, pins) /\ ran.overrides = RunsWith(pins, t, g.fp16, g.backend)
          /\ ran.visits <= g.maxVisits /\ ran.human = None
          /\ cfg[w] = WithTuned(c, t)
      BY <2>1, <2>4 DEF Sound, IsResult
    <3>2. c.maxVisits = g.maxVisits
      BY <2>2, SetupIs DEF IsSetup
    <3> HIDE DEF g, t, pins, c, ran
    <3>3. Engine(WithTuned(c, t)) =
             [Engine(c) EXCEPT !.overrides = RunsWith(pins, t, g.fp16, g.backend)]
      BY <2>2, <3>1, TunedRuns DEF c
    <3>4. Engine(c).visits = g.maxVisits
      BY <3>2 DEF Engine
    <3> QED
      BY <2>4, <3>1, <3>3, <3>4 DEF g, c, ran
  <2> QED
    BY <2>3, <2>4
<1> QED
  BY <1>1, Invariance, PTL

\* No rate a search has seen beats its winner's by more than its ties forgive,
\* whatever the rates, failures and windows stopped half-way were; and the fast
\* walk that was not cut short has tried both rungs beside its winner.
THEOREM WinnerIsNearBest == Spec => []WinnerNearBest
<1>1. IInv => WinnerNearBest
  <2> SUFFICES ASSUME IInv, NEW w \in Workers, stage[w] = "tune", search[w].trial = None,
                      rate[w] # NoRates, search[w].best # None
               PROVE  LET s == search[w]
                          best == s.best.rate
                      IN IF cfg[w].mode = "fast"
                         THEN /\ \A c \in DOMAIN rate[w] : 100 * rate[w][c] <= (100 + TIE) * best
                              /\ ~s.ranOut =>
                                    {s.top - 1, s.top + 1} \cap DOMAIN space[w].ladder
                                       \subseteq s.measured
                         ELSE \A c \in DOMAIN rate[w] :
                                 10000 * best >= (100 - TIE) * (100 - TIE) * rate[w][c]
    BY DEF WinnerNearBest
  <2> DEFINE s == search[w]
             known == rate[w]
             sp == space[w]
  <2>1. /\ SearchSound(sp, pinned[w], s, known) /\ (sp.mode = "fast" <=> cfg[w].mode = "fast")
        /\ IsFunction(known)
    BY Before DEF Searching
  <2>2. DOMAIN known # {}
    <3>1. known # NoRates
      OBVIOUS
    <3> HIDE DEF known
    <3> QED
      BY <2>1, <3>1 DEF IsFunction, NoRates
  <2>3. s.best # None /\ s.trial = None
    OBVIOUS
  <2> HIDE DEF s, known, sp
  <2>4. IF sp.mode = "fast"
        THEN /\ \A c \in DOMAIN known : 100 * known[c] <= (100 + TIE) * s.best.rate
             /\ s.trial = None /\ ~s.ranOut =>
                   {s.top - 1, s.top + 1} \cap DOMAIN sp.ladder \subseteq s.measured
        ELSE \A c \in DOMAIN known :
                10000 * s.best.rate >= (100 - TIE) * (100 - TIE) * known[c]
    BY <2>1, <2>2, <2>3, WinnerSound
  <2>5. CASE cfg[w].mode = "fast"
    <3>1. sp.mode = "fast"
      BY <2>1, <2>5
    <3>2. \A c \in DOMAIN known : 100 * known[c] <= (100 + TIE) * s.best.rate
      BY <2>4, <3>1
    <3>3. ~s.ranOut => {s.top - 1, s.top + 1} \cap DOMAIN sp.ladder \subseteq s.measured
      BY <2>3, <2>4, <3>1
    <3> QED
      BY <2>5, <3>2, <3>3 DEF s, known, sp
  <2>6. CASE cfg[w].mode # "fast"
    <3>1. \A c \in DOMAIN known : 10000 * s.best.rate >= (100 - TIE) * (100 - TIE) * known[c]
      BY <2>1, <2>4, <2>6
    <3> QED
      BY <2>6, <3>1 DEF s, known
  <2> QED
    BY <2>5, <2>6
<1> QED
  BY <1>1, Invariance, PTL

\* A search runs out of trials whatever it measures, whatever fails, whatever the
\* host, the budget and the rates: it begins with at most MaxTrials (a window or two
\* of each of four pairs, five for the threads), and each trial leaves fewer
\* (`search` of fast.rs and thorough.rs).
THEOREM TrialsRunOut ==
  Spec => /\ [](\A w \in Workers :
                  stage[w] = "tune" => TrialsLeft(space[w], search[w]) \in 0..MaxTrials)
          /\ [][\A w \in Workers :
                  Trial(w) => TrialsLeft(space[w], search[w])'
                                < TrialsLeft(space[w], search[w])]_vars
<1>1. IInv => \A w \in Workers :
                stage[w] = "tune" => TrialsLeft(space[w], search[w]) \in 0..MaxTrials
  BY DEF IInv, Searching
<1>2. IInv /\ [Next]_vars =>
        [\A w \in Workers :
            Trial(w) => TrialsLeft(space[w], search[w])' < TrialsLeft(space[w], search[w])]_vars
  <2> SUFFICES ASSUME IInv, NEW w \in Workers, Trial(w)
               PROVE  TrialsLeft(space[w], search[w])' < TrialsLeft(space[w], search[w])
    OBVIOUS
  <2>1. stage[w] = "tune" /\ search[w].trial # None /\ space' = space
    BY DEF Trial
  <2>2. PICK outcome, withinBudget :
           search' = [search EXCEPT
                         ![w] = SearchAfter(space[w], search[w], outcome, withinBudget)]
    BY DEF Trial
  <2>3. search'[w] = SearchAfter(space[w], search[w], outcome, withinBudget)
    BY <2>2 DEF IInv, AllOn, IsOn
  <2>4. TrialsLeft(space'[w], search'[w]) =
           TrialsLeft(space[w], SearchAfter(space[w], search[w], outcome, withinBudget))
    BY <2>1, <2>3
  <2>5. TrialsLeft(space[w], SearchAfter(space[w], search[w], outcome, withinBudget))
           < TrialsLeft(space[w], search[w])
    BY <2>1, FewerInTrial
  <2>6. TrialsLeft(space[w], search[w])' = TrialsLeft(space'[w], search'[w])
    BY DEF TrialsLeft, StageTrials, SecondStage, Untried
  <2> QED
    BY <2>4, <2>5, <2>6
<1> QED
  BY <1>1, <1>2, Invariance, PTL DEF Spec

-----------------------------------------------------------------------------
(* The file.  While no two stores have used one temporary file, a store    *)
(* has its own, which is empty until it is written, and whole then.        *)

FileSound ==
    /\ cache.is \in {"absent", "whole"}
    /\ \A w \in Workers :
          /\ stage[w] = "write" => fd[w] = "tmp" /\ tmp[pid[w]] = Empty
          /\ stage[w] = "rename" => tmp[pid[w]].is = "whole"
    /\ \A v, w \in Workers : Storing(v) /\ Storing(w) /\ pid[v] = pid[w] => v = w

FInv == IsOn(fd) /\ (~shared => FileSound)

\* A step of worker w, to stage st and id q, that leaves the others' temporary files.
LeavesOthers(w, st, q) ==
    /\ stage' = [stage EXCEPT ![w] = st] /\ pid' = [pid EXCEPT ![w] = q]
    /\ \A v \in Workers \ {w} :
          /\ stage[v] = "write" => fd'[v] = fd[v]
          /\ Storing(v) => tmp'[pid[v]] = tmp[pid[v]]
          /\ Storing(v) /\ st \in {"write", "rename"} => pid[v] # q
    /\ st = "write" => fd'[w] = "tmp" /\ tmp'[q] = Empty
    /\ st = "rename" => tmp'[q].is = "whole"
    /\ cache'.is \in {"absent", "whole"}

\* After such a step every store still has a file of its own.
LEMMA OthersFiles ==
  ASSUME IInv, FileSound, NEW w \in Workers, NEW st, NEW q, LeavesOthers(w, st, q)
  PROVE  FileSound'
<1>0. /\ stage' = [stage EXCEPT ![w] = st] /\ pid' = [pid EXCEPT ![w] = q]
      /\ \A v \in Workers \ {w} :
            /\ stage[v] = "write" => fd'[v] = fd[v]
            /\ Storing(v) => tmp'[pid[v]] = tmp[pid[v]]
            /\ Storing(v) /\ st \in {"write", "rename"} => pid[v] # q
      /\ st = "write" => fd'[w] = "tmp" /\ tmp'[q] = Empty
      /\ st = "rename" => tmp'[q].is = "whole"
      /\ cache'.is \in {"absent", "whole"}
  BY DEF LeavesOthers
<1>1. DOMAIN stage = Workers /\ DOMAIN pid = Workers
  BY DEF IInv, AllOn, IsOn
<1>2. /\ stage'[w] = st /\ pid'[w] = q
      /\ \A v \in Workers \ {w} : stage'[v] = stage[v] /\ pid'[v] = pid[v]
  BY <1>0, <1>1
<1>3. \A v \in Workers : Storing(v)' <=> stage'[v] \in {"write", "rename"}
  BY DEF Storing
<1>4. ASSUME NEW v \in Workers
      PROVE  /\ stage'[v] = "write" => fd'[v] = "tmp" /\ tmp'[pid'[v]] = Empty
             /\ stage'[v] = "rename" => tmp'[pid'[v]].is = "whole"
  <2>1. CASE v = w
    BY <1>0, <1>2, <2>1
  <2>2. CASE v # w
    BY <1>0, <1>2, <2>2 DEF FileSound, Storing
  <2> QED
    BY <2>1, <2>2
<1>5. ASSUME NEW v \in Workers, NEW u \in Workers, Storing(v)', Storing(u)', pid'[v] = pid'[u]
      PROVE  v = u
  <2>1. stage'[v] \in {"write", "rename"} /\ stage'[u] \in {"write", "rename"}
    BY <1>3, <1>5
  <2>2. CASE v # w /\ u # w
    BY <1>0, <1>2, <1>5, <2>1, <2>2 DEF FileSound, Storing
  <2>3. CASE v = w /\ u # w
    BY <1>0, <1>2, <1>5, <2>1, <2>3 DEF Storing
  <2>4. CASE v # w /\ u = w
    BY <1>0, <1>2, <1>5, <2>1, <2>4 DEF Storing
  <2> QED
    BY <2>2, <2>3, <2>4
<1> QED
  BY <1>0, <1>4, <1>5 DEF FileSound, Empty

\* A worker's own temporary file is no other store's.
LEMMA OwnFile ==
  ASSUME IInv, FileSound, NEW w \in Workers, Storing(w), NEW file, NEW v \in Workers \ {w}, Storing(v)
  PROVE  pid[v] # pid[w] /\ [tmp EXCEPT ![pid[w]] = file][pid[v]] = tmp[pid[v]]
<1>1. pid[v] # pid[w]
  BY DEF FileSound
<1>2. pid[v] \in DOMAIN tmp
  BY DEF IInv, FilesSound
<1> QED
  BY <1>1, <1>2

\* The end of a store, or of its process.
LEMMA DroppedFile ==
  ASSUME IInv, FInv, NEW w \in Workers, StoreDropped(w),
         NEW st \in {"apply", "off"}, stage' = [stage EXCEPT ![w] = st]
  PROVE  FInv'
<1>1. /\ fd' = [fd EXCEPT ![w] = "none"] /\ pid' = [pid EXCEPT ![w] = None] /\ shared' = shared
  BY DEF StoreDropped
<1>2. IsOn(fd')
  BY <1>1, StillOn DEF FInv
<1>3. ASSUME ~shared PROVE FileSound'
  <2>1. FileSound
    BY <1>3 DEF FInv
  <2>2. \A v \in Workers \ {w} : fd'[v] = fd[v]
    BY <1>1 DEF FInv, IsOn
  <2>3. /\ cache' = cache
        /\ tmp' = tmp \/ (Storing(w) /\ tmp' = [tmp EXCEPT ![pid[w]] = Torn])
    <3>1. CASE UNCHANGED <<cache, tmp>>
      BY <3>1
    <3>2. CASE stage[w] = "write" /\ Put(w, Torn)
      <4>1. fd[w] = "tmp"
        BY <2>1, <3>2 DEF FileSound
      <4> QED
        BY <3>2, <4>1 DEF Put, Storing
    <3> QED
      BY <3>1, <3>2 DEF StoreDropped
  <2>4. ASSUME NEW v \in Workers \ {w}, Storing(v) PROVE tmp'[pid[v]] = tmp[pid[v]]
    <3>1. CASE Storing(w)
      <4>1. [tmp EXCEPT ![pid[w]] = Torn][pid[v]] = tmp[pid[v]]
        BY <2>1, <2>4, <3>1, OwnFile
      <4> QED
        BY <2>3, <4>1
    <3>2. CASE ~Storing(w)
      BY <2>3, <3>2
    <3> QED
      BY <3>1, <3>2
  <2>5. cache'.is \in {"absent", "whole"}
    BY <2>1, <2>3 DEF FileSound
  <2> QED
    <3>1. LeavesOthers(w, st, None)
      BY <1>1, <2>2, <2>4, <2>5 DEF LeavesOthers
    <3> QED
      BY <2>1, <3>1, OthersFiles
<1> QED
  BY <1>1, <1>2, <1>3 DEF FInv

\* A step that is not one of a store.
LEMMA QuietFile ==
  ASSUME IInv, FInv, NEW w \in Workers, UNCHANGED <<pid, fd, cache, tmp, shared>>,
         NEW st, stage' = [stage EXCEPT ![w] = st], st \notin {"write", "rename"}
  PROVE  FInv'
<1>1. ASSUME ~shared PROVE FileSound'
  <2>1. FileSound /\ pid' = [pid EXCEPT ![w] = pid[w]]
    BY <1>1, Before DEF FInv
  <2>2. cache'.is \in {"absent", "whole"}
    BY <2>1 DEF FileSound
  <2> QED
    <3>1. LeavesOthers(w, st, pid[w])
      BY <2>1, <2>2 DEF LeavesOthers
    <3> QED
      BY <2>1, <3>1, OthersFiles
<1> QED
  BY <1>1 DEF FInv

\* Opening, writing and renaming.
LEMMA OpenFile ==
  ASSUME IInv, FInv, NEW w \in Workers, StoreOpen(w)
  PROVE  FInv'
<1>1. PICK p \in Pids :
         /\ pid' = [pid EXCEPT ![w] = p] /\ tmp' = [tmp EXCEPT ![p] = Empty]
         /\ shared' = (shared \/ \E v \in Workers \ {w} : Storing(v) /\ pid[v] = p)
  BY DEF StoreOpen
<1>2. /\ fd' = [fd EXCEPT ![w] = "tmp"] /\ cache' = cache
      /\ stage' = [stage EXCEPT ![w] = "write"]
  BY DEF StoreOpen, Go
<1>3. IsOn(fd')
  BY <1>2, StillOn DEF FInv
<1>4. ASSUME ~shared' PROVE FileSound'
  <2>1. FileSound /\ \A v \in Workers \ {w} : Storing(v) => pid[v] # p
    BY <1>1, <1>4 DEF FInv
  <2>2. fd'[w] = "tmp" /\ \A v \in Workers \ {w} : fd'[v] = fd[v]
    BY <1>2 DEF FInv, IsOn
  <2>3. tmp'[p] = Empty
    BY <1>1 DEF IInv, FilesSound
  <2>4. ASSUME NEW v \in Workers \ {w}, Storing(v) PROVE tmp'[pid[v]] = tmp[pid[v]]
    BY <1>1, <2>1, <2>4 DEF IInv, FilesSound
  <2>5. cache'.is \in {"absent", "whole"}
    BY <1>2, <2>1 DEF FileSound
  <2>6. LeavesOthers(w, "write", p)
    BY <1>1, <1>2, <2>1, <2>2, <2>3, <2>4, <2>5 DEF LeavesOthers
  <2> QED
    BY <2>1, <2>6, OthersFiles
<1> QED
  BY <1>3, <1>4 DEF FInv

LEMMA WriteFile ==
  ASSUME IInv, FInv, NEW w \in Workers, StoreWrite(w)
  PROVE  FInv'
<1>1. PICK file \in {Stored(w)} \cup (IF Opened(w) = Empty THEN {} ELSE {Torn}) : Put(w, file)
  BY DEF StoreWrite
<1>2. /\ stage[w] = "write" /\ stage' = [stage EXCEPT ![w] = "rename"]
      /\ fd' = [fd EXCEPT ![w] = "none"] /\ pid' = pid /\ shared' = shared
  BY DEF StoreWrite, Go
<1>3. IsOn(fd')
  BY <1>2, StillOn DEF FInv
<1>4. ASSUME ~shared PROVE FileSound'
  <2>1. FileSound /\ Storing(w) /\ pid' = [pid EXCEPT ![w] = pid[w]]
    BY <1>2, <1>4, Before DEF FInv, Storing
  <2>2. fd[w] = "tmp" /\ tmp[pid[w]] = Empty
    BY <1>2, <2>1 DEF FileSound
  <2>3. file = Stored(w)
    BY <1>1, <2>2 DEF Opened
  <2>4. tmp' = [tmp EXCEPT ![pid[w]] = Stored(w)] /\ cache' = cache
    BY <1>1, <2>2, <2>3 DEF Put
  <2>5. pid[w] \in Pids /\ DOMAIN tmp = Pids
    BY <2>1 DEF IInv, FilesSound
  <2>6. tmp'[pid[w]].is = "whole"
    BY <2>4, <2>5 DEF Stored, Whole
  <2>7. \A v \in Workers \ {w} : fd'[v] = fd[v]
    BY <1>2 DEF FInv, IsOn
  <2>8. \A v \in Workers \ {w} : Storing(v) => pid[v] # pid[w]
    BY <2>1, OwnFile
  <2>10. \A v \in Workers \ {w} : Storing(v) => tmp'[pid[v]] = tmp[pid[v]]
    BY <2>1, <2>4, OwnFile
  <2>9. cache'.is \in {"absent", "whole"}
    BY <2>1, <2>4 DEF FileSound
  <2>11. LeavesOthers(w, "rename", pid[w])
    BY <1>2, <2>1, <2>6, <2>7, <2>8, <2>9, <2>10 DEF LeavesOthers
  <2> QED
    BY <2>1, <2>11, OthersFiles
<1> QED
  BY <1>2, <1>3, <1>4 DEF FInv

LEMMA RenameFile ==
  ASSUME IInv, FInv, NEW w \in Workers, StoreRename(w)
  PROVE  FInv'
<1>1. /\ stage[w] = "rename" /\ stage' = [stage EXCEPT ![w] = "apply"]
      /\ cache' = tmp[pid[w]] /\ tmp' = [tmp EXCEPT ![pid[w]] = Absent]
      /\ fd' = [v \in Workers |-> IF fd[v] = "cache" THEN "gone"
                                  ELSE IF fd[v] = "tmp" /\ pid[v] = pid[w] THEN "cache"
                                  ELSE fd[v]]
      /\ pid' = [pid EXCEPT ![w] = None] /\ shared' = shared
  BY DEF StoreRename, Go
<1>2. IsOn(fd')
  BY <1>1 DEF IsOn
<1>3. ASSUME ~shared PROVE FileSound'
  <2>1. FileSound /\ Storing(w)
    BY <1>1, <1>3 DEF FInv, Storing
  <2>2. cache'.is \in {"absent", "whole"}
    BY <1>1, <2>1 DEF FileSound
  <2>3. \A v \in Workers \ {w} : Storing(v) => pid[v] # pid[w]
    BY <2>1, OwnFile
  <2>5. \A v \in Workers \ {w} : Storing(v) => tmp'[pid[v]] = tmp[pid[v]]
    BY <1>1, <2>1, OwnFile
  <2>4. ASSUME NEW v \in Workers \ {w}, stage[v] = "write" PROVE fd'[v] = fd[v]
    <3>1. fd[v] = "tmp" /\ pid[v] # pid[w]
      BY <2>1, <2>3, <2>4 DEF FileSound, Storing
    <3> QED
      BY <1>1, <3>1
  <2>6. LeavesOthers(w, "apply", None)
    BY <1>1, <2>2, <2>4, <2>5 DEF LeavesOthers
  <2> QED
    BY <2>1, <2>6, OthersFiles
<1> QED
  BY <1>1, <1>2, <1>3 DEF FInv

\* `CacheFile::store` writes a file of its own and renames it: whatever fails, and
\* whoever is killed while it writes, the cache is whole as long as processes that
\* store at the same time have different ids.
THEOREM FileIsReplacedWhole == Spec => []FileStaysWhole
<1>1. Init => FInv
  BY DEF Init, FInv, FileSound, IsOn, Absent, Storing
<1>2. IInv /\ FInv /\ [Next]_vars => FInv'
  <2> SUFFICES ASSUME IInv, FInv, [Next]_vars PROVE FInv'
    OBVIOUS
  <2>1. CASE Next
    <3>1. PICK w \in Workers :
             \/ Start(w) \/ Lookup(w) \/ Tune(w) \/ TimedOut(w) \/ Store(w) \/ Apply(w) \/ Killed(w)
      BY <2>1 DEF Next
    <3>2. CASE Trial(w)
      BY <3>2, Before, QuietFile DEF Trial, storeVars, FInv, FileSound, Storing
    <3>3. CASE Start(w) \/ Lookup(w) \/ Probe(w) \/ Finish(w) \/ NoWinner(w) \/ TimedOut(w)
                 \/ StoreRead(w) \/ Apply(w)
      <4>1. \E st \in {"lookup", "up", "apply", "probe", "tune", "read", "open"} :
               stage' = [stage EXCEPT ![w] = st]
        BY <3>3 DEF Start, Lookup, Skip, Hit, Miss, Probe, Finish, NoWinner, TimedOut, StoreRead,
                    Apply, Go
      <4>2. UNCHANGED <<pid, fd, cache, tmp, shared>>
        BY <3>3 DEF Start, Lookup, Skip, Hit, Miss, Probe, Finish, NoWinner, TimedOut, StoreRead,
                    Apply, storeVars
      <4> QED
        BY <4>1, <4>2, QuietFile
    <3>4. CASE StoreFails(w) \/ Killed(w)
      <4>1. StoreDropped(w) /\ \E st \in {"apply", "off"} : stage' = [stage EXCEPT ![w] = st]
        BY <3>4 DEF StoreFails, Killed, Go
      <4> QED
        BY <4>1, DroppedFile
    <3> QED
      BY <3>1, <3>2, <3>3, <3>4, OpenFile, WriteFile, RenameFile DEF Tune, Store
  <2>2. CASE UNCHANGED vars
    BY <2>2 DEF vars, storeVars, FInv, FileSound, IsOn, Storing, Empty
  <2> QED
    BY <2>1, <2>2
<1>3. FInv => FileStaysWhole
  BY DEF FInv, FileSound, FileStaysWhole
<1> QED
  BY <1>1, <1>2, <1>3, Invariance, PTL DEF Spec
=============================================================================
