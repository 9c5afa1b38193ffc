-------------------------- MODULE ChangeStream_proofs ------------------------
(***************************************************************************)
(* The tail of the SSE feed repeats nothing, for any number of rows,       *)
(* writers and changes.  It may pass changes over, as ChangeStream_missed  *)
(* shows: here is that it does so in two ways only.                        *)
(***************************************************************************)
EXTENDS ChangeStream, TLAPS

\* The row lock: one writer per row, whose number is later than the committed.
\* A number is handed out once.
RowInv ==
    \A s \in open, j \in Jobs : pending[s][j] # 0 =>
        /\ seq[j] < pending[s][j]
        /\ \A t \in open : pending[t][j] # 0 => t = s
        /\ \A k \in Jobs : seq[k] # pending[s][j]
        /\ \A t \in open, k \in Jobs : pending[t][k] = pending[s][j] => t = s /\ k = j

\* Between the snapshot and the cursor rows only move on.
SnapshotInv == stage = "cursor" /\ ~failed => \A j \in Jobs : emitted[j] <= seq[j]

IInv == TypeOK /\ RowInv /\ SnapshotInv /\ NothingRepeated

-----------------------------------------------------------------------------
\* What the writers do: types and row locks are kept, numbers only grow.
LEMMA LogStep ==
  ASSUME LogTypeOK, RowInv, LogNext
  PROVE  /\ LogTypeOK' /\ RowInv'
         /\ lastSeq <= lastSeq'
         /\ \A j \in Jobs : seq[j] <= seq'[j]
<1> DEFINE Goal == /\ LogTypeOK' /\ RowInv'
                   /\ lastSeq <= lastSeq'
                   /\ \A j \in Jobs : seq[j] <= seq'[j]
<1> USE TimesAssumption, MaxSeqAssumption DEF LogTypeOK, RowInv, NoWrites
<1>1. ASSUME NEW s \in Sessions, Begin(s) PROVE Goal
  BY <1>1 DEF Begin
<1>2. ASSUME NEW s \in Sessions, NEW j \in Jobs, Write(s, j) PROVE Goal
  BY <1>2 DEF Write, Locked
<1>3. ASSUME NEW s \in Sessions, Commit(s) PROVE Goal
  <2>1. LogTypeOK'
    BY <1>3 DEF Commit, End, Capped
  <2>2. \A j \in Jobs : seq[j] <= seq'[j]
    BY <1>3 DEF Commit, End
  <2>3. RowInv'
    BY <1>3 DEF Commit, End
  <2> QED
    BY <1>3, <2>1, <2>2, <2>3 DEF Commit, End
<1>4. ASSUME NEW s \in Sessions, Rollback(s) PROVE Goal
  BY <1>4 DEF Rollback, End
<1>5. ASSUME Tick PROVE Goal
  BY <1>5 DEF Tick, Older
<1> HIDE DEF Goal
<1>6. Goal
  BY <1>1, <1>2, <1>3, <1>4, <1>5 DEF LogNext
<1> QED
  BY <1>6 DEF Goal

LEMMA InitInv == Init => IInv
<1> SUFFICES ASSUME Init PROVE IInv
  OBVIOUS
<1> USE TimesAssumption, MaxSeqAssumption DEF Init, LogInit
<1>1. LogTypeOK
  BY DEF LogTypeOK, NoWrites
<1>2. cursor \in 0..lastSeq /\ emitted \in [Jobs -> 0..lastSeq]
  OBVIOUS
<1>3. TypeOK
  BY <1>1, <1>2 DEF TypeOK
<1> QED
  BY <1>3 DEF IInv, RowInv, SnapshotInv, NothingRepeated

LEMMA NextInv == IInv /\ [Next]_vars => IInv'
<1> SUFFICES ASSUME IInv, [Next]_vars PROVE IInv'
  OBVIOUS
<1> USE MaxSeqAssumption DEF IInv, TypeOK, SnapshotInv, NothingRepeated
<1>1. ASSUME WritersNext PROVE IInv'
  <2>0. LogNext /\ UNCHANGED streamVars /\ exposed' \in SUBSET Jobs
    BY <1>1 DEF WritersNext
  <2>1. LogTypeOK' /\ RowInv' /\ lastSeq <= lastSeq' /\ \A j \in Jobs : seq[j] <= seq'[j]
    BY <2>0, LogStep
  <2>2. lastSeq \in Nat /\ lastSeq' \in Nat /\ \A j \in Jobs : seq[j] \in Nat /\ seq'[j] \in Nat
    BY <2>1 DEF LogTypeOK
  <2>3. TypeOK'
    BY <2>0, <2>1, <2>2 DEF streamVars
  <2>4. SnapshotInv'
    BY <2>0, <2>1, <2>2 DEF streamVars
  <2> QED
    BY <2>0, <2>1, <2>3, <2>4 DEF streamVars
<1>2. ASSUME UNCHANGED logVars PROVE LogTypeOK' /\ RowInv'
  BY <1>2 DEF logVars, LogTypeOK, RowInv
<1>3. CASE Snapshot
  BY <1>2, <1>3 DEF Snapshot, logVars, LogTypeOK
<1>4. CASE SnapshotFails
  BY <1>2, <1>4 DEF SnapshotFails, logVars, LogTypeOK
<1>5. CASE ReadCursor
  BY <1>2, <1>5 DEF ReadCursor, IsNewest, logVars, LogTypeOK
<1>6. CASE ReadCursorFails
  BY <1>2, <1>6 DEF ReadCursorFails, logVars, LogTypeOK
<1>7. CASE Tail
  BY <1>2, <1>7 DEF Tail, IsNewest, ChangedSince, logVars, LogTypeOK
<1>8. CASE UNCHANGED vars
  BY <1>2, <1>8 DEF vars, streamVars, logVars
<1> QED
  BY <1>1, <1>3, <1>4, <1>5, <1>6, <1>7, <1>8 DEF Next, StreamNext

\* The inductive invariant of writers and stream.
THEOREM Invariance == Spec => []IInv
  BY InitInv, NextInv, PTL DEF Spec

\* Rows, transactions, cursor and what was emitted have their types throughout.
THEOREM TypeCorrect == Spec => []TypeOK
<1>1. IInv => TypeOK
  BY DEF IInv
<1> QED
  BY <1>1, Invariance, PTL

\* All the client was sent lies at or below the cursor the tail goes on from
\* (`stream`, its third statement), so no change is sent twice.
THEOREM TailRepeatsNothing == Spec => []NothingRepeated
<1>1. IInv => NothingRepeated
  BY DEF IInv
<1> QED
  BY <1>1, Invariance, PTL

-----------------------------------------------------------------------------
(* What the stream may pass over.                                          *)

\* The snapshot is the table as it is when the cursor is read, but for what was
\* committed since, and the cursor is the number of a row, or was overtaken by a
\* later one.
GapInv ==
    /\ stage = "snapshot" => cursor = 0
    /\ cursor # 0 => \E j \in Jobs : seq[j] >= cursor
    /\ stage = "cursor" /\ ~failed => \A j \in Jobs : emitted[j] = seq[j] \/ j \in exposed
    /\ PassesOnlyExposed

\* A commit makes a number visible that lies past the cursor, or that a later
\* number was committed before.
LEMMA CommitsPastCursor ==
  ASSUME IInv, GapInv, LogNext, NEW j \in Jobs, seq'[j] # seq[j]
  PROVE  seq'[j] > cursor \/ \E k \in Jobs : seq[k] > seq'[j]
<1> USE DEF IInv, TypeOK, LogTypeOK
<1>1. PICK s \in Sessions : Commit(s) /\ s \in open /\ pending[s][j] # 0 /\ seq'[j] = pending[s][j]
  BY DEF LogNext, Begin, Write, Commit, Rollback, End, Tick
<1>2. seq'[j] \in Nat /\ seq'[j] # 0 /\ cursor \in Nat
  BY <1>1, MaxSeqAssumption
<1>3. CASE cursor = 0
  BY <1>2, <1>3
<1>4. CASE cursor # 0
  <2>1. PICK k \in Jobs : seq[k] >= cursor /\ seq[k] \in Nat
    BY <1>4, MaxSeqAssumption DEF GapInv
  <2>2. seq[k] # seq'[j]
    BY <1>1 DEF RowInv
  <2>3. seq'[j] > cursor \/ seq[k] > seq'[j]
    BY ONLY <1>2, <2>1, <2>2
  <2> QED
    BY <2>1, <2>3
<1> QED
  BY <1>3, <1>4

\* Each step keeps the snapshot current and the cursor's back free, but for the
\* rows a commit exposes.
LEMMA GapStep == IInv /\ IInv' /\ GapInv /\ [Next]_vars => GapInv'
<1> SUFFICES ASSUME IInv, IInv', GapInv, [Next]_vars PROVE GapInv'
  OBVIOUS
<1> USE DEF GapInv, PassesOnlyExposed
<1>1. /\ cursor \in Nat /\ cursor' \in Nat
      /\ \A j \in Jobs : seq[j] \in Nat /\ seq'[j] \in Nat
  BY MaxSeqAssumption DEF IInv, TypeOK, LogTypeOK
<1>2. CASE WritersNext
  <2>0. LogNext /\ UNCHANGED streamVars
    BY <1>2 DEF WritersNext
  <2>1. \A j \in Jobs : seq'[j] # seq[j] =>
           /\ stage = "cursor" => j \in exposed'
           /\ seq'[j] > cursor \/ j \in exposed'
    BY <1>2, <2>0, CommitsPastCursor DEF WritersNext
  <2>2. \A j \in Jobs : seq'[j] = seq[j] => (j \in exposed' <=> j \in exposed)
    BY <1>2 DEF WritersNext
  <2>3. \A j \in Jobs : seq[j] <= seq'[j]
    BY <2>0, LogStep DEF IInv, TypeOK
  <2>4. cursor' # 0 => \E j \in Jobs : seq'[j] >= cursor'
    BY <1>1, <2>0, <2>3 DEF streamVars
  <2>5. stage' = "cursor" /\ ~failed' => \A j \in Jobs : emitted'[j] = seq'[j] \/ j \in exposed'
    BY <2>0, <2>1, <2>2 DEF streamVars
  <2>6. PassesOnlyExposed'
    BY <1>1, <2>0, <2>1, <2>2 DEF streamVars
  <2> QED
    BY <2>0, <2>4, <2>5, <2>6 DEF streamVars
<1>3. CASE Snapshot
  BY <1>3 DEF Snapshot, logVars
<1>4. CASE SnapshotFails
  BY <1>4 DEF SnapshotFails, logVars
<1>5. CASE ReadCursor
  BY <1>1, <1>5 DEF ReadCursor, IsNewest, logVars
<1>6. CASE ReadCursorFails
  BY <1>6 DEF ReadCursorFails, logVars
<1>7. CASE Tail
  BY <1>1, <1>7 DEF Tail, IsNewest, ChangedSince, logVars
<1>8. CASE UNCHANGED vars
  BY <1>8 DEF vars, streamVars, logVars
<1> QED
  BY <1>2, <1>3, <1>4, <1>5, <1>6, <1>7, <1>8 DEF Next, StreamNext

\* The stream passes over a row's newest change in two ways only: it was committed
\* between the stream's first two statements (`stream`, its snapshot and its
\* cursor), or after a write with a later number.
THEOREM PassesInTwoWays == Spec => []PassesOnlyExposed
<1>1. Init => GapInv
  BY DEF Init, LogInit, GapInv, PassesOnlyExposed
<1>2. GapInv => PassesOnlyExposed
  BY DEF GapInv
<1> QED
  BY <1>1, <1>2, GapStep, Invariance, PTL DEF Spec
=============================================================================
