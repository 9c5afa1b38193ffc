-------------------------- MODULE ChangeFeed_proofs -------------------------
(***************************************************************************)
(* Why waiting SETTLE_SECS is enough: when it exceeds twice the duration   *)
(* of the longest write transaction, no cursor passes a change it did not  *)
(* deliver, for any number of rows, writers and page limits.  And what the *)
(* feed promises even when a transaction outlasts it: nothing handed out   *)
(* twice, no false reset, nothing behind a page that says so.              *)
(***************************************************************************)
EXTENDS ChangeFeed, FiniteSetTheorems, WellFoundedInduction, TLAPS

\* Numbers are taken once: an uncommitted write shares its number with no
\* committed row and no other uncommitted write.
NumbersUnique ==
    /\ \A s \in open, j, k \in Jobs : pending[s][j] # 0 => pending[s][j] # seq[k]
    /\ \A s, t \in open, j, k \in Jobs :
          pending[s][j] # 0 /\ pending[s][j] = pending[t][k] => s = t /\ j = k

\* The heart of it. A row that got a later number than a write still in flight
\* was written by a transaction that overlaps the writer's, so its timestamp
\* is at most one transaction older than the writer's.
LaterIsYoung ==
    \A s \in open, j, k \in Jobs :
        pending[s][j] # 0 /\ seq[k] > pending[s][j] => age[k] <= txnAge[s] + MaxTxn

\* A page lies past the client's cursor.
PageInv ==
    /\ phase = "idle" => page = NoPage
    /\ phase # "idle" => cursor <= page.cursor
    /\ phase # "idle" => \A j \in Jobs : page.rows[j] # 0 =>
          cursor < page.rows[j] /\ page.rows[j] <= page.cursor

\* It delivers all that is committed up to its own cursor.
PageComplete ==
    phase # "idle" => \A j \in Jobs : seq[j] # 0 /\ seq[j] <= page.cursor =>
        \/ page.rows[j] = seq[j]
        \/ page.rows[j] = 0 /\ seq[j] <= cursor

\* A cursor is the number of a row that is still there, or was overwritten by a
\* later change.
CursorInv ==
    /\ \A j \in Jobs : seen[j] <= cursor
    /\ cursor # 0 => \E j \in Jobs : seq[j] >= cursor
    /\ page.cursor # 0 => \E j \in Jobs : seq[j] >= page.cursor

\* The row lock: one writer per row, whose number is later than the committed.
RowInv ==
    \A s \in open, j \in Jobs : pending[s][j] # 0 =>
        /\ seq[j] < pending[s][j]
        /\ \A t \in open : pending[t][j] # 0 => t = s

\* What holds however long transactions last ...
PullInv == TypeOK /\ RowInv /\ PageInv /\ CursorInv /\ NoFalseReset

\* ... and what needs them to end before rows settle.
SettleInv ==
    /\ NumbersUnique /\ LaterIsYoung /\ NoOvertakenWrite /\ NoSkippedChange /\ PageComplete

IInv == PullInv /\ SettleInv

-----------------------------------------------------------------------------
(* The writers.                                                            *)

\* Opening, writing, committing and rolling back transactions, and the passing
\* of time, keep types and row locks; a row's number only grows.
LEMMA LogKeeps ==
  ASSUME LogTypeOK, RowInv, LogNext
  PROVE  /\ LogTypeOK' /\ RowInv'
         /\ lastSeq <= lastSeq'
         /\ \A j \in Jobs : seq[j] <= seq'[j]
<1> DEFINE Kept == /\ LogTypeOK' /\ RowInv'
                   /\ lastSeq <= lastSeq'
                   /\ \A j \in Jobs : seq[j] <= seq'[j]
<1> USE TimesAssumption, MaxSeqAssumption DEF LogTypeOK, NoWrites
<1>1. ASSUME NEW s \in Sessions, Begin(s) PROVE Kept
  <2>1. RowInv'
    BY <1>1 DEF Begin, RowInv
  <2> QED
    BY <1>1, <2>1 DEF Begin
<1>2. ASSUME NEW s \in Sessions, NEW j \in Jobs, Write(s, j) PROVE Kept
  <2>1. RowInv'
    BY <1>2 DEF Write, Locked, RowInv
  <2> QED
    BY <1>2, <2>1 DEF Write
<1>3. ASSUME NEW s \in Sessions, Commit(s) PROVE Kept
  <2>1. LogTypeOK'
    BY <1>3 DEF Commit, End, Capped
  <2>2. \A j \in Jobs : seq[j] <= seq'[j]
    BY <1>3 DEF Commit, End, RowInv
  <2>3. RowInv'
    BY <1>3 DEF Commit, End, RowInv
  <2>4. lastSeq <= lastSeq'
    BY <1>3 DEF Commit, End
  <2> QED
    BY <2>1, <2>2, <2>3, <2>4
<1>4. ASSUME NEW s \in Sessions, Rollback(s) PROVE Kept
  <2>1. RowInv'
    BY <1>4 DEF Rollback, End, RowInv
  <2> QED
    BY <1>4, <2>1 DEF Rollback, End
<1>5. ASSUME Tick PROVE Kept
  <2>1. RowInv'
    BY <1>5 DEF Tick, RowInv
  <2> QED
    BY <1>5, <2>1 DEF Tick, Older
<1> HIDE DEF Kept
<1>6. Kept
  BY <1>1, <1>2, <1>3, <1>4, <1>5 DEF LogNext
<1> QED
  BY <1>6 DEF Kept

\* They keep numbers unique and later rows young.
LEMMA LogTimes ==
  ASSUME LogTypeOK, NumbersUnique, LaterIsYoung, LogNext
  PROVE  NumbersUnique' /\ LaterIsYoung'
<1> DEFINE Kept == NumbersUnique' /\ LaterIsYoung'
<1> USE TimesAssumption, MaxSeqAssumption DEF LogTypeOK, NoWrites
<1>1. ASSUME NEW s \in Sessions, Begin(s) PROVE Kept
  <2>1. NumbersUnique'
    BY <1>1 DEF Begin, NumbersUnique
  <2>2. LaterIsYoung'
    BY <1>1 DEF Begin, LaterIsYoung
  <2> QED
    BY <2>1, <2>2
<1>2. ASSUME NEW s \in Sessions, NEW j \in Jobs, Write(s, j) PROVE Kept
  <2>1. NumbersUnique'
    BY <1>2 DEF Write, NumbersUnique
  <2>2. LaterIsYoung'
    BY <1>2 DEF Write, LaterIsYoung
  <2> QED
    BY <2>1, <2>2
<1>3. ASSUME NEW s \in Sessions, Commit(s) PROVE Kept
  <2>1. NumbersUnique'
    BY <1>3 DEF Commit, End, NumbersUnique
  <2>2. LaterIsYoung'
    <3> SUFFICES ASSUME NEW t \in open', NEW j \in Jobs, NEW k \in Jobs,
                        pending'[t][j] # 0, seq'[k] > pending'[t][j]
                 PROVE  age'[k] <= txnAge'[t] + MaxTxn
      BY DEF LaterIsYoung
    <3>1. t \in open /\ t # s /\ pending'[t] = pending[t] /\ txnAge'[t] = txnAge[t]
      BY <1>3 DEF Commit, End
    <3>2. CASE pending[s][k] # 0
      <4>1. age'[k] = Capped(txnAge[s])
        BY <1>3, <3>2 DEF Commit
      <4> QED
        BY <1>3, <3>1, <4>1 DEF Commit, End, Capped
    <3>3. CASE pending[s][k] = 0
      BY <1>3, <3>1, <3>3 DEF Commit, LaterIsYoung
    <3> QED
      BY <3>2, <3>3
  <2> QED
    BY <2>1, <2>2
<1>4. ASSUME NEW s \in Sessions, Rollback(s) PROVE Kept
  <2>1. NumbersUnique'
    BY <1>4 DEF Rollback, End, NumbersUnique
  <2>2. LaterIsYoung'
    BY <1>4 DEF Rollback, End, LaterIsYoung
  <2> QED
    BY <2>1, <2>2
<1>5. ASSUME Tick PROVE Kept
  <2>1. NumbersUnique'
    BY <1>5 DEF Tick, NumbersUnique
  <2>2. LaterIsYoung'
    BY <1>5 DEF Tick, Older, LaterIsYoung
  <2> QED
    BY <2>1, <2>2
<1> HIDE DEF Kept
<1>6. Kept
  BY <1>1, <1>2, <1>3, <1>4, <1>5 DEF LogNext
<1> QED
  BY <1>6 DEF Kept

\* A number leaves `pending` for `seq` and changes on no other way.
LEMMA LogMoves ==
  ASSUME LogTypeOK, LogNext
  PROVE  /\ lastSeq <= lastSeq' /\ lastSeq' \in Nat
         /\ \A j \in Jobs : \/ seq'[j] = seq[j]
                            \/ \E s \in open : pending[s][j] # 0 /\ seq'[j] = pending[s][j]
         /\ \A s \in open', j \in Jobs : pending'[s][j] # 0 =>
                \/ s \in open /\ pending'[s][j] = pending[s][j]
                \/ pending'[s][j] = lastSeq + 1
<1> USE TimesAssumption, MaxSeqAssumption DEF LogTypeOK, NoWrites
<1>1. ASSUME NEW s \in Sessions, Begin(s) \/ Commit(s) \/ Rollback(s)
      PROVE  /\ lastSeq' = lastSeq
             /\ \A j \in Jobs : \/ seq'[j] = seq[j]
                                \/ s \in open /\ pending[s][j] # 0 /\ seq'[j] = pending[s][j]
             /\ \A t \in open', j \in Jobs : pending'[t][j] # 0 =>
                    t \in open /\ pending'[t][j] = pending[t][j]
  <2>1. CASE Begin(s)
    BY <2>1 DEF Begin
  <2>2. CASE Commit(s)
    BY <2>2 DEF Commit, End
  <2>3. CASE Rollback(s)
    BY <2>3 DEF Rollback, End
  <2> QED
    BY <1>1, <2>1, <2>2, <2>3
<1>2. ASSUME NEW s \in Sessions, NEW j \in Jobs, Write(s, j)
      PROVE  /\ lastSeq' = lastSeq + 1 /\ seq' = seq
             /\ \A t \in open', k \in Jobs : pending'[t][k] # 0 =>
                    \/ t \in open /\ pending'[t][k] = pending[t][k]
                    \/ pending'[t][k] = lastSeq + 1
  BY <1>2 DEF Write
<1>3. ASSUME Tick PROVE lastSeq' = lastSeq /\ seq' = seq /\ open' = open /\ pending' = pending
  BY <1>3 DEF Tick
<1> HIDE DEF LogTypeOK, NoWrites
<1>4. lastSeq \in Nat
  BY DEF LogTypeOK
<1>5. CASE \E s \in Sessions : Begin(s) \/ Commit(s) \/ Rollback(s)
  BY <1>1, <1>4, <1>5
<1>6. CASE \E s \in Sessions, j \in Jobs : Write(s, j)
  BY <1>2, <1>4, <1>6
<1>7. CASE Tick
  BY <1>3, <1>4, <1>7
<1> QED
  BY <1>5, <1>6, <1>7 DEF LogNext

-----------------------------------------------------------------------------
(* The reader.                                                             *)

\* The rows a page delivers have settled, and are all that is committed between
\* the client's cursor and the page's: `settled_changes` cuts at the first
\* young row, and `limit` at a number.
LEMMA PageIsPrefix ==
  ASSUME TypeOK, NEW n \in Nat, NEW last \in Nat, IsNewest(last, cursor, Ready(n))
  PROVE  /\ \A k \in Ready(n) : k \in Jobs /\ seq[k] > cursor /\ age[k] >= Settle
         /\ \A j \in Jobs : cursor < seq[j] /\ seq[j] <= last => j \in Ready(n)
<1> USE TimesAssumption DEF TypeOK, LogTypeOK
<1>1. \A k \in Ready(n) : k \in Jobs /\ seq[k] > cursor /\ age[k] >= Settle
  BY DEF Ready, FirstChanges, ChangedSince
<1>2. ASSUME NEW j \in Jobs, cursor < seq[j], seq[j] <= last PROVE j \in Ready(n)
  <2>1. PICK k \in Ready(n) : last = seq[k]
    BY <1>2 DEF IsNewest
  <2>2. k \in FirstChanges(n) /\ k \in Jobs /\ seq[j] <= seq[k]
    BY <1>2, <2>1 DEF Ready, FirstChanges, ChangedSince
  <2> DEFINE Below(i) == {m \in ChangedSince(cursor) : seq[m] < seq[i]}
  <2>3. Below(j) \subseteq Below(k)
    BY <2>2 DEF ChangedSince
  <2>4. Cardinality(Below(j)) <= Cardinality(Below(k)) /\ Cardinality(Below(j)) \in Nat
    <3>1. IsFiniteSet(Below(k))
      BY JobsAssumption, FS_Subset DEF ChangedSince
    <3> QED
      BY <2>3, <3>1, FS_Subset, FS_CardinalityType
  <2>5. Cardinality(Below(k)) < n /\ Cardinality(Below(k)) \in Nat
    <3>1. IsFiniteSet(Below(k))
      BY JobsAssumption, FS_Subset DEF ChangedSince
    <3> QED
      BY <2>2, <3>1, FS_CardinalityType DEF FirstChanges
  <2>6. j \in FirstChanges(n)
    <3>1. Cardinality(Below(j)) < n
      BY <2>4, <2>5
    <3> QED
      BY <1>2, <3>1 DEF FirstChanges, ChangedSince
  <2>7. \A m \in FirstChanges(n) : seq[m] <= seq[j] => age[m] >= Settle
    BY <2>1, <2>2 DEF Ready, FirstChanges, ChangedSince
  <2> QED
    BY <2>6, <2>7 DEF Ready
<1> QED
  BY <1>1, <1>2

\* The clamped limit is a page size.
LEMMA ClampType == \A limit \in Requests : Clamp(limit) \in Nat
  BY LimitsAssumption DEF Clamp

\* A page read leaves the types right and begins at the client's cursor.
LEMMA ReadPagePull ==
  ASSUME PullInv, NEW limit \in Requests, ReadPage(limit)
  PROVE  PullInv'
<1> DEFINE n == Clamp(limit)
<1>1. PICK last \in 0..lastSeq :
         /\ IsNewest(last, cursor, Ready(n))
         /\ page' = [rows |-> [j \in Jobs |-> IF j \in Ready(n) THEN seq[j] ELSE 0],
                     cursor |-> last,
                     more |-> Ready(n) # FirstChanges(n) \/ Cardinality(Ready(n)) >= n]
  BY DEF ReadPage
<1> HIDE DEF n
<1>2. TypeOK /\ last \in Nat
  BY <1>1 DEF PullInv, TypeOK, LogTypeOK
<1>3. \A k \in Ready(n) : k \in Jobs /\ seq[k] > cursor
  BY DEF Ready, FirstChanges, ChangedSince
<1>4. page'.cursor = last /\ \A j \in Jobs : page'.rows[j] = IF j \in Ready(n) THEN seq[j] ELSE 0
  BY <1>1
<1>5. phase = "idle" /\ phase' = "page" /\ UNCHANGED <<logVars, cursor, seen, latest>>
  BY DEF ReadPage
<1>6. /\ cursor <= last /\ (last = cursor \/ \E k \in Ready(n) : last = seq[k])
      /\ \A k \in Ready(n) : seq[k] <= last
  BY <1>1 DEF IsNewest
<1> USE DEF logVars
<1>7. TypeOK'
  <2>1. page' \in [rows : [Jobs -> 0..lastSeq], cursor : 0..lastSeq, more : BOOLEAN]
    <3> DEFINE rows == [j \in Jobs |-> IF j \in Ready(n) THEN seq[j] ELSE 0]
               more == Ready(n) # FirstChanges(n) \/ Cardinality(Ready(n)) >= n
    <3>1. rows \in [Jobs -> 0..lastSeq]
      BY <1>2 DEF TypeOK, LogTypeOK
    <3>2. more \in BOOLEAN
      OBVIOUS
    <3>3. page' = [rows |-> rows, cursor |-> last, more |-> more]
      BY <1>1
    <3> HIDE DEF rows, more
    <3> QED
      BY <1>1, <3>1, <3>2, <3>3
  <2> QED
    BY <1>2, <1>5, <2>1 DEF TypeOK, LogTypeOK
<1>8. RowInv'
  BY <1>5 DEF PullInv, RowInv
<1>9. PageInv'
  BY <1>2, <1>3, <1>4, <1>5, <1>6 DEF PageInv, TypeOK, LogTypeOK
<1>10. CursorInv'
  BY <1>2, <1>3, <1>4, <1>5, <1>6 DEF PullInv, CursorInv, TypeOK, LogTypeOK
<1>11. NoFalseReset'
  BY <1>5 DEF NoFalseReset
<1> QED
  BY <1>7, <1>8, <1>9, <1>10, <1>11 DEF PullInv

\* It moves no cursor past an open transaction, given that rows settle later than
\* the writes around them end.
LEMMA ReadPageSettle ==
  ASSUME 2 * MaxTxn < Settle, IInv, NEW limit \in Requests, ReadPage(limit)
  PROVE  SettleInv'
<1> DEFINE n == Clamp(limit)
<1>0. n \in Nat
  BY ClampType
<1>1. PICK last \in 0..lastSeq :
         /\ IsNewest(last, cursor, Ready(n))
         /\ page' = [rows |-> [j \in Jobs |-> IF j \in Ready(n) THEN seq[j] ELSE 0],
                     cursor |-> last,
                     more |-> Ready(n) # FirstChanges(n) \/ Cardinality(Ready(n)) >= n]
  BY DEF ReadPage
<1> HIDE DEF n
<1>2. TypeOK /\ last \in Nat
  BY <1>1 DEF IInv, PullInv, TypeOK, LogTypeOK
<1>3. /\ \A k \in Ready(n) : k \in Jobs /\ seq[k] > cursor /\ age[k] >= Settle
      /\ \A j \in Jobs : cursor < seq[j] /\ seq[j] <= last => j \in Ready(n)
  BY <1>0, <1>1, <1>2, PageIsPrefix
<1>4. page'.cursor = last /\ \A j \in Jobs : page'.rows[j] = IF j \in Ready(n) THEN seq[j] ELSE 0
  BY <1>1
<1>5. phase = "idle" /\ phase' = "page" /\ UNCHANGED <<logVars, cursor, seen, latest>>
  BY DEF ReadPage
<1>6. last = cursor \/ \E k \in Ready(n) : last = seq[k]
  BY <1>1 DEF IsNewest
<1> USE TimesAssumption DEF logVars
<1>7. NumbersUnique' /\ LaterIsYoung' /\ NoSkippedChange'
  BY <1>5 DEF IInv, SettleInv, NumbersUnique, LaterIsYoung, NoSkippedChange
<1>8. NoOvertakenWrite'
  <2> SUFFICES ASSUME NEW s \in open, NEW j \in Jobs, pending[s][j] # 0
               PROVE  pending[s][j] > cursor /\ pending[s][j] > last
    BY <1>4, <1>5 DEF NoOvertakenWrite
  <2>1. pending[s][j] > cursor
    BY DEF IInv, SettleInv, NoOvertakenWrite
  <2>2. ASSUME NEW k \in Ready(n), last = seq[k] PROVE pending[s][j] > last
    <3>1. k \in Jobs /\ age[k] >= Settle
      BY <1>3
    <3>2. txnAge[s] \in 0..MaxTxn /\ seq[k] \in Nat /\ pending[s][j] \in Nat /\ age[k] \in Nat
      BY <1>2, <3>1 DEF TypeOK, LogTypeOK
    <3>3. ~(seq[k] > pending[s][j])
      BY <3>1, <3>2 DEF IInv, SettleInv, LaterIsYoung
    <3>4. pending[s][j] # seq[k]
      BY <3>1 DEF IInv, SettleInv, NumbersUnique
    <3> QED
      BY <2>2, <3>2, <3>3, <3>4
  <2> QED
    BY <1>6, <2>1, <2>2
<1>9. PageComplete'
  BY <1>2, <1>3, <1>4, <1>5 DEF PageComplete, TypeOK, LogTypeOK
<1> QED
  BY <1>7, <1>8, <1>9 DEF SettleInv

\* The handler's second statement sees every number the first one saw.
LEMMA ReadLatestPull == PullInv /\ ReadLatest => PullInv'
<1> SUFFICES ASSUME PullInv, ReadLatest PROVE PullInv'
  OBVIOUS
<1> USE DEF ReadLatest, logVars
<1>1. TypeOK' /\ RowInv'
  BY DEF PullInv, TypeOK, LogTypeOK, RowInv
<1>2. PageInv' /\ CursorInv'
  BY DEF PullInv, PageInv, CursorInv
<1>3. NoFalseReset'
  BY DEF PullInv, TypeOK, LogTypeOK, PageInv, CursorInv, IsNewest, NoFalseReset
<1> QED
  BY <1>1, <1>2, <1>3 DEF PullInv

\* It moves no cursor.
LEMMA ReadLatestSettle == SettleInv /\ ReadLatest => SettleInv'
  BY DEF ReadLatest, logVars, SettleInv, NumbersUnique, LaterIsYoung, NoOvertakenWrite,
         NoSkippedChange, PageComplete

\* The client's new cursor is the page's.
LEMMA ReceivePull == PullInv /\ Receive => PullInv'
<1> SUFFICES ASSUME PullInv, Receive PROVE PullInv'
  OBVIOUS
<1> USE DEF Receive, TypeOK, LogTypeOK, NoPage, logVars
<1>0. page'.cursor = 0
  OBVIOUS
<1>1. TypeOK'
  BY DEF PullInv
<1>2. RowInv' /\ NoFalseReset'
  BY DEF PullInv, RowInv, NoFalseReset
<1>3. PageInv'
  BY DEF PageInv
<1>4. CursorInv'
  BY <1>0 DEF PullInv, CursorInv, PageInv
<1> QED
  BY <1>1, <1>2, <1>3, <1>4 DEF PullInv

\* It is one it has everything up to.
LEMMA ReceiveSettle == IInv /\ Receive => SettleInv'
<1> SUFFICES ASSUME IInv, Receive PROVE SettleInv'
  OBVIOUS
<1> USE DEF Receive, TypeOK, LogTypeOK, NoPage, logVars
<1>0. page'.cursor = 0
  OBVIOUS
<1>1. NumbersUnique' /\ LaterIsYoung'
  BY DEF IInv, SettleInv, NumbersUnique, LaterIsYoung
<1>2. NoOvertakenWrite'
  BY <1>0 DEF IInv, PullInv, SettleInv, NoOvertakenWrite
<1>3. NoSkippedChange'
  BY DEF IInv, PullInv, SettleInv, NoSkippedChange, PageInv, PageComplete
<1>4. PageComplete'
  BY DEF PageComplete
<1> QED
  BY <1>1, <1>2, <1>3, <1>4 DEF SettleInv

\* An answer that does not arrive leaves the client where it was.
LEMMA LoseReplyPull == PullInv /\ LoseReply => PullInv'
<1> SUFFICES ASSUME PullInv, LoseReply PROVE PullInv'
  OBVIOUS
<1> USE DEF LoseReply, TypeOK, LogTypeOK, NoPage, logVars
<1>1. TypeOK' /\ page'.cursor = 0
  BY DEF PullInv
<1> QED
  BY <1>1 DEF PullInv, RowInv, PageInv, CursorInv, NoFalseReset

\* And what it has.
LEMMA LoseReplySettle == IInv /\ LoseReply => SettleInv'
<1> SUFFICES ASSUME IInv, LoseReply PROVE SettleInv'
  OBVIOUS
<1> USE DEF LoseReply, TypeOK, LogTypeOK, NoPage, logVars
<1>1. page'.cursor = 0
  OBVIOUS
<1> QED
  BY <1>1 DEF IInv, PullInv, SettleInv, NumbersUnique, LaterIsYoung, NoOvertakenWrite,
              NoSkippedChange, PageComplete

-----------------------------------------------------------------------------
(* Together.                                                               *)

\* A writer's step takes no number back.
LEMMA LogPull == PullInv /\ LogNext /\ UNCHANGED feedVars => PullInv'
<1> SUFFICES ASSUME PullInv, LogNext, UNCHANGED feedVars PROVE PullInv'
  OBVIOUS
<1> USE DEF feedVars
<1>1. /\ LogTypeOK' /\ RowInv'
      /\ lastSeq <= lastSeq'
      /\ \A j \in Jobs : seq[j] <= seq'[j]
  <2>1. LogTypeOK /\ RowInv
    BY DEF PullInv, TypeOK
  <2> QED
    BY <2>1, LogKeeps
<1>2. TypeOK
  BY DEF PullInv
<1>3. TypeOK'
  <2>1. 0..lastSeq \subseteq 0..lastSeq'
    BY <1>1, <1>2 DEF TypeOK, LogTypeOK
  <2>2. page.rows \in [Jobs -> 0..lastSeq'] /\ page.cursor \in 0..lastSeq'
    BY <1>2, <2>1 DEF TypeOK
  <2>3. page' \in [rows : [Jobs -> 0..lastSeq'], cursor : 0..lastSeq', more : BOOLEAN]
    BY <1>2, <2>2 DEF TypeOK
  <2> QED
    BY <1>1, <1>2, <2>1, <2>3 DEF TypeOK
<1>4. /\ cursor \in Nat /\ page.cursor \in Nat
      /\ \A j \in Jobs : seq[j] \in Nat /\ seq'[j] \in Nat
  BY <1>2, <1>3 DEF TypeOK, LogTypeOK
<1>5. PageInv'
  BY DEF PullInv, PageInv, NoPage
<1>6. CursorInv'
  BY <1>1, <1>4 DEF PullInv, CursorInv
<1>7. NoFalseReset'
  BY DEF PullInv, NoFalseReset
<1> QED
  BY <1>1, <1>3, <1>5, <1>6, <1>7 DEF PullInv

\* It makes no number visible below a cursor.
LEMMA LogSettle == IInv /\ LogNext /\ UNCHANGED feedVars => SettleInv'
<1> SUFFICES ASSUME IInv, LogNext, UNCHANGED feedVars PROVE SettleInv'
  OBVIOUS
<1> USE DEF feedVars
<1>1. TypeOK /\ LogTypeOK /\ SettleInv
  BY DEF IInv, PullInv, TypeOK
<1>2. NumbersUnique' /\ LaterIsYoung'
  BY <1>1, LogTimes DEF SettleInv
<1>3. /\ lastSeq <= lastSeq' /\ lastSeq' \in Nat
      /\ \A j \in Jobs : \/ seq'[j] = seq[j]
                        \/ \E s \in open : pending[s][j] # 0 /\ seq'[j] = pending[s][j]
      /\ \A s \in open', j \in Jobs : pending'[s][j] # 0 =>
             \/ s \in open /\ pending'[s][j] = pending[s][j]
             \/ pending'[s][j] = lastSeq + 1
  BY <1>1, LogMoves
<1>4. \A j \in Jobs : seq'[j] = seq[j] \/ (seq'[j] > cursor /\ seq'[j] > page.cursor)
  BY <1>1, <1>3 DEF SettleInv, NoOvertakenWrite
<1>5. /\ cursor \in Nat /\ page.cursor \in Nat /\ lastSeq \in Nat
      /\ cursor <= lastSeq /\ page.cursor <= lastSeq
      /\ \A j \in Jobs : seq[j] \in Nat
      /\ \A s \in open, j \in Jobs : pending[s][j] \in Nat
  BY <1>1 DEF TypeOK, LogTypeOK
<1>6. NoOvertakenWrite'
  BY <1>1, <1>3, <1>5 DEF SettleInv, NoOvertakenWrite
<1>7. \A j \in Jobs : seq'[j] \in Nat
  BY <1>3, <1>5
<1>8. NoSkippedChange'
  BY <1>1, <1>4, <1>5, <1>7 DEF SettleInv, NoSkippedChange
<1>9. PageComplete'
  BY <1>1, <1>4, <1>5, <1>7 DEF SettleInv, PageComplete
<1> QED
  BY <1>2, <1>6, <1>8, <1>9 DEF SettleInv

\* Before the first write there is nothing to skip.
LEMMA InitIInv == Init => IInv
<1> SUFFICES ASSUME Init PROVE IInv
  OBVIOUS
<1> USE TimesAssumption, MaxSeqAssumption DEF Init, LogInit, NoPage, NoWrites
<1>1. TypeOK
  BY DEF TypeOK, LogTypeOK
<1>2. PullInv
  BY <1>1 DEF PullInv, RowInv, PageInv, CursorInv, NoFalseReset
<1>3. SettleInv
  BY DEF SettleInv, NumbersUnique, LaterIsYoung, NoOvertakenWrite, NoSkippedChange, PageComplete
<1> QED
  BY <1>2, <1>3 DEF IInv

\* However long transactions last, every interleaving of writers and reader keeps
\* types, locks, and cursors that are numbers of rows.
THEOREM PullInvariance == Spec => []PullInv
<1>1. PullInv /\ [Next]_vars => PullInv'
  <2> SUFFICES ASSUME PullInv, [Next]_vars PROVE PullInv'
    OBVIOUS
  <2>1. CASE UNCHANGED vars
    BY <2>1 DEF vars, logVars, feedVars, PullInv, TypeOK, LogTypeOK, RowInv, PageInv, CursorInv,
                NoFalseReset
  <2>2. CASE Poll
    BY <2>2, ReadPagePull DEF Poll
  <2> QED
    BY <2>1, <2>2, LogPull, ReadLatestPull, ReceivePull, LoseReplyPull DEF Next
<1>2. Init => PullInv
  BY InitIInv DEF IInv
<1> QED
  BY <1>1, <1>2, PTL DEF Spec

\* The cursor has everything behind it, if a row settles later than two of the
\* longest transactions take.
THEOREM Invariance ==
  ASSUME 2 * MaxTxn < Settle
  PROVE  Spec => []IInv
<1>1. PullInv /\ PullInv' /\ SettleInv /\ [Next]_vars => SettleInv'
  <2> SUFFICES ASSUME IInv, [Next]_vars PROVE SettleInv'
    BY DEF IInv
  <2>1. CASE UNCHANGED vars
    BY <2>1 DEF vars, logVars, feedVars, IInv, SettleInv, NumbersUnique, LaterIsYoung,
                NoOvertakenWrite, NoSkippedChange, PageComplete
  <2>2. CASE Poll
    BY <2>2, ReadPageSettle DEF Poll
  <2>3. CASE ReadLatest
    BY <2>3, ReadLatestSettle DEF IInv
  <2> QED
    BY <2>1, <2>2, <2>3, LogSettle, ReceiveSettle, LoseReplySettle DEF Next
<1>2. Init => SettleInv
  BY InitIInv DEF IInv
<1>3. PullInv /\ SettleInv => IInv
  BY DEF IInv
<1> QED
  BY <1>1, <1>2, <1>3, PullInvariance, PTL DEF Spec

\* Rows, transactions, cursor and page have their types; clocks stay in bounds.
THEOREM TypeCorrect == Spec => []TypeOK
<1>1. PullInv => TypeOK
  BY DEF PullInv
<1> QED
  BY PullInvariance, <1>1, PTL

\* `changes_since` never moves a client's cursor past a committed change it has
\* not handed out.
THEOREM NothingSkipped ==
  ASSUME 2 * MaxTxn < Settle
  PROVE  Spec => []NoSkippedChange
<1>1. IInv => NoSkippedChange
  BY DEF IInv, SettleInv
<1> QED
  BY Invariance, <1>1, PTL

\* Nor past a write still committing.
THEOREM NothingOvertaken ==
  ASSUME 2 * MaxTxn < Settle
  PROVE  Spec => []NoOvertakenWrite
<1>1. IInv => NoOvertakenWrite
  BY DEF IInv, SettleInv
<1> QED
  BY Invariance, <1>1, PTL

\* `latest` is never below the cursor of the answer that carries it.
THEOREM ResetsAreReal == Spec => []NoFalseReset
<1>1. PullInv => NoFalseReset
  BY DEF PullInv
<1> QED
  BY PullInvariance, <1>1, PTL

\* No page hands out a change a second time.
THEOREM HandedOnce == Spec => NeverHandedTwice
<1> DEFINE Fresh == phase = "reply" /\ phase' = "idle" /\ cursor' # cursor =>
                      \A j \in Jobs : page.rows[j] # 0 => page.rows[j] > seen[j]
<1>1. PullInv /\ [Next]_vars => Fresh
  BY DEF PullInv, TypeOK, LogTypeOK, PageInv, CursorInv
<1>2. [][Fresh]_vars => NeverHandedTwice
  BY DEF NeverHandedTwice
<1> QED
  BY PullInvariance, <1>1, <1>2, PTL DEF Spec

-----------------------------------------------------------------------------
(* Caught up.                                                              *)

\* Of natural numbers there is a least.
LEMMA Least ==
  ASSUME NEW T, T \subseteq Nat, T # {}
  PROVE  \E m \in T : \A n \in T : m <= n
<1> DEFINE R == OpToRel(<, Nat)
<1>1. IsWellFoundedOn(R, Nat)
  BY NatLessThanWellFounded
<1>2. \A i, j \in Nat : i < j => <<i, j>> \in R
  BY DEF OpToRel
<1> HIDE DEF R
<1>3. PICK m \in T : \A n \in T : ~(<<n, m>> \in R)
  BY <1>1, WFMin
<1>4. ASSUME NEW n \in T PROVE m <= n
  <2>1. n \in Nat /\ m \in Nat
    OBVIOUS
  <2>2. ~(n < m)
    BY <1>2, <1>3, <2>1
  <2> QED
    BY <2>1, <2>2
<1> QED
  BY <1>4

\* Of rows there is one with the least number.
LEMMA LeastRow ==
  ASSUME LogTypeOK, NEW R, R \subseteq Jobs, R # {}
  PROVE  \E j \in R : \A k \in R : seq[j] <= seq[k]
<1> DEFINE T == {seq[j] : j \in R}
<1>1. T \subseteq Nat /\ T # {}
  BY DEF LogTypeOK
<1>2. \A j \in R : seq[j] \in T
  OBVIOUS
<1>3. \A m \in T : \E j \in R : m = seq[j]
  OBVIOUS
<1> HIDE DEF T
<1>4. PICK m \in T : \A n \in T : m <= n
  BY <1>1, Least
<1> QED
  BY <1>2, <1>3, <1>4

\* A page that is not full holds all there is: of the rows left out, the first
\* has fewer than n before it.
LEMMA ShortPage ==
  ASSUME LogTypeOK, NEW n \in Nat, Cardinality(FirstChanges(n)) < n
  PROVE  FirstChanges(n) = ChangedSince(cursor)
<1> DEFINE Below(j) == {k \in ChangedSince(cursor) : seq[k] < seq[j]}
           Left == ChangedSince(cursor) \ FirstChanges(n)
<1>1. IsFiniteSet(FirstChanges(n)) /\ FirstChanges(n) \subseteq ChangedSince(cursor)
  <2>1. FirstChanges(n) \subseteq ChangedSince(cursor) /\ FirstChanges(n) \subseteq Jobs
    BY DEF FirstChanges, ChangedSince
  <2> QED
    BY <2>1, JobsAssumption, FS_Subset
<1>2. SUFFICES ASSUME Left # {} PROVE FALSE
  BY <1>1
<1>3. PICK j \in Left : \A k \in Left : seq[j] <= seq[k]
  <2>1. Left \subseteq Jobs
    BY DEF ChangedSince
  <2> HIDE DEF Left
  <2> QED
    BY <1>2, <2>1, LeastRow
<1>4. Below(j) \subseteq FirstChanges(n)
  BY <1>3 DEF ChangedSince, LogTypeOK
<1>5. Cardinality(Below(j)) <= Cardinality(FirstChanges(n))
  BY <1>1, <1>4, FS_Subset
<1>6. Cardinality(Below(j)) \in Nat /\ Cardinality(FirstChanges(n)) \in Nat
  BY <1>1, <1>4, FS_Subset, FS_CardinalityType
<1>7. Cardinality(Below(j)) < n
  BY <1>5, <1>6
<1>8. j \in FirstChanges(n)
  BY <1>3, <1>7 DEF FirstChanges
<1> QED
  BY <1>3, <1>8

\* An answer that does not say `more` is the end of what is committed: the page
\* is short, and no young row cut it.
LEMMA ReadPageEnds ==
  ASSUME PullInv, NEW limit \in Requests, ReadPage(limit), ~page'.more
  PROVE  \A j \in Jobs : seq[j] <= page'.cursor
<1> DEFINE n == Clamp(limit)
<1>0. n \in Nat
  BY ClampType
<1>1. PICK last \in 0..lastSeq :
         /\ IsNewest(last, cursor, Ready(n))
         /\ page' = [rows |-> [j \in Jobs |-> IF j \in Ready(n) THEN seq[j] ELSE 0],
                     cursor |-> last,
                     more |-> Ready(n) # FirstChanges(n) \/ Cardinality(Ready(n)) >= n]
  BY DEF ReadPage
<1> HIDE DEF n
<1>2. page'.cursor = last /\ page'.more = (Ready(n) # FirstChanges(n) \/ Cardinality(Ready(n)) >= n)
  BY <1>1
<1>3. Ready(n) = FirstChanges(n) /\ ~(Cardinality(FirstChanges(n)) >= n)
  BY <1>2
<1>4. Cardinality(FirstChanges(n)) \in Nat
  <2>1. FirstChanges(n) \subseteq Jobs
    BY DEF FirstChanges, ChangedSince
  <2> QED
    BY <2>1, JobsAssumption, FS_Subset, FS_CardinalityType
<1>5. Cardinality(FirstChanges(n)) < n
  BY <1>0, <1>3, <1>4
<1>6. LogTypeOK /\ cursor \in Nat /\ last \in Nat
  BY <1>1 DEF PullInv, TypeOK, LogTypeOK
<1>7. Ready(n) = ChangedSince(cursor)
  BY <1>0, <1>3, <1>5, <1>6, ShortPage
<1>8. cursor <= last /\ \A k \in ChangedSince(cursor) : seq[k] <= last
  BY <1>1, <1>7 DEF IsNewest
<1> QED
  BY <1>2, <1>6, <1>8 DEF ChangedSince, LogTypeOK

\* A client that slows down when `more` is false has left nothing behind that was
\* committed when its page was read.
THEOREM CaughtUp == Spec => NoMoreMeansCaughtUp
<1> DEFINE Ends == phase = "idle" /\ phase' = "page" /\ ~page'.more =>
                     \A j \in Jobs : seq[j] <= page'.cursor
<1>1. PullInv /\ [Next]_vars => Ends
  <2> SUFFICES ASSUME PullInv, [Next]_vars, phase = "idle", phase' = "page", ~page'.more
               PROVE  \A j \in Jobs : seq[j] <= page'.cursor
    OBVIOUS
  <2>1. Poll
    BY DEF Next, ReadLatest, Receive, LoseReply, vars, feedVars
  <2> QED
    BY <2>1, ReadPageEnds DEF Poll
<1>2. [][Ends]_vars => NoMoreMeansCaughtUp
  BY DEF NoMoreMeansCaughtUp
<1> QED
  BY PullInvariance, <1>1, <1>2, PTL DEF Spec

=============================================================================
