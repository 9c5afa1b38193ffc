------------------------------ MODULE ChangeLog -----------------------------
(***************************************************************************)
(* The writers' side of the change feeds: transactions on the `jobs`       *)
(* table, whose trigger stamps every written row with the next number of a *)
(* sequence and with the start time of the transaction.  The number is     *)
(* taken at the write and seen at the commit, so numbers become visible    *)
(* out of order.  Readers (ChangeFeed, ChangeStream) extend this module.   *)
(*                                                                         *)
(* Time passes in ticks.  Ages stand for timestamps: the age of a row is   *)
(* the time since its `updated_at`, no further than any reader can tell.   *)
(***************************************************************************)
EXTENDS Integers, FiniteSets

CONSTANTS
    Jobs,      \* row ids
    Sessions,  \* database connections that write
    MaxTxn,    \* the longest a write transaction lasts (assumed, see README)
    Settle,    \* SETTLE_SECS: the age at which a reader trusts a row
    MaxSeq     \* bound on the sequence

ASSUME TimesAssumption == MaxTxn \in Nat /\ Settle \in Nat
ASSUME MaxSeqAssumption == MaxSeq \in Nat
ASSUME JobsAssumption == IsFiniteSet(Jobs)

VARIABLES
    lastSeq,   \* the last number `nextval` handed out
    seq,       \* seq[j]: change_seq of the committed row, 0 when there is none
    age,       \* age[j]: time since the committed row's updated_at
    open,      \* sessions with a transaction open
    txnAge,    \* txnAge[s]: time since the transaction of s began
    pending    \* pending[s][j]: change_seq s has written to row j, or 0

logVars == <<lastSeq, seq, age, open, txnAge, pending>>

Older(a, cap) == IF a < cap THEN a + 1 ELSE a
Capped(a) == IF a < Settle THEN a ELSE Settle

NoWrites == [j \in Jobs |-> 0]
Locked(j) == \E s \in open : pending[s][j] # 0

LogInit ==
    /\ lastSeq = 0
    /\ seq = [j \in Jobs |-> 0]
    /\ age = [j \in Jobs |-> 0]
    /\ open = {}
    /\ txnAge = [s \in Sessions |-> 0]
    /\ pending = [s \in Sessions |-> NoWrites]

\* `now()` is fixed here, for every row the transaction will write.
Begin(s) ==
    /\ s \notin open
    /\ open' = open \cup {s}
    /\ txnAge' = [txnAge EXCEPT ![s] = 0]
    /\ UNCHANGED <<lastSeq, seq, age, pending>>

\* Mutant: the next number is computed, not taken from the sequence.
WriteUncounted(s, j) ==
    /\ s \in open
    /\ ~Locked(j)
    /\ lastSeq < MaxSeq
    /\ pending' = [pending EXCEPT ![s][j] = lastSeq + 1]
    /\ UNCHANGED <<lastSeq, seq, age, open, txnAge>>

\* An INSERT or UPDATE gets its row lock first; then the trigger takes the
\* next number.
Write(s, j) ==
    /\ s \in open
    /\ ~Locked(j)
    /\ lastSeq < MaxSeq
    /\ lastSeq' = lastSeq + 1
    /\ pending' = [pending EXCEPT ![s][j] = lastSeq + 1]
    /\ UNCHANGED <<seq, age, open, txnAge>>

End(s) ==
    /\ s \in open
    /\ open' = open \ {s}
    /\ txnAge' = [txnAge EXCEPT ![s] = 0]
    /\ pending' = [pending EXCEPT ![s] = NoWrites]
    /\ UNCHANGED lastSeq

Commit(s) ==
    /\ End(s)
    /\ seq' = [j \in Jobs |-> IF pending[s][j] # 0 THEN pending[s][j] ELSE seq[j]]
    /\ age' = [j \in Jobs |-> IF pending[s][j] # 0 THEN Capped(txnAge[s]) ELSE age[j]]

\* The numbers it took are gone for good.
Rollback(s) == End(s) /\ UNCHANGED <<seq, age>>

\* A tick passes; a transaction as old as any may get ends before the next one.
Tick ==
    /\ \A s \in open : txnAge[s] < MaxTxn
    /\ txnAge' = [s \in Sessions |-> IF s \in open THEN txnAge[s] + 1 ELSE 0]
    /\ age' = [j \in Jobs |-> IF seq[j] # 0 THEN Older(age[j], Settle) ELSE 0]
    /\ UNCHANGED <<lastSeq, seq, open, pending>>

LogNext ==
    \/ \E s \in Sessions : Begin(s) \/ Commit(s) \/ Rollback(s)
    \/ \E s \in Sessions, j \in Jobs : Write(s, j)
    \/ Tick

LogTypeOK ==
    /\ lastSeq \in 0..MaxSeq
    /\ seq \in [Jobs -> 0..lastSeq]
    /\ age \in [Jobs -> 0..Settle]
    /\ open \in SUBSET Sessions
    /\ txnAge \in [Sessions -> 0..MaxTxn]
    /\ pending \in [Sessions -> [Jobs -> 0..lastSeq]]
    /\ \A s \in Sessions \ open : pending[s] = NoWrites

\* Mutants: the comparison with the cursor is off by one, in either direction.
ChangedFrom(cursor) == {j \in Jobs : seq[j] >= cursor}
ChangedPast(cursor) == {j \in Jobs : seq[j] > cursor + 1}

\* The rows `change_seq > cursor` selects.
ChangedSince(cursor) == {j \in Jobs : seq[j] > cursor}

\* n is the greatest number among the given rows, or `base` if there is none
\* above it.
IsNewest(n, base, rows) ==
    /\ n \in {base} \cup {seq[j] : j \in rows}
    /\ base <= n
    /\ \A j \in rows : seq[j] <= n
=============================================================================
