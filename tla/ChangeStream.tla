---------------------------- MODULE ChangeStream ----------------------------
(***************************************************************************)
(* GET /analyses/stream: one Server-Sent-Events connection.  It emits a    *)
(* snapshot of the table, then reads where to start tailing, then emits    *)
(* every row whose number has passed its cursor: three kinds of statement, *)
(* with writers free to commit between any two.  Nothing is held back for  *)
(* transactions in flight, unlike in ChangeFeed.                           *)
(***************************************************************************)
EXTENDS ChangeLog

VARIABLES
    stage,    \* "snapshot", "cursor" or "tail": the statement to run next
    cursor,   \* the tail's cursor
    failed,   \* history: the snapshot or the cursor could not be read
    emitted,  \* emitted[j]: the newest change of j the client was sent, or 0
    exposed   \* history: rows whose newest change was committed between the
              \* stream's first two statements, or after a later number

streamVars == <<stage, cursor, failed, emitted>>
vars == <<logVars, streamVars, exposed>>

Init ==
    /\ LogInit
    /\ stage = "snapshot"
    /\ cursor = 0
    /\ failed = FALSE
    /\ emitted = [j \in Jobs |-> 0]
    /\ exposed = {}

\* `list_jobs`: every committed row is sent.
Snapshot ==
    /\ stage = "snapshot"
    /\ emitted' = seq
    /\ stage' = "cursor"
    /\ exposed' = {}
    /\ UNCHANGED <<logVars, cursor, failed>>

\* The list failed: an error event is sent and the stream goes on without it.
SnapshotFails ==
    /\ stage = "snapshot"
    /\ stage' = "cursor"
    /\ failed' = TRUE
    /\ UNCHANGED <<logVars, cursor, emitted, exposed>>

\* `latest_change_seq`, in a statement of its own.
ReadCursor ==
    /\ stage = "cursor"
    /\ cursor' \in 0..lastSeq
    /\ IsNewest(cursor', 0, Jobs)
    /\ stage' = "tail"
    /\ UNCHANGED <<logVars, failed, emitted, exposed>>

\* It failed: `unwrap_or(0)` tails from the beginning.
ReadCursorFails ==
    /\ stage = "cursor"
    /\ stage' = "tail"
    /\ failed' = TRUE
    /\ UNCHANGED <<logVars, cursor, emitted, exposed>>

\* Mutant: the cursor stays behind.
TailStays ==
    /\ stage = "tail"
    /\ emitted' = [j \in Jobs |-> IF j \in ChangedSince(cursor) THEN seq[j] ELSE emitted[j]]
    /\ UNCHANGED <<logVars, stage, cursor, failed, exposed>>

\* `changes_since`, each second: all rows past the cursor are sent.
Tail ==
    /\ stage = "tail"
    /\ cursor' \in 0..lastSeq
    /\ IsNewest(cursor', cursor, ChangedSince(cursor))
    /\ emitted' = [j \in Jobs |-> IF j \in ChangedSince(cursor) THEN seq[j] ELSE emitted[j]]
    /\ UNCHANGED <<logVars, stage, failed, exposed>>

\* What the writers do while the stream runs; a commit renews what is known of
\* the rows it writes.
WritersNext ==
    /\ LogNext
    /\ exposed' = {j \in Jobs : IF seq'[j] = seq[j] THEN j \in exposed
                               ELSE stage = "cursor" \/ \E k \in Jobs : seq[k] > seq'[j]}
    /\ UNCHANGED streamVars

StreamNext == Snapshot \/ SnapshotFails \/ ReadCursor \/ ReadCursorFails \/ Tail

Next == WritersNext \/ StreamNext

Spec == Init /\ [][Next]_vars

FairSpec ==
    /\ Spec
    /\ WF_vars(Snapshot)
    /\ WF_vars(ReadCursor)
    /\ WF_vars(Tail)

-----------------------------------------------------------------------------
\* Every variable has its type.
TypeOK ==
    /\ LogTypeOK
    /\ stage \in {"snapshot", "cursor", "tail"}
    /\ cursor \in 0..lastSeq
    /\ failed \in BOOLEAN
    /\ emitted \in [Jobs -> 0..lastSeq]
    /\ exposed \in SUBSET Jobs

\* The tail sends no change that was sent before: all the client has been sent
\* lies at or below the cursor.
NothingRepeated ==
    stage = "tail" /\ ~failed => \A j \in Jobs : emitted[j] <= cursor

\* The stream passes over a row's newest change in two ways only: it was
\* committed between the snapshot and the reading of the cursor, or after a
\* write that took a later number.
PassesOnlyExposed ==
    stage = "tail" /\ ~failed =>
        \A j \in Jobs : seq[j] <= cursor /\ emitted[j] # seq[j] => j \in exposed

\* Every other change reaches the client, wherever cursor and writers are when
\* it is committed, unless the row changes again first: a poll shows the newest
\* state of a row, not each transition to it.
ChangeArrives ==
    \A j \in Jobs, n \in 1..MaxSeq :
        (stage = "tail" /\ ~failed /\ seq[j] = n /\ j \notin exposed)
            ~> (emitted[j] = n \/ seq[j] # n)

\* "Tail the table from the newest change at snapshot time": snapshot and tail
\* leave no gap, and a change the cursor has moved past was sent.
NothingMissed ==
    stage = "tail" /\ ~failed => \A j \in Jobs : seq[j] <= cursor => emitted[j] = seq[j]
=============================================================================
