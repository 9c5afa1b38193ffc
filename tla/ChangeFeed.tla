----------------------------- MODULE ChangeFeed -----------------------------
(***************************************************************************)
(* GET /analyses/changes: a client pulls pages of changes past its cursor. *)
(* The server keeps nothing between requests; it reads a page, then the    *)
(* newest number, in two statements, and answers.  Rows younger than       *)
(* Settle end the page, to give writes in flight the time to commit.       *)
(***************************************************************************)
EXTENDS ChangeLog

CONSTANTS
    Requests,  \* the `limit` values a client may ask for
    MaxLimit   \* the page limit's upper clamp (1000 in the code)

ASSUME LimitsAssumption == Requests \subseteq Int /\ MaxLimit \in Nat \ {0}

VARIABLES
    cursor,   \* the client's cursor: `since` of its next request
    seen,     \* seen[j]: the newest change of j the client was handed, or 0
    phase,    \* "idle", "page" (page read) or "reply" (answer on its way)
    page,     \* the page's rows, its cursor and its `more` flag
    latest    \* the answer's `latest`

feedVars == <<cursor, seen, phase, page, latest>>
vars == <<logVars, feedVars>>

NoPage == [rows |-> [j \in Jobs |-> 0], cursor |-> 0, more |-> FALSE]

\* Mutant: no lower clamp; a page may hold nothing.
ClampAbove(limit) == IF limit > MaxLimit THEN MaxLimit ELSE IF limit < 0 THEN 0 ELSE limit

Clamp(limit) == IF limit < 1 THEN 1 ELSE IF limit > MaxLimit THEN MaxLimit ELSE limit

\* The first n rows past the cursor, in the order of their numbers.
FirstChanges(n) ==
    {j \in ChangedSince(cursor) :
        Cardinality({k \in ChangedSince(cursor) : seq[k] < seq[j]}) < n}

\* Mutants: the page holds all of them, or just leaves out the young ones.
ReadyUnsettled(n) == FirstChanges(n)
ReadyFiltered(n) == {j \in FirstChanges(n) : age[j] >= Settle}

\* ... up to the first that has not settled.
Ready(n) ==
    {j \in FirstChanges(n) :
        \A k \in FirstChanges(n) : seq[k] <= seq[j] => age[k] >= Settle}

Init ==
    /\ LogInit
    /\ cursor = 0
    /\ seen = [j \in Jobs |-> 0]
    /\ phase = "idle"
    /\ page = NoPage
    /\ latest = 0

\* Mutant: only a full page has more behind it.
ReadPageFullOnly(limit) ==
    /\ phase = "idle"
    /\ LET n == Clamp(limit) IN
       \E last \in 0..lastSeq :
          /\ IsNewest(last, cursor, Ready(n))
          /\ page' = [rows |-> [j \in Jobs |-> IF j \in Ready(n) THEN seq[j] ELSE 0],
                      cursor |-> last,
                      more |-> Cardinality(Ready(n)) >= n]
    /\ phase' = "page"
    /\ UNCHANGED <<logVars, cursor, seen, latest>>

\* The first statement of the handler.
ReadPage(limit) ==
    /\ phase = "idle"
    /\ LET n == Clamp(limit) IN
       \E last \in 0..lastSeq :
          /\ IsNewest(last, cursor, Ready(n))
          /\ page' = [rows |-> [j \in Jobs |-> IF j \in Ready(n) THEN seq[j] ELSE 0],
                      cursor |-> last,
                      more |-> Ready(n) # FirstChanges(n) \/ Cardinality(Ready(n)) >= n]
    /\ phase' = "page"
    /\ UNCHANGED <<logVars, cursor, seen, latest>>

\* Mutant: the newest number is looked for among settled rows only.
ReadLatestSettled ==
    /\ phase = "page"
    /\ latest' \in 0..lastSeq
    /\ IsNewest(latest', 0, {j \in Jobs : age[j] >= Settle})
    /\ phase' = "reply"
    /\ UNCHANGED <<logVars, cursor, seen, page>>

\* The second one, which completes the answer (`latest_change_seq`, 0 when the
\* table is empty).
ReadLatest ==
    /\ phase = "page"
    /\ latest' \in 0..lastSeq
    /\ IsNewest(latest', 0, Jobs)
    /\ phase' = "reply"
    /\ UNCHANGED <<logVars, cursor, seen, page>>

\* The client takes over the rows and the cursor.
Receive ==
    /\ phase = "reply"
    /\ cursor' = page.cursor
    /\ seen' = [j \in Jobs |-> IF page.rows[j] # 0 THEN page.rows[j] ELSE seen[j]]
    /\ phase' = "idle"
    /\ page' = NoPage
    /\ latest' = 0
    /\ UNCHANGED logVars

\* The answer is lost, or is an error because a statement failed: the client
\* asks again from the cursor it has.
LoseReply ==
    /\ phase = "reply"
    /\ phase' = "idle"
    /\ page' = NoPage
    /\ latest' = 0
    /\ UNCHANGED <<logVars, cursor, seen>>

Poll == \E limit \in Requests : ReadPage(limit)

Next ==
    \/ LogNext /\ UNCHANGED feedVars
    \/ Poll \/ ReadLatest \/ Receive \/ LoseReply

Spec == Init /\ [][Next]_vars

\* Time passes, transactions end, the client keeps polling, the handler runs
\* on, and not every answer is lost.
FairSpec ==
    /\ Spec
    /\ WF_vars(Tick /\ UNCHANGED feedVars)
    /\ \A s \in Sessions :
          WF_vars((Commit(s) \/ Rollback(s)) /\ UNCHANGED feedVars)
    /\ WF_vars(Poll)
    /\ WF_vars(ReadLatest)
    /\ SF_vars(Receive)

-----------------------------------------------------------------------------
\* Every variable has its type.
TypeOK ==
    /\ LogTypeOK
    /\ cursor \in 0..lastSeq
    /\ seen \in [Jobs -> 0..lastSeq]
    /\ phase \in {"idle", "page", "reply"}
    /\ page \in [rows : [Jobs -> 0..lastSeq], cursor : 0..lastSeq, more : BOOLEAN]
    /\ latest \in 0..lastSeq

\* The cursor never skips a write: whatever order transactions commit in, a
\* committed change the cursor has passed is one the client was handed.
NoSkippedChange ==
    \A j \in Jobs : seq[j] # 0 /\ seq[j] <= cursor => seen[j] = seq[j]

\* The same of a write that is still uncommitted when the cursor moves: no
\* open transaction holds a number the cursor, or a page, has passed.
NoOvertakenWrite ==
    \A s \in open, j \in Jobs : pending[s][j] # 0 =>
        pending[s][j] > cursor /\ pending[s][j] > page.cursor

\* "Lower than a client's cursor means the service's store was reset": while
\* rows persist an answer never reports a newest number below its own cursor,
\* so no client starts over for nothing.
NoFalseReset == phase = "reply" => latest >= page.cursor /\ latest >= cursor

\* An answer without `more` leaves nothing committed behind: a client that
\* slows down on it is up to date as of the page.
NoMoreMeansCaughtUp ==
    [][phase = "idle" /\ phase' = "page" /\ ~page'.more =>
          \A j \in Jobs : seq[j] <= page'.cursor]_vars

\* A client is handed each change of a job once, and in order.
NeverHandedTwice ==
    [][phase = "reply" /\ phase' = "idle" /\ cursor' # cursor =>
          \A j \in Jobs : page.rows[j] # 0 => page.rows[j] > seen[j]]_vars

\* Every committed change reaches the client, itself or superseded by a later
\* one of the same job, whatever page limits the client asks for.
EveryChangeDelivered ==
    \A j \in Jobs, n \in 1..MaxSeq : seq[j] = n ~> seen[j] >= n
=============================================================================
