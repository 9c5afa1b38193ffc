----------------------------- MODULE KataGoOwner ----------------------------
(***************************************************************************)
(* The client of KataGo's analysis engine: an owner task alone holds the   *)
(* process, the table of pending queries and the id counter.  Callers send *)
(* it commands over a bounded channel and wait for a reply, with a         *)
(* deadline.  A supervised engine that ends on its own is relaunched;      *)
(* meanwhile commands are held back.  How long the waits before a relaunch *)
(* are is data (`backoff`); that queries have deadlines is TimeOut.        *)
(***************************************************************************)
EXTENDS EngineProcess, Sequences

CONSTANTS
    Closers,        \* the calls of `shutdown`, each made once
    CmdCapacity,    \* CMD_QUEUE_CAPACITY
    BackoffMin, BackoffMax,
    None

ASSUME OwnerAssumption ==
    /\ CmdCapacity \in Nat \ {0}
    /\ BackoffMin \in Nat \ {0}
    /\ BackoffMax \in Nat
    /\ BackoffMin <= BackoffMax
    /\ Queries \cap Closers = {}
    /\ None \notin Queries \cup Closers

VARIABLES
    call,         \* where a call of `analyze` is
    answer,       \* the turns a call returned
    closing,      \* where a call of `shutdown` is
    handles,      \* some handle of the engine is alive
    cmds,         \* the command channel
    pc,           \* the await the owner is in
    hand,         \* the command the owner works on
    supervised, started, status, nextId, backlog, backoff,
    pending       \* the table: id, query and turns collected

callerVars == <<call, answer, closing, handles>>
ownerVars == <<cmds, pc, hand, supervised, started, status, nextId, backlog, backoff, pending>>
vars == <<engineVars, callerVars, ownerVars>>

Entries == [id : Nat, query : Queries, got : SUBSET [query : Queries, turn : 1..Turns]]

\* All turns of query q.
Batch(q) == [query : {q}, turn : 1..Turns]

Init ==
    /\ EngineInit
    /\ call = [q \in Queries |-> "idle"]
    /\ answer = [q \in Queries |-> {}]
    /\ closing = [c \in Closers |-> "idle"]
    /\ handles = TRUE
    /\ cmds = <<>>
    /\ pc = "serve"
    /\ hand = None
    /\ supervised \in BOOLEAN
    /\ started = FALSE
    /\ status = "starting"
    /\ nextId = 0
    /\ backlog = <<>>
    /\ backoff = BackoffMin
    /\ pending = {}

\* An error for the callers in Q; one that gave up does not hear it.
Failed(Q) == [q \in Queries |-> IF q \in Q /\ call[q] = "waiting" THEN "err" ELSE call[q]]

\* The owner task returns.  Whatever command it, its table, its backlog or its
\* channel still holds is dropped, and dropping a reply channel wakes its caller.
Stop ==
    /\ pc' = "stopped"
    /\ hand' = None
    /\ cmds' = <<>>
    /\ backlog' = <<>>
    /\ pending' = {}
    /\ call' = Failed(Queries)
    /\ closing' = [c \in Closers |-> IF closing[c] = "waiting" THEN "done" ELSE closing[c]]
    /\ UNCHANGED <<answer, handles, supervised, started, nextId, backoff>>

-----------------------------------------------------------------------------
(* Callers.                                                                *)

\* `analyze`, with at least one turn.
Ask(q) ==
    /\ handles
    /\ call[q] = "idle"
    /\ call' = [call EXCEPT ![q] = "sending"]
    /\ UNCHANGED <<engineVars, answer, closing, handles, ownerVars>>

\* The command waits for room in the channel, without a deadline.
SendQuery(q) ==
    /\ call[q] = "sending"
    /\ IF pc = "stopped"
       THEN call' = [call EXCEPT ![q] = "err"] /\ UNCHANGED cmds
       ELSE /\ Len(cmds) < CmdCapacity
            /\ call' = [call EXCEPT ![q] = "waiting"]
            /\ cmds' = Append(cmds, q)
    /\ UNCHANGED <<engineVars, answer, closing, handles, pc, hand, supervised,
                   started, status, nextId, backlog, backoff, pending>>

\* The deadline passes; the command, or its entry in the table, stays.
TimeOut(q) ==
    /\ call[q] = "waiting"
    /\ call' = [call EXCEPT ![q] = "err"]
    /\ UNCHANGED <<engineVars, answer, closing, handles, ownerVars>>

Close(c) ==
    /\ handles
    /\ closing[c] = "idle"
    /\ closing' = [closing EXCEPT ![c] = "sending"]
    /\ UNCHANGED <<engineVars, call, answer, handles, ownerVars>>

SendClose(c) ==
    /\ closing[c] = "sending"
    /\ IF pc = "stopped"
       THEN closing' = [closing EXCEPT ![c] = "done"] /\ UNCHANGED cmds
       ELSE /\ Len(cmds) < CmdCapacity
            /\ closing' = [closing EXCEPT ![c] = "waiting"]
            /\ cmds' = Append(cmds, c)
    /\ UNCHANGED <<engineVars, call, answer, handles, pc, hand, supervised,
                   started, status, nextId, backlog, backoff, pending>>

\* The last handle is dropped; a call borrows one for as long as it runs.
DropHandles ==
    /\ handles
    /\ \A q \in Queries : call[q] \notin {"sending", "waiting"}
    /\ \A c \in Closers : closing[c] \notin {"sending", "waiting"}
    /\ handles' = FALSE
    /\ UNCHANGED <<engineVars, call, answer, closing, ownerVars>>

CallerNext ==
    \/ \E q \in Queries : Ask(q) \/ SendQuery(q) \/ TimeOut(q)
    \/ \E c \in Closers : Close(c) \/ SendClose(c)
    \/ DropHandles

-----------------------------------------------------------------------------
(* The owner serves a process.                                             *)

\* The backlog is written out before anything else is looked at.
Selecting == pc = "serve" /\ backlog = <<>>

\* Mutant: the backlog waits for a process that is ready, and so does the signal
\* that tells the owner.
TakeBacklogReady ==
    /\ pc = "serve"
    /\ backlog # <<>>
    /\ status = "ready"
    /\ hand' = Head(backlog)
    /\ backlog' = Tail(backlog)
    /\ pc' = "write"
    /\ UNCHANGED <<engineVars, callerVars, cmds, supervised, started, status, nextId, backoff, pending>>

TakeBacklog ==
    /\ pc = "serve"
    /\ backlog # <<>>
    /\ hand' = Head(backlog)
    /\ backlog' = Tail(backlog)
    /\ pc' = "write"
    /\ UNCHANGED <<engineVars, callerVars, cmds, supervised, started, status, nextId, backoff, pending>>

TakeQuery ==
    /\ Selecting
    /\ cmds # <<>>
    /\ Head(cmds) \in Queries
    /\ hand' = Head(cmds)
    /\ cmds' = Tail(cmds)
    /\ pc' = "write"
    /\ UNCHANGED <<engineVars, callerVars, supervised, started, status, nextId, backlog, backoff, pending>>

\* Mutant: the counter stands still.
SubmitSameId ==
    /\ pc = "write"
    /\ os # "gone"
    /\ Cardinality(stdin) < PipeCapacity
    /\ stdin' = stdin \cup {[id |-> nextId, query |-> hand]}
    /\ pending' = pending \cup {[id |-> nextId, query |-> hand, got |-> {}]}
    /\ hand' = None
    /\ pc' = "serve"
    /\ UNCHANGED <<os, ready, work, lines, crashes, callerVars, cmds,
                   supervised, started, status, nextId, backlog, backoff>>

\* Mutant: the write is not flushed.
SubmitUnflushed ==
    /\ pc = "write"
    /\ os # "gone"
    /\ pending' = pending \cup {[id |-> nextId, query |-> hand, got |-> {}]}
    /\ nextId' = nextId + 1
    /\ hand' = None
    /\ pc' = "serve"
    /\ UNCHANGED <<engineVars, callerVars, cmds, supervised, started, status, backlog, backoff>>

\* `submit`: an id, the write, an entry.  A full pipe keeps the owner waiting
\* until KataGo reads from it, or is gone.
Submit ==
    /\ pc = "write"
    /\ os # "gone"
    /\ Cardinality(stdin) < PipeCapacity
    /\ stdin' = stdin \cup {[id |-> nextId, query |-> hand]}
    /\ pending' = pending \cup {[id |-> nextId, query |-> hand, got |-> {}]}
    /\ nextId' = nextId + 1
    /\ hand' = None
    /\ pc' = "serve"
    /\ UNCHANGED <<os, ready, work, lines, crashes, callerVars, cmds,
                   supervised, started, status, backlog, backoff>>

SubmitFails ==
    /\ pc = "write"
    /\ os = "gone"
    /\ call' = Failed({hand})
    /\ nextId' = nextId + 1
    /\ hand' = None
    /\ pc' = "serve"
    /\ UNCHANGED <<engineVars, answer, closing, handles, cmds,
                   supervised, started, status, backlog, backoff, pending>>

\* The ready signal resolves: announced, or stderr closed before that.
TakeReady ==
    /\ Selecting
    /\ ready = "announced" \/ (ready = "starting" /\ os # "running")
    /\ ready' = "taken"
    /\ IF ready = "announced"
       THEN started' = TRUE /\ status' = "ready"
       ELSE UNCHANGED <<started, status>>
    /\ UNCHANGED <<os, stdin, work, lines, crashes, callerVars, cmds, pc, hand,
                   supervised, nextId, backlog, backoff, pending>>

\* The entry a line is about, the entry with a turn more, and whether that is
\* the batch.
Hits(a) == {e \in pending : e.id = a.id}
Grown(e, a) ==
    [id |-> e.id, query |-> e.query, got |-> e.got \cup {[query |-> a.query, turn |-> a.turn]}]
Full(a) == {e \in Hits(a) : Cardinality(Grown(e, a).got) >= Turns}

\* `handle_line`: a line about an id that is not in the table changes nothing,
\* an error ends its query.
HandleError(a) ==
    /\ Selecting
    /\ a \in lines
    /\ a.turn = NoTurn
    /\ lines' = lines \ {a}
    /\ pending' = pending \ Hits(a)
    /\ call' = Failed({e.query : e \in Hits(a)})
    /\ UNCHANGED <<os, ready, stdin, work, crashes, answer, closing, handles, cmds, pc, hand,
                   supervised, started, status, nextId, backlog, backoff>>

\* A turn is collected, and the last one delivers them all.
HandleTurn(a) ==
    /\ Selecting
    /\ a \in lines
    /\ a.turn # NoTurn
    /\ lines' = lines \ {a}
    /\ pending' = (pending \ Hits(a)) \cup {Grown(e, a) : e \in Hits(a) \ Full(a)}
    /\ LET heard == {e \in Full(a) : call[e.query] = "waiting"}
       IN /\ call' = [q \in Queries |-> IF \E e \in heard : e.query = q THEN "ok" ELSE call[q]]
          /\ answer' = [q \in Queries |->
                IF \E e \in heard : e.query = q
                THEN Grown(CHOOSE e \in heard : e.query = q, a).got
                ELSE answer[q]]
    /\ UNCHANGED <<os, ready, stdin, work, crashes, closing, handles, cmds, pc, hand,
                   supervised, started, status, nextId, backlog, backoff>>

TakeClose ==
    /\ Selecting
    /\ cmds # <<>>
    /\ Head(cmds) \in Closers
    /\ hand' = Head(cmds)
    /\ cmds' = Tail(cmds)
    /\ pc' = "kill"
    /\ UNCHANGED <<engineVars, callerVars, supervised, started, status, nextId, backlog, backoff, pending>>

\* The process is killed and waited for; the acknowledgement comes after that.
Killed ==
    /\ pc = "kill"
    /\ Destroyed
    /\ Stop
    /\ status' = "exited"

\* All lines are read and stdout is closed.
SeeEof ==
    /\ Selecting
    /\ lines = {}
    /\ os # "running"
    /\ pc' = "reap"
    /\ UNCHANGED <<engineVars, callerVars, cmds, hand, supervised, started,
                   status, nextId, backlog, backoff, pending>>

\* A process that does not exit in time is killed.  Then the table's callers
\* are told, and the owner waits for a relaunch or returns.
Reap ==
    /\ pc = "reap"
    /\ Destroyed
    /\ status' = "exited"
    /\ IF supervised /\ started
       THEN /\ pc' = "down"
            /\ pending' = {}
            /\ call' = Failed({e.query : e \in pending})
            /\ backoff' = IF status = "ready" THEN BackoffMin ELSE backoff
            /\ UNCHANGED <<answer, closing, handles, cmds, hand, supervised, started, nextId, backlog>>
       ELSE Stop

\* No handle and no command is left; `kill_on_drop` does not wait for the end.
HandlesGone ==
    /\ Selecting \/ pc = "down"
    /\ cmds = <<>>
    /\ ~handles
    /\ os' = IF os = "running" THEN "mute" ELSE os
    /\ Stop
    /\ UNCHANGED <<ready, stdin, work, lines, crashes, status>>

-----------------------------------------------------------------------------
(* The owner waits for the next launch.                                    *)

HoldQuery ==
    /\ pc = "down"
    /\ cmds # <<>>
    /\ Head(cmds) \in Queries
    /\ backlog' = Append(backlog, Head(cmds))
    /\ cmds' = Tail(cmds)
    /\ UNCHANGED <<engineVars, callerVars, pc, hand, supervised, started,
                   status, nextId, backoff, pending>>

CloseDown ==
    /\ pc = "down"
    /\ cmds # <<>>
    /\ Head(cmds) \in Closers
    /\ Stop
    /\ status' = "exited"
    /\ UNCHANGED engineVars

\* Mutant: no cap.
DoubledForever == 2 * backoff

\* `(backoff * 2).min(RESTART_BACKOFF_MAX)`.
Doubled == IF 2 * backoff < BackoffMax THEN 2 * backoff ELSE BackoffMax

Relaunch ==
    /\ pc = "down"
    /\ Launched
    /\ backoff' = Doubled
    /\ status' = "starting"
    /\ pc' = "serve"
    /\ UNCHANGED <<callerVars, cmds, hand, supervised, started, nextId, backlog, pending>>

RelaunchFails ==
    /\ pc = "down"
    /\ backoff' = Doubled
    /\ UNCHANGED <<engineVars, callerVars, cmds, pc, hand, supervised, started,
                   status, nextId, backlog, pending>>

OwnerNext ==
    \/ TakeBacklog \/ TakeQuery \/ Submit \/ SubmitFails \/ TakeReady
    \/ \E a \in lines : HandleError(a) \/ HandleTurn(a)
    \/ TakeClose \/ Killed \/ SeeEof \/ Reap \/ HandlesGone
    \/ HoldQuery \/ CloseDown \/ Relaunch \/ RelaunchFails

Next ==
    \/ CallerNext
    \/ OwnerNext
    \/ EngineNext /\ UNCHANGED <<callerVars, ownerVars>>

Spec == Init /\ [][Next]_vars

\* Calls go on and the owner does; a launch succeeds in the end; KataGo starts,
\* reads and answers, and a process that closed its stdout exits.  Nothing is
\* assumed of deadlines.
FairSpec ==
    /\ Spec
    /\ \A q \in Queries : WF_vars(SendQuery(q))
    /\ \A c \in Closers : WF_vars(SendClose(c))
    /\ WF_vars(OwnerNext)
    /\ WF_vars(Relaunch)
    /\ WF_vars(Announce /\ UNCHANGED <<callerVars, ownerVars>>)
    /\ WF_vars((\E x \in stdin : ReadQuery(x)) /\ UNCHANGED <<callerVars, ownerVars>>)
    /\ WF_vars((\E a \in work : WriteAnswer(a)) /\ UNCHANGED <<callerVars, ownerVars>>)
    /\ WF_vars(Exits /\ UNCHANGED <<callerVars, ownerVars>>)

-----------------------------------------------------------------------------
\* Every variable has its type, and the channel its bound.
TypeOK ==
    /\ EngineTypeOK
    /\ call \in [Queries -> {"idle", "sending", "waiting", "ok", "err"}]
    /\ answer \in [Queries -> SUBSET [query : Queries, turn : 1..Turns]]
    /\ closing \in [Closers -> {"idle", "sending", "waiting", "done"}]
    /\ handles \in BOOLEAN
    /\ cmds \in Seq(Queries \cup Closers)
    /\ Len(cmds) <= CmdCapacity
    /\ pc \in {"serve", "write", "kill", "reap", "down", "stopped"}
    /\ hand \in Queries \cup Closers \cup {None}
    /\ supervised \in BOOLEAN
    /\ started \in BOOLEAN
    /\ status \in {"starting", "ready", "exited"}
    /\ nextId \in Nat
    /\ backlog \in Seq(Queries)
    /\ backoff \in BackoffMin..BackoffMax
    /\ pending \subseteq Entries

\* A call returns every turn it asked for, and no turn of another query: over
\* answers that are interleaved, that come after a deadline or a crash, and
\* queries that are written again to no process twice.
AnswersMatch ==
    \A q \in Queries : call[q] = "ok" => answer[q] = Batch(q)

\* While the process runs, every turn an entry of the table lacks is on its way,
\* or an error is: no entry waits for what nobody will send.
NoDeafEntry ==
    os = "running" =>
        \A e \in pending :
            \/ \E x \in stdin : x.id = e.id
            \/ \E a \in work \cup lines : a.id = e.id /\ a.turn = NoTurn
            \/ \A t \in 1..Turns :
                  [query |-> e.query, turn |-> t] \in e.got
                  \/ Answer(e, t) \in work \cup lines

\* "Kill the subprocess and wait until it has exited, so the GPU is free when
\* this returns", whatever the owner was doing, and for each of several calls.
ShutdownMeansGone ==
    \A c \in Closers : closing[c] = "done" => os = "gone" /\ pc = "stopped"

\* A process is launched only when the one before has exited: two never hold the
\* GPU together.
OneEngineAtATime == [][os' = "running" => os # "mute"]_vars

\* Every call returns, without the help of its deadline.
EveryCallReturns ==
    /\ \A q \in Queries : call[q] \in {"sending", "waiting"} ~> call[q] \in {"ok", "err"}
    /\ \A c \in Closers : closing[c] = "sending" ~> closing[c] = "done"
=============================================================================
