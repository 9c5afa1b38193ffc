------------------------------ MODULE JobQueue ------------------------------
(***************************************************************************)
(* The durable job queue: the `jobs` table (src/src/db), the pgmq message  *)
(* that carries each job (src/src/queue.rs) and the lease loops that work  *)
(* them off (src/src/worker.rs).  A step is one SQL statement, or one      *)
(* transaction where the code opens one; between two statements of a       *)
(* handler anything else may happen, a crash included.                     *)
(*                                                                         *)
(* A message is leased by hiding it for a visibility timeout; pgmq keeps   *)
(* no owner, so a lease is lost by the mere passing of time and re-armed   *)
(* by whoever still believes it holds it.  Time is abstracted to the       *)
(* events it causes: a lease that nobody holds any more lapses; a lease    *)
(* somebody still holds lapses only when the heartbeat missed its deadline *)
(* (a slip).                                                               *)
(***************************************************************************)
EXTENDS Naturals, FiniteSets

CONSTANTS
    Jobs,         \* ids the database can mint
    Workers,      \* lease loops, of all processes together
    MaxAttempts,  \* `worker.max_attempts`
    MaxFaults,    \* bound on crashes, failed statements and shutdowns
    MaxSlips,     \* bound on leases lost while still held
    NoJob         \* what a loop that handles no message holds

ASSUME AttemptsAssumption == MaxAttempts \in Nat \ {0}
ASSUME BoundsAssumption == MaxFaults \in Nat /\ MaxSlips \in Nat
ASSUME WorkersAssumption == IsFiniteSet(Workers)
ASSUME NoJobAssumption == NoJob \notin Jobs

VARIABLES
    status, result, error, lastError,  \* the jobs table, a column each
    message,    \* message[j]: state of the pgmq message that carries j
    readCt,     \* readCt[j]: pgmq's delivery counter of that message
    extending,  \* jobs with a `set_vt` statement of a heartbeat in flight
    pc,         \* pc[w]: the statement loop w is about to run
    cur, ct,    \* cur[w], ct[w]: the job and `read_ct` of the message w handles
    starts,     \* history: analyses of j that were started
    faults, slips

rowVars == <<status, result, error, lastError>>
queueVars == <<message, readCt, extending>>
workerVars == <<pc, cur, ct>>
budget == <<faults, slips>>
vars == <<rowVars, queueVars, workerVars, starts, budget>>

NonTerminal == {"queued", "running"}
Terminal == {"done", "failed"}
Statements == {"set_running", "record_failure", "set_done", "set_failed", "archive"}
PCs == {"idle", "down", "analyzing"} \cup Statements

-----------------------------------------------------------------------------
Init ==
    /\ status = [j \in Jobs |-> "absent"]
    /\ result = [j \in Jobs |-> 0]
    /\ error = [j \in Jobs |-> FALSE]
    /\ lastError = [j \in Jobs |-> FALSE]
    /\ message = [j \in Jobs |-> "none"]
    /\ readCt = [j \in Jobs |-> 0]
    /\ extending = {}
    /\ pc = [w \in Workers |-> "idle"]
    /\ cur = [w \in Workers |-> NoJob]
    /\ ct = [w \in Workers |-> 0]
    /\ starts = [j \in Jobs |-> 0]
    /\ faults = 0
    /\ slips = 0

\* Loop w runs the next statement, with the message it already has.
Goto(w, label) ==
    /\ pc' = [pc EXCEPT ![w] = label]
    /\ UNCHANGED <<cur, ct>>

\* The handler of w returns; the message is no longer its business.
Leave(w, label) ==
    /\ pc' = [pc EXCEPT ![w] = label]
    /\ cur' = [cur EXCEPT ![w] = NoJob]
    /\ ct' = [ct EXCEPT ![w] = 0]

\* Some handler still works on the message of j.
Held(j) == \E w \in Workers : cur[w] = j

Fault == faults < MaxFaults /\ faults' = faults + 1 /\ UNCHANGED slips

-----------------------------------------------------------------------------
(* Clients.                                                                *)

\* Mutant: the message is published outside the row's transaction, and lost.
SubmitRowsOnly(S) ==
    /\ S # {}
    /\ \A j \in S : status[j] = "absent"
    /\ status' = [j \in Jobs |-> IF j \in S THEN "queued" ELSE status[j]]
    /\ UNCHANGED <<result, error, lastError, queueVars, workerVars, starts, budget>>

\* POST /analyses (one job) and /analyses/batch (several): rows and messages
\* are written by one transaction, so all of them appear or none does.
Submit(S) ==
    /\ S # {}
    /\ \A j \in S : status[j] = "absent"
    /\ status' = [j \in Jobs |-> IF j \in S THEN "queued" ELSE status[j]]
    /\ message' = [j \in Jobs |-> IF j \in S THEN "visible" ELSE message[j]]
    /\ UNCHANGED <<result, error, lastError, readCt, extending, workerVars,
                   starts, budget>>

-----------------------------------------------------------------------------
(* The lease loop.                                                         *)

\* Mutant: read with a visibility timeout of zero.
LeaseUnhidden(j) ==
    /\ message[j] = "visible"
    /\ readCt' = [readCt EXCEPT ![j] = @ + 1]
    /\ UNCHANGED <<message, extending>>

\* pgmq's read: hide one visible message and count the delivery.  `SKIP
\* LOCKED` lets a reader pass over a row another session holds, so any visible
\* message may be the one returned.
Lease(j) ==
    /\ message[j] = "visible"
    /\ message' = [message EXCEPT ![j] = "hidden"]
    /\ readCt' = [readCt EXCEPT ![j] = @ + 1]
    /\ UNCHANGED extending

\* Mutants: off by one, in either direction.
PoisonedEarly(readCount) == readCount >= MaxAttempts
PoisonedLate(readCount) == readCount > MaxAttempts + 1

\* A message delivered more than `max_attempts` times is poison.
Poisoned(readCount) == readCount > MaxAttempts

\* Mutant: poison is filtered out by the reader instead of settled by the handler.
ReadUnpoisoned(w, j) ==
    /\ pc[w] = "idle"
    /\ readCt[j] < MaxAttempts
    /\ Lease(j)
    /\ pc' = [pc EXCEPT ![w] = "set_running"]
    /\ cur' = [cur EXCEPT ![w] = j]
    /\ ct' = [ct EXCEPT ![w] = readCt[j] + 1]
    /\ UNCHANGED <<rowVars, starts, budget>>

\* The loop is handed a message and decides, from `read_ct`, what to run first.
Read(w, j) ==
    /\ pc[w] = "idle"
    /\ Lease(j)
    /\ pc' = [pc EXCEPT ![w] = IF Poisoned(readCt[j] + 1) THEN "set_failed"
                                                          ELSE "set_running"]
    /\ cur' = [cur EXCEPT ![w] = j]
    /\ ct' = [ct EXCEPT ![w] = readCt[j] + 1]
    /\ UNCHANGED <<rowVars, starts, budget>>

\* The row's guarded UPDATE, then the heartbeat and the analysis start.
SetRunning(w) ==
    /\ pc[w] = "set_running"
    /\ status' = [status EXCEPT ![cur[w]] = IF @ \in NonTerminal THEN "running" ELSE @]
    /\ starts' = [starts EXCEPT ![cur[w]] = @ + 1]
    /\ Goto(w, "analyzing")
    /\ UNCHANGED <<result, error, lastError, queueVars, budget>>

\* The executor returns a value, and the heartbeat is dropped.
AnalyzeOk(w) ==
    /\ pc[w] = "analyzing"
    /\ Goto(w, "set_done")
    /\ UNCHANGED <<rowVars, queueVars, starts, budget>>

\* The executor returns an error (a failed or timed-out query, a lost worker).
AnalyzeErr(w) ==
    /\ pc[w] = "analyzing"
    /\ Goto(w, "record_failure")
    /\ UNCHANGED <<rowVars, queueVars, starts, budget>>

\* Mutants: the UPDATE forgets the result, lacks its guard, or ends the handler.
SetDoneNoResult(w) ==
    /\ pc[w] = "set_done"
    /\ status' = [status EXCEPT ![cur[w]] = IF @ \in NonTerminal THEN "done" ELSE @]
    /\ Goto(w, "archive")
    /\ UNCHANGED <<result, error, lastError, queueVars, starts, budget>>

SetDoneUnguarded(w) ==
    /\ pc[w] = "set_done"
    /\ status' = [status EXCEPT ![cur[w]] = "done"]
    /\ result' = [result EXCEPT ![cur[w]] = ct[w]]
    /\ error' = [error EXCEPT ![cur[w]] = FALSE]
    /\ Goto(w, "archive")
    /\ UNCHANGED <<lastError, queueVars, starts, budget>>

SetDoneNoArchive(w) ==
    /\ pc[w] = "set_done"
    /\ status[cur[w]] \in NonTerminal
    /\ status' = [status EXCEPT ![cur[w]] = "done"]
    /\ result' = [result EXCEPT ![cur[w]] = ct[w]]
    /\ Leave(w, "idle")
    /\ UNCHANGED <<error, lastError, queueVars, starts, budget>>

\* The result is named by the delivery that produced it.
SetDone(w) ==
    /\ pc[w] = "set_done"
    /\ IF status[cur[w]] \in NonTerminal
       THEN /\ status' = [status EXCEPT ![cur[w]] = "done"]
            /\ result' = [result EXCEPT ![cur[w]] = ct[w]]
            /\ error' = [error EXCEPT ![cur[w]] = FALSE]
       ELSE UNCHANGED <<status, result, error>>
    /\ Goto(w, "archive")
    /\ UNCHANGED <<lastError, queueVars, starts, budget>>

SetFailed(w) ==
    /\ pc[w] = "set_failed"
    /\ IF status[cur[w]] \in NonTerminal
       THEN /\ status' = [status EXCEPT ![cur[w]] = "failed"]
            /\ error' = [error EXCEPT ![cur[w]] = TRUE]
            /\ result' = [result EXCEPT ![cur[w]] = 0]
       ELSE UNCHANGED <<status, result, error>>
    /\ Goto(w, "archive")
    /\ UNCHANGED <<lastError, queueVars, starts, budget>>

\* Mutant: a failed attempt takes its message out of the queue.
RecordFailureArchiving(w) ==
    /\ pc[w] = "record_failure"
    /\ lastError' = [lastError EXCEPT ![cur[w]] = TRUE]
    /\ message' = [message EXCEPT ![cur[w]] = "archived"]
    /\ Leave(w, "idle")
    /\ UNCHANGED <<status, result, error, readCt, extending, starts, budget>>

\* The attempt's error is noted and the message left to its timeout.
RecordFailure(w) ==
    /\ pc[w] = "record_failure"
    /\ lastError' = [lastError EXCEPT ![cur[w]] = @ \/ status[cur[w]] \in NonTerminal]
    /\ Leave(w, "idle")
    /\ UNCHANGED <<status, result, error, queueVars, starts, budget>>

Archive(w) ==
    /\ pc[w] = "archive"
    /\ message' = [message EXCEPT ![cur[w]] = "archived"]
    /\ Leave(w, "idle")
    /\ UNCHANGED <<rowVars, readCt, extending, starts, budget>>

-----------------------------------------------------------------------------
(* The lease.                                                              *)

\* Half a timeout has passed: the heartbeat sends `set_vt`.
HeartbeatTick(w) ==
    /\ pc[w] = "analyzing"
    /\ cur[w] \notin extending
    /\ extending' = extending \cup {cur[w]}
    /\ UNCHANGED <<rowVars, message, readCt, workerVars, starts, budget>>

\* The statement reaches the database, possibly long after its sender stopped:
\* it hides the message again, whoever holds or waits for it.
ExtendLands(j) ==
    /\ j \in extending
    /\ extending' = extending \ {j}
    /\ message' = [message EXCEPT ![j] = IF @ = "visible" THEN "hidden" ELSE @]
    /\ UNCHANGED <<rowVars, readCt, workerVars, starts, budget>>

\* It fails; the error is only logged.
ExtendFails(j) ==
    /\ j \in extending
    /\ extending' = extending \ {j}
    /\ UNCHANGED <<rowVars, message, readCt, workerVars, starts, budget>>

Expire(j) ==
    /\ message[j] = "hidden"
    /\ message' = [message EXCEPT ![j] = "visible"]
    /\ UNCHANGED <<rowVars, readCt, extending, workerVars, starts>>

\* The visibility timeout of a message nobody handles any more runs out.
Lapse(j) == ~Held(j) /\ Expire(j) /\ UNCHANGED budget

\* It runs out under a handler: extensions failed, or a statement took too long.
Slip(j) ==
    /\ Held(j)
    /\ slips < MaxSlips
    /\ slips' = slips + 1
    /\ Expire(j)
    /\ UNCHANGED faults

-----------------------------------------------------------------------------
(* What goes wrong.  A statement that commits but whose reply is lost is    *)
(* the statement followed by Crash and Restart.                             *)

\* A statement fails: `?` leaves the handler and the message stays leased.
DbError(w) ==
    /\ pc[w] \in Statements
    /\ Fault
    /\ Leave(w, "idle")
    /\ UNCHANGED <<rowVars, queueVars, starts>>

\* The message is leased, but the loop never sees it: the shutdown token won
\* the select while the read was in flight, or the connection broke.
LostRead(w, j, label) ==
    /\ pc[w] = "idle"
    /\ label \in {"idle", "down"}
    /\ Lease(j)
    /\ Fault
    /\ pc' = [pc EXCEPT ![w] = label]
    /\ UNCHANGED <<rowVars, cur, ct, starts>>

\* The process dies, or (between two messages) is told to stop.
Crash(w) ==
    /\ pc[w] # "down"
    /\ Fault
    /\ Leave(w, "down")
    /\ UNCHANGED <<rowVars, queueVars, starts>>

Restart(w) ==
    /\ pc[w] = "down"
    /\ Leave(w, "idle")
    /\ UNCHANGED <<rowVars, queueVars, starts, budget>>

-----------------------------------------------------------------------------
Step(w) ==
    \/ \E j \in Jobs : Read(w, j)
    \/ SetRunning(w) \/ AnalyzeOk(w) \/ AnalyzeErr(w)
    \/ SetDone(w) \/ SetFailed(w) \/ RecordFailure(w) \/ Archive(w)

Next ==
    \/ \E S \in SUBSET Jobs : Submit(S)
    \/ \E w \in Workers :
          \/ Step(w)
          \/ HeartbeatTick(w)
          \/ DbError(w) \/ Crash(w) \/ Restart(w)
          \/ \E j \in Jobs, label \in {"idle", "down"} : LostRead(w, j, label)
    \/ \E j \in Jobs : ExtendLands(j) \/ ExtendFails(j) \/ Lapse(j) \/ Slip(j)

Spec == Init /\ [][Next]_vars

\* A loop that is up keeps running, an analysis ends one way or the other, a
\* stopped loop is started again, and an abandoned lease runs out.
Fairness ==
    /\ \A w \in Workers : WF_vars(Step(w)) /\ WF_vars(Restart(w))
    /\ \A j \in Jobs : WF_vars(Lapse(j))

FairSpec == Spec /\ Fairness
-----------------------------------------------------------------------------
(* Properties.                                                             *)

\* The table's CHECK constraint `jobs_result_xor_error`.
RowOK(j) ==
    /\ status[j] \in {"absent"} \cup NonTerminal => result[j] = 0 /\ ~error[j]
    /\ status[j] = "done" => result[j] # 0 /\ ~error[j]
    /\ status[j] = "failed" => result[j] = 0 /\ error[j]

\* Every variable has its type, a loop holds a message exactly while it handles
\* one, and no write of any interleaving breaks the table's CHECK constraint.
TypeOK ==
    /\ status \in [Jobs -> {"absent"} \cup NonTerminal \cup Terminal]
    /\ result \in [Jobs -> Nat]
    /\ error \in [Jobs -> BOOLEAN] /\ lastError \in [Jobs -> BOOLEAN]
    /\ message \in [Jobs -> {"none", "visible", "hidden", "archived"}]
    /\ readCt \in [Jobs -> Nat] /\ starts \in [Jobs -> Nat]
    /\ extending \in SUBSET Jobs
    /\ pc \in [Workers -> PCs]
    /\ cur \in [Workers -> Jobs \cup {NoJob}]
    /\ ct \in [Workers -> Nat]
    /\ faults \in 0..MaxFaults /\ slips \in 0..MaxSlips
    /\ \A w \in Workers : cur[w] = NoJob <=> pc[w] \in {"idle", "down"}
    /\ \A j \in Jobs : RowOK(j)

\* A job that has not settled still has its message in the queue: whatever
\* crashes, fails or is redelivered, no accepted work is dropped.
NoLostJob ==
    \A j \in Jobs : status[j] \in NonTerminal => message[j] \in {"visible", "hidden"}

\* Handlers that work on an attempt at j, rather than settle or archive it.
Attempting(j) ==
    {w \in Workers : /\ cur[w] = j
                     /\ pc[w] \in {"set_running", "analyzing", "set_done", "record_failure"}}

\* A job is given up only when its attempts are used up and over, but for what
\* went wrong: at least `max_attempts` analyses were started, less one for each
\* crash, failed statement, lost read or lost lease, and no more attempts still
\* run then, or report later, than leases were lost under a handler.
PatientFailure ==
    \A j \in Jobs : status[j] = "failed" =>
        /\ starts[j] + faults + slips >= MaxAttempts
        /\ Cardinality(Attempting(j)) <= slips

\* As long as no lease was lost under a handler, a message has one handler at
\* most: late heartbeats, crashes and redeliveries do not add a second.
LeaseExclusive ==
    slips = 0 => \A v, w \in Workers : cur[v] # NoJob /\ cur[v] = cur[w] => v = w

\* Without a fault or a slip no settled job is analysed again, so an analysis
\* always has an unsettled row to write its outcome to.
NoWastedAnalysis ==
    faults = 0 /\ slips = 0 =>
        \A w \in Workers : pc[w] = "analyzing" => status[cur[w]] = "running"

\* The first terminal write wins: handlers that come later, with the result of
\* an older or a newer delivery, change nothing of a settled row.
SettledRowFinal ==
    [][\A j \in Jobs : status[j] \in Terminal =>
          /\ status'[j] = status[j] /\ result'[j] = result[j]
          /\ error'[j] = error[j] /\ lastError'[j] = lastError[j]]_vars

\* The queue keeps the promise JobLifecycle makes to clients: batches appear
\* whole, at most `max_attempts` analyses start, a result comes from one of
\* them, and what has settled stays so.
Lifecycle == INSTANCE JobLifecycle WITH attempts <- starts
ImplementsLifecycle == Lifecycle!Spec

\* ... and, its loops being scheduled, every accepted job settles: through
\* failing analyses, crashes, lost reads and lost leases.
SettlesLifecycle == Lifecycle!LiveSpec

\* The message of every settled job leaves the queue in the end, redelivered
\* or not: the queue does not fill up with finished work.
QueueDrains ==
    \A j \in Jobs : status[j] \in Terminal ~> message[j] = "archived"
=============================================================================
