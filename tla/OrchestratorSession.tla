------------------------ MODULE OrchestratorSession ------------------------
(***************************************************************************)
(* The orchestrator's end of a worker's socket (src/src/cluster/server.rs):*)
(* `slots` lease loops that share one map of waiters and one outbound      *)
(* channel, and the I/O loop that moves jobs and results.  The queue is    *)
(* reduced to what a loop sees of it (JobQueue has the rest): a job is     *)
(* there to be leased, comes back when its handler fails or its lease is   *)
(* lost, and is gone once its result is stored.                            *)
(***************************************************************************)
EXTENDS ClusterWire

CONSTANTS
    MaxSlips,   \* bound on leases lost under a handler
    NoJob       \* what an idle loop handles

ASSUME SlipsAssumption == MaxSlips \in Nat
ASSUME NoJobAssumption == NoJob \notin Jobs

VARIABLES
    queue,    \* jobs a lease loop can be handed
    done,     \* jobs whose result was stored and whose message was archived
    slips,
    stopping, \* the application's shutdown token
    phase,    \* phase[s]: "none", "open", "cancelled", "cleared", "closed"
    pending,  \* pending[s][j]: the loop whose waiter is registered for j, or 0
    out,      \* out[s]: the outbound channel of capacity Slots
    lpc,      \* lpc[s][l]: where lease loop l of session s is
    job,      \* job[s][l]: the job it handles
    waiter,   \* waiter[s][l]: its oneshot: "waiting", "dropped" or an outcome
    late      \* history: registered after the session's waiters were cleared

serverVars ==
    <<queue, done, slips, stopping, phase, pending, out, lpc, job, waiter, late>>

Loops == 1..Slots
NoWaiters == [j \in Jobs |-> 0]
Cancelled(s) == stopping \/ phase[s] # "open"

ServerInit ==
    /\ queue = Jobs
    /\ done = {}
    /\ slips = 0
    /\ stopping = FALSE
    /\ phase = [s \in Sessions |-> "none"]
    /\ pending = [s \in Sessions |-> NoWaiters]
    /\ out = [s \in Sessions |-> <<>>]
    /\ lpc = [s \in Sessions |-> [l \in Loops |-> "none"]]
    /\ job = [s \in Sessions |-> [l \in Loops |-> NoJob]]
    /\ waiter = [s \in Sessions |-> [l \in Loops |-> "dropped"]]
    /\ late = [s \in Sessions |-> [l \in Loops |-> FALSE]]

LoopGoto(s, l, label) == lpc' = [lpc EXCEPT ![s][l] = label]

\* The Hello is read; the lease loops are spawned.
Accept(s) ==
    /\ phase[s] = "none"
    /\ link[s] # "none"
    /\ phase' = [phase EXCEPT ![s] = "open"]
    /\ lpc' = [lpc EXCEPT ![s] = [l \in Loops |-> "idle"]]
    /\ UNCHANGED <<wireVars, queue, done, slips, stopping, pending, out, job, waiter, late>>

-----------------------------------------------------------------------------
(* A lease loop.                                                           *)

LoopExits(s, l) ==
    /\ lpc[s][l] = "idle"
    /\ Cancelled(s)
    /\ LoopGoto(s, l, "exited")
    /\ UNCHANGED <<wireVars, queue, done, slips, stopping, phase, pending, out, job, waiter, late>>

\* A message is leased.  The row's update, still to come, is slow enough for
\* anything to happen before the waiter is registered.
LeaseJob(s, l, j) ==
    /\ lpc[s][l] = "idle"
    /\ ~Cancelled(s)
    /\ j \in queue
    /\ queue' = queue \ {j}
    /\ job' = [job EXCEPT ![s][l] = j]
    /\ LoopGoto(s, l, "register")
    /\ UNCHANGED <<wireVars, done, slips, stopping, phase, pending, out, waiter, late>>

\* The map holds one sender per job: a waiter that was there is dropped.
Register(s, l) ==
    /\ lpc[s][l] = "register"
    /\ LET j == job[s][l] IN
       /\ waiter' = [waiter EXCEPT ![s] = [k \in Loops |->
                        IF k = l THEN "waiting"
                        ELSE IF k = pending[s][j] THEN "dropped" ELSE @[k]]]
       /\ pending' = [pending EXCEPT ![s][j] = l]
    /\ late' = [late EXCEPT ![s][l] = phase[s] \in {"cleared", "closed"}]
    /\ LoopGoto(s, l, "send")
    /\ UNCHANGED <<wireVars, queue, done, slips, stopping, phase, out, job>>

\* Mutant: an unbounded outbound channel.
SendJobUnbounded(s, l) ==
    /\ lpc[s][l] = "send"
    /\ phase[s] # "closed"
    /\ out' = [out EXCEPT ![s] = Append(@, job[s][l])]
    /\ LoopGoto(s, l, "await")
    /\ UNCHANGED <<wireVars, queue, done, slips, stopping, phase, pending, job, waiter, late>>

\* The receiver lives until the session's task returns.
SendJob(s, l) ==
    /\ lpc[s][l] = "send"
    /\ phase[s] # "closed"
    /\ Len(out[s]) < Slots
    /\ out' = [out EXCEPT ![s] = Append(@, job[s][l])]
    /\ LoopGoto(s, l, "await")
    /\ UNCHANGED <<wireVars, queue, done, slips, stopping, phase, pending, job, waiter, late>>

\* Some other handler, of this or of another session, works on the job of l.
HeldElsewhere(s, l) ==
    \E t \in Sessions, k \in Loops : <<t, k>> # <<s, l>> /\ job[t][k] = job[s][l]

\* Handler and lease are over: the outcome is stored and the message archived,
\* or the message comes back when its timeout lapses.
Finish(s, l, outcome) ==
    /\ IF outcome = "ok"
       THEN done' = done \cup {job[s][l]} /\ queue' = queue \ {job[s][l]}
       ELSE /\ queue' = IF HeldElsewhere(s, l) THEN queue
                        ELSE queue \cup ({job[s][l]} \ done)
            /\ UNCHANGED done
    /\ LoopGoto(s, l, "idle")
    /\ job' = [job EXCEPT ![s][l] = NoJob]
    /\ late' = [late EXCEPT ![s][l] = FALSE]
    /\ UNCHANGED <<wireVars, slips, stopping, phase, out>>

\* The receiver is gone.  The failed sender unregisters whatever waiter the map
\* now holds for the job.
SendFails(s, l) ==
    /\ lpc[s][l] = "send"
    /\ phase[s] = "closed"
    /\ Finish(s, l, "err")
    /\ LET j == job[s][l] IN
       /\ waiter' = [waiter EXCEPT ![s] = [k \in Loops |->
                        IF k \in {l, pending[s][j]} THEN "dropped" ELSE @[k]]]
       /\ pending' = [pending EXCEPT ![s][j] = 0]

\* Mutant: the wait times out, and nobody tells the worker.
WakeAnyTime(s, l) ==
    /\ lpc[s][l] = "await"
    /\ Finish(s, l, IF waiter[s][l] = "ok" THEN "ok" ELSE "err")
    /\ waiter' = [waiter EXCEPT ![s][l] = "dropped"]
    /\ UNCHANGED pending

\* `rx.await` returns: an outcome was sent, or the sender was dropped.
Wake(s, l) ==
    /\ lpc[s][l] = "await"
    /\ waiter[s][l] # "waiting"
    /\ Finish(s, l, IF waiter[s][l] = "ok" THEN "ok" ELSE "err")
    /\ waiter' = [waiter EXCEPT ![s][l] = "dropped"]
    /\ UNCHANGED pending

\* The lease of a job is lost while a loop still works on it.
LeaseSlips(j) ==
    /\ slips < MaxSlips
    /\ j \notin queue \cup done
    /\ slips' = slips + 1
    /\ queue' = queue \cup {j}
    /\ UNCHANGED <<wireVars, done, stopping, phase, pending, out, lpc, job, waiter, late>>

-----------------------------------------------------------------------------
(* The I/O loop and its end.                                               *)

Forward(s) ==
    /\ phase[s] = "open"
    /\ out[s] # <<>>
    /\ out' = [out EXCEPT ![s] = Tail(@)]
    /\ IF link[s] = "down"          \* the send fails: leave the loop
       THEN phase' = [phase EXCEPT ![s] = "cancelled"] /\ UNCHANGED toWorker
       ELSE toWorker' = [toWorker EXCEPT ![s] = Append(@, Head(out[s]))]
            /\ UNCHANGED phase
    /\ UNCHANGED <<link, toServer, queue, done, slips, stopping, pending, lpc, job, waiter, late>>

\* Mutant: only good outcomes complete a job.
CompleteJobIfOk(s) ==
    /\ phase[s] = "open"
    /\ toServer[s] # <<>>
    /\ toServer' = [toServer EXCEPT ![s] = Tail(@)]
    /\ LET r == Head(toServer[s])
           l == IF r.outcome = "ok" THEN pending[s][r.job] ELSE 0
       IN /\ waiter' = IF l = 0 THEN waiter ELSE [waiter EXCEPT ![s][l] = r.outcome]
          /\ pending' = IF l = 0 THEN pending ELSE [pending EXCEPT ![s][r.job] = 0]
    /\ UNCHANGED <<link, toWorker, queue, done, slips, stopping, phase, out, lpc, job, late>>

\* `complete_job`: an outcome nobody waits for is dropped.
CompleteJob(s) ==
    /\ phase[s] = "open"
    /\ toServer[s] # <<>>
    /\ toServer' = [toServer EXCEPT ![s] = Tail(@)]
    /\ LET r == Head(toServer[s])
           l == pending[s][r.job]
       IN /\ waiter' = IF l = 0 THEN waiter ELSE [waiter EXCEPT ![s][l] = r.outcome]
          /\ pending' = [pending EXCEPT ![s][r.job] = 0]
    /\ UNCHANGED <<link, toWorker, queue, done, slips, stopping, phase, out, lpc, job, late>>

\* Mutant: the end of the socket does not end the loop.
BreakOnShutdown(s) ==
    /\ phase[s] = "open"
    /\ stopping
    /\ phase' = [phase EXCEPT ![s] = "cancelled"]
    /\ UNCHANGED <<wireVars, queue, done, slips, stopping, pending, out, lpc, job, waiter, late>>

\* The socket has ended, or the application shuts down.
Break(s) ==
    /\ phase[s] = "open"
    /\ link[s] = "down" \/ stopping
    /\ phase' = [phase EXCEPT ![s] = "cancelled"]
    /\ UNCHANGED <<wireVars, queue, done, slips, stopping, pending, out, lpc, job, waiter, late>>

\* Mutant: teardown forgets the waiters.
ClearNothing(s) ==
    /\ phase[s] = "cancelled"
    /\ phase' = [phase EXCEPT ![s] = "cleared"]
    /\ UNCHANGED <<wireVars, queue, done, slips, stopping, pending, out, lpc, job, waiter, late>>

\* `pending.lock().await.clear()` drops every registered sender.
ClearWaiters(s) ==
    /\ phase[s] = "cancelled"
    /\ phase' = [phase EXCEPT ![s] = "cleared"]
    /\ waiter' = [waiter EXCEPT ![s] = [l \in Loops |->
                     IF \E j \in Jobs : pending[s][j] = l THEN "dropped" ELSE @[l]]]
    /\ pending' = [pending EXCEPT ![s] = NoWaiters]
    /\ UNCHANGED <<wireVars, queue, done, slips, stopping, out, lpc, job, late>>

\* The task returns: socket and receiver are dropped with its locals.
Close(s) ==
    /\ phase[s] = "cleared"
    /\ phase' = [phase EXCEPT ![s] = "closed"]
    /\ out' = [out EXCEPT ![s] = <<>>]
    /\ link' = [link EXCEPT ![s] = IF @ = "up" THEN "down" ELSE @]
    /\ toServer' = [toServer EXCEPT ![s] = <<>>]
    /\ UNCHANGED <<toWorker, queue, done, slips, stopping, pending, lpc, job, waiter, late>>

Shutdown ==
    /\ ~stopping
    /\ stopping' = TRUE
    /\ UNCHANGED <<wireVars, queue, done, slips, phase, pending, out, lpc, job, waiter, late>>

LoopStep(s, l) ==
    \/ LoopExits(s, l) \/ Register(s, l)
    \/ SendJob(s, l) \/ SendFails(s, l) \/ Wake(s, l)
    \/ \E j \in Jobs : LeaseJob(s, l, j)

SessionStep(s) == Accept(s) \/ Break(s) \/ ClearWaiters(s) \/ Close(s)

ServerNext ==
    \/ \E s \in Sessions :
          \/ SessionStep(s) \/ Forward(s) \/ CompleteJob(s)
          \/ \E l \in Loops : LoopStep(s, l)
    \/ \E j \in Jobs : LeaseSlips(j)
    \/ Shutdown

ServerFairness ==
    \A s \in Sessions :
       /\ WF_serverVars(SessionStep(s))
       /\ WF_serverVars(Forward(s))
       /\ WF_serverVars(CompleteJob(s))
       /\ \A l \in Loops : WF_serverVars(LoopStep(s, l))

ServerTypeOK ==
    /\ queue \subseteq Jobs /\ done \subseteq Jobs
    /\ slips \in 0..MaxSlips
    /\ stopping \in BOOLEAN
    /\ phase \in [Sessions -> {"none", "open", "cancelled", "cleared", "closed"}]
    /\ pending \in [Sessions -> [Jobs -> 0..Slots]]
    /\ out \in [Sessions -> Seq(Jobs)]
    /\ \A s \in Sessions : Len(out[s]) <= Slots
    /\ lpc \in [Sessions -> [Loops -> {"none", "idle", "register", "send", "await", "exited"}]]
    /\ job \in [Sessions -> [Loops -> Jobs \cup {NoJob}]]
    /\ waiter \in [Sessions -> [Loops -> {"waiting", "dropped"} \cup Outcomes]]
    /\ late \in [Sessions -> [Loops -> BOOLEAN]]
=============================================================================
