---------------------------- MODULE WorkerClient ----------------------------
(***************************************************************************)
(* The worker's end (src/src/cluster/client.rs): a state machine that      *)
(* dials, serves and backs off; one I/O loop per session, which stops      *)
(* reading AND writing while it waits for a free slot; and the analyses,   *)
(* which hold a slot until their reply is accepted by the channel of the   *)
(* session they came from.  Slots are shared by all sessions.              *)
(***************************************************************************)
EXTENDS ClusterWire

VARIABLES
    cstate,   \* "connecting", "serving", "backoff", "stopped", "lost"
    session,  \* the session being served, or the last one
    parked,   \* the job whose dispatch waits for a slot, as a sequence of 0 or 1
    task,     \* task[p]: the analysis that holds slot p, or NoTask
    results   \* the session's outbound channel, of capacity Slots + 1

clientVars == <<cstate, session, parked, task, results>>

Permits == 1..Slots
NoTask == [phase |-> "free"]
Tasks == [phase : {"running"}, session : Sessions, job : Jobs]
         \cup [phase : {"replying"}, session : Sessions, job : Jobs, outcome : Outcomes]

ClientInit ==
    /\ cstate = "connecting"
    /\ session = 0
    /\ parked = <<>>
    /\ task = [p \in Permits |-> NoTask]
    /\ results = <<>>

\* `on_connecting`: the socket is up and Hello is on it.
Dial ==
    /\ cstate = "connecting"
    /\ session < MaxSessions
    /\ session' = session + 1
    /\ link' = [link EXCEPT ![session + 1] = "up"]
    /\ cstate' = "serving"
    /\ UNCHANGED <<toWorker, toServer, parked, task, results>>

DialFails ==
    /\ cstate = "connecting"
    /\ cstate' = "backoff"
    /\ UNCHANGED <<wireVars, session, parked, task, results>>

Redial ==
    /\ cstate = "backoff"
    /\ cstate' = "connecting"
    /\ UNCHANGED <<wireVars, session, parked, task, results>>

\* The serving loop returns: socket and channel are dropped with the session.
LeaveSession(next) ==
    /\ cstate' = next
    /\ results' = <<>>
    /\ link' = [link EXCEPT ![session] = "down"]
    /\ toWorker' = [toWorker EXCEPT ![session] = <<>>]
    /\ UNCHANGED <<toServer, session, parked, task>>

Serving == cstate = "serving" /\ parked = <<>>

\* A job is read; its dispatch waits for a slot, and the loop with it.
ReadJob ==
    /\ Serving
    /\ toWorker[session] # <<>>
    /\ parked' = <<Head(toWorker[session])>>
    /\ toWorker' = [toWorker EXCEPT ![session] = Tail(@)]
    /\ UNCHANGED <<link, toServer, cstate, session, task, results>>

\* Mutant: a job that finds no free slot is dropped.
StartJobOrDrop(p) ==
    /\ parked # <<>>
    /\ task' = [task EXCEPT ![p] = IF @ # NoTask THEN @ ELSE
                   [phase |-> "running", session |-> session, job |-> Head(parked)]]
    /\ parked' = <<>>
    /\ UNCHANGED <<wireVars, cstate, session, results>>

StartJob(p) ==
    /\ parked # <<>>
    /\ task[p] = NoTask
    /\ task' = [task EXCEPT ![p] =
                   [phase |-> "running", session |-> session, job |-> Head(parked)]]
    /\ parked' = <<>>
    /\ UNCHANGED <<wireVars, cstate, session, results>>

SendResult ==
    /\ Serving
    /\ link[session] = "up"
    /\ results # <<>>
    /\ toServer' = [toServer EXCEPT ![session] = Append(@, Head(results))]
    /\ results' = Tail(results)
    /\ UNCHANGED <<link, toWorker, cstate, session, parked, task>>

\* The socket has closed or failed, under a read or under a send.
SocketEnds == Serving /\ link[session] = "down" /\ LeaveSession("backoff")

\* The token is seen in every state, but not while a dispatch is parked.
ClientStops ==
    \/ Serving /\ LeaveSession("stopped")
    \/ /\ cstate \in {"connecting", "backoff"}
       /\ cstate' = "stopped"
       /\ UNCHANGED <<wireVars, session, parked, task, results>>

\* The engine answers (module KataGoOwner is about that), well or badly.
TaskEnds(p, outcome) ==
    /\ task[p].phase = "running"
    /\ task' = [task EXCEPT ![p] = [phase |-> "replying", session |-> task[p].session,
                                    job |-> task[p].job, outcome |-> outcome]]
    /\ UNCHANGED <<wireVars, cstate, session, parked, results>>

SessionGone(s) == s # session \/ cstate # "serving"

\* Mutant: a channel of one.
NarrowRoom == Len(results) < 1

ReplyRoom == Len(results) < Slots + 1

\* The reply is posted, when the channel has room for it; or its session has
\* ended and it is dropped.  Either way the slot is free again.
TaskReplies(p) ==
    /\ task[p].phase = "replying"
    /\ IF SessionGone(task[p].session)
       THEN UNCHANGED results
       ELSE /\ ReplyRoom
            /\ results' = Append(results, [job |-> task[p].job, outcome |-> task[p].outcome])
    /\ task' = [task EXCEPT ![p] = NoTask]
    /\ UNCHANGED <<wireVars, cstate, session, parked>>

\* The worker dies.  The kernel closes its socket ("down"), unless the host
\* goes with it and nothing tells the orchestrator ("silent").
WorkerDies(sign) ==
    /\ cstate = "serving"
    /\ link' = [link EXCEPT ![session] = IF @ = "up" THEN sign ELSE @]
    /\ toWorker' = [toWorker EXCEPT ![session] = <<>>]
    /\ cstate' = "lost"
    /\ parked' = <<>>
    /\ task' = [p \in Permits |-> NoTask]
    /\ results' = <<>>
    /\ UNCHANGED <<toServer, session>>

WorkerRestarts ==
    /\ cstate = "lost"
    /\ cstate' = "connecting"
    /\ UNCHANGED <<wireVars, session, parked, task, results>>

ClientLoop == ReadJob \/ SendResult \/ SocketEnds \/ \E p \in Permits : StartJob(p)

TaskStep(p) == TaskReplies(p) \/ \E outcome \in Outcomes : TaskEnds(p, outcome)

ClientNext ==
    \/ Dial \/ DialFails \/ Redial \/ ClientStops
    \/ WorkerDies("down") \/ WorkerRestarts
    \/ ClientLoop
    \/ \E p \in Permits : TaskStep(p)

ClientFairness ==
    /\ WF_clientVars(ReadJob) /\ SF_clientVars(SendResult) /\ WF_clientVars(SocketEnds)
    /\ WF_clientVars(\E p \in Permits : StartJob(p))
    /\ \A p \in Permits : WF_clientVars(TaskStep(p))

ClientTypeOK ==
    /\ cstate \in {"connecting", "serving", "backoff", "stopped", "lost"}
    /\ session \in 0..MaxSessions
    /\ parked \in Seq(Jobs) /\ Len(parked) <= 1
    /\ task \in [Permits -> Tasks \cup {NoTask}]
    /\ results \in Seq(Results) /\ Len(results) <= Slots + 1
=============================================================================
