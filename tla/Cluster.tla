------------------------------- MODULE Cluster ------------------------------
(***************************************************************************)
(* One worker and the orchestrator, over the sockets the worker opens one  *)
(* after the other.  Two sessions can overlap: the orchestrator may still  *)
(* be tearing the old one down, or not have noticed its end, when the      *)
(* worker is back, and the worker may still be busy with its jobs.         *)
(***************************************************************************)
EXTENDS OrchestratorSession, WorkerClient

vars == <<wireVars, serverVars, clientVars>>

Init == WireInit /\ ServerInit /\ ClientInit

Next ==
    \/ ServerNext /\ UNCHANGED clientVars
    \/ ClientNext /\ UNCHANGED serverVars
    \/ \E s \in Sessions : Cut(s) /\ UNCHANGED <<serverVars, clientVars>>

Spec == Init /\ [][Next]_vars

\* Tasks that can run do; analyses end; a send to a socket that keeps being
\* ready is not starved by reads.
FairSpec == Spec /\ ServerFairness /\ ClientFairness

\* What is sent to a host that is gone is never acknowledged, and TCP gives the
\* connection up.  Nothing else does: neither end sends pings or sets a timeout.
SendTimesOut ==
    /\ \E s \in Sessions :
          /\ link[s] = "silent"
          /\ toWorker[s] # <<>>
          /\ link' = [link EXCEPT ![s] = "down"]
    /\ UNCHANGED <<toWorker, toServer, serverVars, clientVars>>

\* As FairSpec, with a worker's host that may vanish.
VanishSpec ==
    /\ Init
    /\ [][Next \/ SendTimesOut \/ (WorkerDies("silent") /\ UNCHANGED serverVars)]_vars
    /\ ServerFairness /\ ClientFairness /\ WF_vars(SendTimesOut)

-----------------------------------------------------------------------------
\* Every variable has its type; channels stay within their capacities.
TypeOK == WireTypeOK /\ ServerTypeOK /\ ClientTypeOK

Awaits(s, l) == lpc[s][l] = "await"
Unresolved(s, l) == Awaits(s, l) /\ waiter[s][l] = "waiting"
Attached(s) == session = s /\ cstate = "serving"

\* The permits that work for session s.
Busy(s) == {p \in Permits : task[p] # NoTask /\ task[p].session = s}

\* The stages of session s between a lease loop and its result.
InFlight(s) ==
    Len(out[s]) + Len(toWorker[s]) + Len(toServer[s]) + Cardinality(Busy(s))
    + IF Attached(s) THEN Len(parked) + Len(results) ELSE 0

InPipeline(s, j) ==
    \/ \E i \in DOMAIN out[s] : out[s][i] = j
    \/ \E i \in DOMAIN toWorker[s] : toWorker[s][i] = j
    \/ \E i \in DOMAIN toServer[s] : toServer[s][i].job = j
    \/ \E p \in Busy(s) : task[p].job = j
    \/ Attached(s) /\ \/ \E i \in DOMAIN parked : parked[i] = j
                      \/ \E i \in DOMAIN results : results[i].job = j

\* "A worker never has more than `slots` jobs in flight", in one session and as
\* long as no lease is lost under a handler; each lost lease may add one.
InFlightWithinSlots == \A s \in Sessions : InFlight(s) <= Slots + slips

\* The serving loop waits for a slot, every slot for room in the channel that
\* loop would drain.  Nothing gets the client out of it: not the end of the
\* socket, nor the shutdown token.
MutualWait ==
    /\ cstate = "serving" /\ parked # <<>> /\ ~ReplyRoom
    /\ \A p \in Permits : task[p].phase = "replying" /\ task[p].session = session

\* The orchestrator's restraint and the channel's capacity keep the client out of
\* it, until Slots + 2 leases are lost; after that it does happen.
NoMutualWait == slips <= Slots + 1 => ~MutualWait

\* On a connection that stands, a loop that waits has its job, or the answer
\* to it, somewhere on the way: nothing that is dropped at the end of an older
\* session, by an overwritten waiter or by a busy client leaves it waiting for
\* an answer nobody will give.
NothingLostInFlight ==
    \A s \in Sessions, l \in Loops :
        Unresolved(s, l) /\ phase[s] = "open" /\ link[s] = "up" =>
            InPipeline(s, job[s][l])

\* Teardown fails every job whose waiter was registered when it cleared the
\* map, the ones not yet sent included.
TeardownFailsRegistered ==
    \A s \in Sessions, l \in Loops :
        phase[s] \in {"cleared", "closed"} /\ lpc[s][l] \in {"send", "await"} /\ ~late[s][l] =>
            waiter[s][l] # "waiting"

\* A loop whose waiter was registered in time gets an answer or an error, over
\* broken connections, reconnects, worker deaths and shutdowns.
EveryWaiterResolved ==
    \A s \in Sessions, l \in Loops : (Awaits(s, l) /\ ~late[s][l]) ~> ~Awaits(s, l)

\* "Teardown: stop this connection's lease loops and fail anything still in
\* flight": once a session is closed no loop of it is left waiting.
NoOrphanWaiter ==
    \A s \in Sessions, l \in Loops : phase[s] = "closed" => ~Unresolved(s, l)

\* "A remote worker crash is redelivered exactly like a local one": whatever
\* becomes of the worker, the loop that waits for it does not wait for ever.
LostWorkerRedelivers ==
    \A s \in Sessions, l \in Loops :
        (Awaits(s, l) /\ cstate = "lost" /\ ~late[s][l]) ~> ~Awaits(s, l)
=============================================================================
