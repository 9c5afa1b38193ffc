----------------------------- MODULE ClusterWire ----------------------------
(***************************************************************************)
(* What the orchestrator and a worker share: the WebSocket of each session *)
(* the worker opens, one after the other.  A frame is a job (a JobRequest) *)
(* one way, a job with its outcome (a Result) the other.                   *)
(***************************************************************************)
EXTENDS Naturals, Sequences, FiniteSets

CONSTANTS
    Jobs,
    Slots,        \* what the worker advertises in its Hello
    MaxSessions   \* bound on the sessions the worker opens

ASSUME SlotsAssumption == Slots \in 1..64      \* the server clamps to this
ASSUME SessionsAssumption == MaxSessions \in Nat

VARIABLES
    link,      \* link[s]: "none", "up", "down", or "silent" (the worker's host
               \* is gone, and nothing tells the orchestrator)
    toWorker,  \* toWorker[s]: jobs on their way to the worker
    toServer   \* toServer[s]: results on their way back

wireVars == <<link, toWorker, toServer>>

Sessions == 1..MaxSessions
Outcomes == {"ok", "err"}
Results == [job : Jobs, outcome : Outcomes]

WireInit ==
    /\ link = [s \in Sessions |-> "none"]
    /\ toWorker = [s \in Sessions |-> <<>>]
    /\ toServer = [s \in Sessions |-> <<>>]

\* The connection breaks under both ends.
Cut(s) ==
    /\ link[s] = "up"
    /\ link' = [link EXCEPT ![s] = "down"]
    /\ UNCHANGED <<toWorker, toServer>>

WireTypeOK ==
    /\ link \in [Sessions -> {"none", "up", "down", "silent"}]
    /\ toWorker \in [Sessions -> Seq(Jobs)]
    /\ toServer \in [Sessions -> Seq(Results)]
=============================================================================
