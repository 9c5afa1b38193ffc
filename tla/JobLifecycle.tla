---------------------------- MODULE JobLifecycle ----------------------------
(***************************************************************************)
(* What katago-ws promises a client about a submitted game, with no queue, *)
(* lease or worker in sight: a job is accepted once, analysed a bounded    *)
(* number of times, and settles once, for good.                            *)
(***************************************************************************)
EXTENDS Naturals

CONSTANTS
    Jobs,         \* the identities the database can mint
    MaxAttempts   \* `worker.max_attempts`: analyses a job may be given

VARIABLES
    status,       \* status[j]: the lifecycle state a client sees
    attempts      \* attempts[j]: how many analyses of j were started

lvars == <<status, attempts>>

Accepted == {"queued", "running"}
Terminal == {"done", "failed"}
Statuses == {"absent"} \cup Accepted \cup Terminal

Init ==
    /\ status = [j \in Jobs |-> "absent"]
    /\ attempts = [j \in Jobs |-> 0]

\* A batch is accepted whole: every job of it appears in the same step.
Submit(S) ==
    /\ S # {}
    /\ \A j \in S : status[j] = "absent"
    /\ status' = [j \in Jobs |-> IF j \in S THEN "queued" ELSE status[j]]
    /\ UNCHANGED attempts

\* An analysis starts. A job that has already settled may be analysed once
\* more (a redelivery of work whose completion was not acknowledged), which
\* costs an attempt and changes nothing a client sees.
Attempt(j) ==
    /\ status[j] # "absent"
    /\ attempts[j] < MaxAttempts
    /\ attempts' = [attempts EXCEPT ![j] = @ + 1]
    /\ status' = [status EXCEPT ![j] = IF @ \in Accepted THEN "running" ELSE @]

\* The job gets its result; only an analysis that was started can produce one.
Complete(j) ==
    /\ status[j] \in Accepted
    /\ attempts[j] > 0
    /\ status' = [status EXCEPT ![j] = "done"]
    /\ UNCHANGED attempts

\* The service gives the job up.
GiveUp(j) ==
    /\ status[j] \in Accepted
    /\ status' = [status EXCEPT ![j] = "failed"]
    /\ UNCHANGED attempts

Settle(j) == Complete(j) \/ GiveUp(j)

Next ==
    \/ \E S \in SUBSET Jobs : Submit(S)
    \/ \E j \in Jobs : Attempt(j) \/ Settle(j)

\* The safety half of the promise.
Spec == Init /\ [][Next]_lvars

\* The whole promise: an accepted job settles.
LiveSpec == Spec /\ \A j \in Jobs : WF_lvars(Settle(j))
=============================================================================
