--------------------------- MODULE Cluster_proofs ---------------------------
(***************************************************************************)
(* Who waits for what.  For any jobs, slots and sessions: the waiter a     *)
(* result meets in the map is that of the loop that handles the job, a     *)
(* teardown reaches every waiter that was registered, and on a connection  *)
(* that stands no loop waits for an answer that is not on its way.  And no *)
(* more is on its way than there are slots and lost leases, which keeps    *)
(* the worker out of the wait that nothing ends.                           *)
(***************************************************************************)
EXTENDS Cluster, FiniteSetTheorems, TLAPS

Handling == {"register", "send", "await"}

\* A loop between its lease and its result has a job; before the Hello there
\* are no loops.
LoopInv ==
    \A s \in Sessions, l \in Loops :
        /\ lpc[s][l] \in Handling => job[s][l] \in Jobs
        /\ phase[s] = "none" => lpc[s][l] = "none"

\* The map and the waiters: an entry leads to a loop that still waits, for this
\* job; and a loop that waits for its job is the one the map leads to.
WaiterInv ==
    /\ \A s \in Sessions, j \in Jobs : pending[s][j] # 0 =>
          /\ lpc[s][pending[s][j]] \in {"send", "await"}
          /\ job[s][pending[s][j]] = j
          /\ waiter[s][pending[s][j]] = "waiting"
    /\ \A s \in Sessions, l \in Loops :
          lpc[s][l] \in {"send", "await"} /\ waiter[s][l] = "waiting" => pending[s][job[s][l]] = l

\* Only the session being served is connected; the next ones are fresh.
LinkInv ==
    /\ \A s \in Sessions :
          /\ link[s] = "up" => Attached(s)
          /\ s > session => phase[s] = "none" /\ link[s] = "none"
    /\ session = 0 => cstate # "serving" /\ parked = <<>>

Base == TypeOK /\ LoopInv /\ WaiterInv /\ LinkInv
IInv == Base /\ TeardownFailsRegistered /\ NothingLostInFlight

-----------------------------------------------------------------------------
(* Sequences.                                                              *)

LEMMA Appended ==
  ASSUME NEW S, NEW q \in Seq(S), NEW x \in S
  PROVE  /\ Append(q, x) \in Seq(S) /\ Len(Append(q, x)) = Len(q) + 1
         /\ Append(q, x)[Len(q) + 1] = x /\ Len(q) + 1 \in DOMAIN Append(q, x)
         /\ \A i \in DOMAIN q : i \in DOMAIN Append(q, x) /\ Append(q, x)[i] = q[i]
  OBVIOUS

LEMMA Taken ==
  ASSUME NEW S, NEW q \in Seq(S), q # <<>>
  PROVE  /\ Head(q) \in S /\ Tail(q) \in Seq(S) /\ Len(Tail(q)) < Len(q)
         /\ \A i \in DOMAIN q : q[i] = Head(q) \/ \E k \in DOMAIN Tail(q) : Tail(q)[k] = q[i]
<1>1. Head(q) = q[1] /\ Head(q) \in S /\ Tail(q) \in Seq(S) /\ Len(q) \in Nat \ {0}
  OBVIOUS
<1>2. Len(Tail(q)) = Len(q) - 1 /\ DOMAIN Tail(q) = 1..(Len(q) - 1)
      /\ \A k \in 1..(Len(q) - 1) : Tail(q)[k] = q[k + 1]
  OBVIOUS
<1>3. ASSUME NEW i \in DOMAIN q, i # 1
      PROVE  \E k \in DOMAIN Tail(q) : Tail(q)[k] = q[i]
  <2>1. i - 1 \in DOMAIN Tail(q) /\ Tail(q)[i - 1] = q[i]
    BY <1>1, <1>2, <1>3
  <2> QED
    BY <2>1
<1> QED
  BY <1>1, <1>2, <1>3

-----------------------------------------------------------------------------
(* The orchestrator's steps keep the types, the loops and the waiters.     *)

LEMMA ServerBase == Base /\ ServerNext /\ UNCHANGED clientVars => Base'
<1> SUFFICES ASSUME Base, ServerNext, UNCHANGED clientVars PROVE Base'
  OBVIOUS
<1> USE SlotsAssumption, SessionsAssumption DEF LoopGoto, Loops
<1>a. WireTypeOK /\ ServerTypeOK /\ LoopInv /\ WaiterInv /\ LinkInv
  BY DEF Base, TypeOK
<1>0. ClientTypeOK'
  BY DEF Base, TypeOK, ClientTypeOK, clientVars
<1>1. ASSUME NEW s \in Sessions, Accept(s) PROVE Base'
  <2>1. WireTypeOK'
    BY <1>1, <1>a DEF Accept, WireTypeOK, wireVars
  <2>2. ServerTypeOK'
    BY <1>1, <1>a DEF Accept, ServerTypeOK, WireTypeOK, LoopInv, Handling
  <2>3. LoopInv'
    BY <1>1, <1>a DEF Accept, LoopInv, Handling, ServerTypeOK
  <2>4. WaiterInv'
    BY <1>1, <1>a DEF Accept, WaiterInv, LoopInv, Handling, ServerTypeOK
  <2>5. LinkInv'
    BY <1>1, <1>a DEF Accept, LinkInv, Attached, WireTypeOK, ServerTypeOK, wireVars, clientVars
  <2> QED
    BY <1>0, <2>1, <2>2, <2>3, <2>4, <2>5 DEF Base, TypeOK
<1>2. ASSUME NEW s \in Sessions, Break(s) PROVE Base'
  <2>1. WireTypeOK'
    BY <1>2, <1>a DEF Break, WireTypeOK, wireVars
  <2>2. ServerTypeOK'
    BY <1>2, <1>a DEF Break, ServerTypeOK, WireTypeOK, LoopInv, Handling
  <2>3. LoopInv'
    BY <1>2, <1>a DEF Break, LoopInv, Handling, ServerTypeOK
  <2>4. WaiterInv'
    BY <1>2, <1>a DEF Break, WaiterInv, LoopInv, Handling, ServerTypeOK
  <2>5. LinkInv'
    BY <1>2, <1>a DEF Break, LinkInv, Attached, WireTypeOK, ServerTypeOK, wireVars, clientVars
  <2> QED
    BY <1>0, <2>1, <2>2, <2>3, <2>4, <2>5 DEF Base, TypeOK
<1>3. ASSUME NEW s \in Sessions, ClearWaiters(s) PROVE Base'
  <2>1. WireTypeOK'
    BY <1>3, <1>a DEF ClearWaiters, NoWaiters, WireTypeOK, wireVars
  <2>2. ServerTypeOK'
    BY <1>3, <1>a DEF ClearWaiters, NoWaiters, ServerTypeOK, WireTypeOK, LoopInv, Handling
  <2>3. LoopInv'
    BY <1>3, <1>a DEF ClearWaiters, NoWaiters, LoopInv, Handling, ServerTypeOK
  <2>4. WaiterInv'
    BY <1>3, <1>a DEF ClearWaiters, NoWaiters, WaiterInv, LoopInv, Handling, ServerTypeOK
  <2>5. LinkInv'
    BY <1>3, <1>a DEF ClearWaiters, NoWaiters, LinkInv, Attached, WireTypeOK, ServerTypeOK,
       wireVars, clientVars
  <2> QED
    BY <1>0, <2>1, <2>2, <2>3, <2>4, <2>5 DEF Base, TypeOK
<1>4. ASSUME NEW s \in Sessions, Close(s) PROVE Base'
  <2>1. WireTypeOK'
    BY <1>4, <1>a DEF Close, WireTypeOK, wireVars
  <2>2. ServerTypeOK'
    BY <1>4, <1>a DEF Close, ServerTypeOK, WireTypeOK, LoopInv, Handling
  <2>3. LoopInv'
    BY <1>4, <1>a DEF Close, LoopInv, Handling, ServerTypeOK
  <2>4. WaiterInv'
    BY <1>4, <1>a DEF Close, WaiterInv, LoopInv, Handling, ServerTypeOK
  <2>5. LinkInv'
    BY <1>4, <1>a DEF Close, LinkInv, Attached, WireTypeOK, ServerTypeOK, wireVars, clientVars
  <2> QED
    BY <1>0, <2>1, <2>2, <2>3, <2>4, <2>5 DEF Base, TypeOK
<1>5. ASSUME NEW s \in Sessions, Forward(s) PROVE Base'
  <2>0. Head(out[s]) \in Jobs /\ Tail(out[s]) \in Seq(Jobs) /\ Len(Tail(out[s])) <= Slots
    BY <1>a, <1>5, Taken DEF Forward, ServerTypeOK
  <2>00. Append(toWorker[s], Head(out[s])) \in Seq(Jobs)
    BY <1>a, <2>0 DEF WireTypeOK
  <2>1. WireTypeOK'
    BY <1>5, <1>a, <2>00 DEF Forward, WireTypeOK
  <2>2. ServerTypeOK'
    <3>1. out' \in [Sessions -> Seq(Jobs)] /\ \A t \in Sessions : Len(out'[t]) <= Slots
      BY <1>5, <1>a, <2>0 DEF Forward, ServerTypeOK
    <3>2. phase' \in [Sessions -> {"none", "open", "cancelled", "cleared", "closed"}]
      BY <1>5, <1>a DEF Forward, ServerTypeOK
    <3> QED
      BY <1>5, <1>a, <3>1, <3>2 DEF Forward, ServerTypeOK
  <2>3. LoopInv'
    BY <1>5, <1>a, <2>0 DEF Forward, LoopInv, Handling, ServerTypeOK
  <2>4. WaiterInv'
    BY <1>5, <1>a, <2>0 DEF Forward, WaiterInv, LoopInv, Handling, ServerTypeOK
  <2>5. LinkInv'
    BY <1>5, <1>a, <2>0 DEF Forward, LinkInv, Attached, WireTypeOK, ServerTypeOK, wireVars,
       clientVars
  <2> QED
    BY <1>0, <2>1, <2>2, <2>3, <2>4, <2>5 DEF Base, TypeOK
<1>6. ASSUME NEW s \in Sessions, CompleteJob(s) PROVE Base'
  <2>0. Head(toServer[s]) \in Results /\ Tail(toServer[s]) \in Seq(Results)
    BY <1>a, <1>6, Taken DEF CompleteJob, WireTypeOK
  <2> DEFINE r == Head(toServer[s])
             l == pending[s][r.job]
  <2>00. r.job \in Jobs /\ r.outcome \in Outcomes /\ l \in 0..Slots
    BY <1>a, <2>0 DEF Results, ServerTypeOK
  <2>01. /\ waiter' = IF l = 0 THEN waiter ELSE [waiter EXCEPT ![s][l] = r.outcome]
         /\ pending' = [pending EXCEPT ![s][r.job] = 0]
    BY <1>6 DEF CompleteJob
  <2>02. UNCHANGED <<queue, done, slips, stopping, phase, out, lpc, job, late>>
    BY <1>6 DEF CompleteJob
  <2>1. WireTypeOK'
    BY <1>6, <1>a, <2>0 DEF CompleteJob, Results, Outcomes, WireTypeOK, wireVars
  <2> HIDE DEF r, l
  <2>2. ServerTypeOK'
    <3>1. waiter' \in [Sessions -> [Loops -> {"waiting", "dropped"} \cup Outcomes]]
      BY <1>a, <2>00, <2>01 DEF ServerTypeOK
    <3>2. pending' \in [Sessions -> [Jobs -> 0..Slots]]
      BY <1>a, <2>00, <2>01 DEF ServerTypeOK
    <3> QED
      BY <1>a, <2>02, <3>1, <3>2 DEF ServerTypeOK
  <2>3. LoopInv'
    BY <1>6, <1>a, <2>0 DEF CompleteJob, Results, Outcomes, LoopInv, Handling, ServerTypeOK
  <2>4. WaiterInv'
    <3>1. \A t \in Sessions, j \in Jobs :
             pending'[t][j] = IF t = s /\ j = r.job THEN 0 ELSE pending[t][j]
      BY <1>a, <2>00, <2>01 DEF ServerTypeOK
    <3>2. \A t \in Sessions, k \in Loops :
             waiter'[t][k] = IF t = s /\ k = l THEN r.outcome ELSE waiter[t][k]
      BY <1>a, <2>00, <2>01 DEF ServerTypeOK, Loops
    <3>3. \A t \in Sessions, j \in Jobs : pending[t][j] # 0 => pending[t][j] \in Loops
      BY <1>a, SlotsAssumption DEF ServerTypeOK, Loops
    <3>4. r.outcome # "waiting" /\ (l # 0 => job[s][l] = r.job)
      BY <1>a, <2>00 DEF Outcomes, WaiterInv, l
    <3>5. \A t \in Sessions, j \in Jobs : pending'[t][j] # 0 =>
             /\ pending'[t][j] = pending[t][j]
             /\ waiter'[t][pending[t][j]] = waiter[t][pending[t][j]]
      BY <1>a, <2>00, <3>1, <3>2, <3>3, <3>4 DEF WaiterInv
    <3>6. \A t \in Sessions, k \in Loops :
             lpc[t][k] \in {"send", "await"} /\ waiter'[t][k] = "waiting" =>
                pending'[t][job[t][k]] = k
      <4> SUFFICES ASSUME NEW t \in Sessions, NEW k \in Loops,
                          lpc[t][k] \in {"send", "await"}, waiter'[t][k] = "waiting"
                   PROVE  pending'[t][job[t][k]] = k
        OBVIOUS
      <4>1. waiter[t][k] = "waiting" /\ ~(t = s /\ k = l)
        BY <3>2, <3>4
      <4>2. pending[t][job[t][k]] = k /\ job[t][k] \in Jobs
        BY <1>a, <4>1 DEF WaiterInv, LoopInv, Handling
      <4>3. ~(t = s /\ job[t][k] = r.job)
        BY <4>1, <4>2 DEF l
      <4> QED
        BY <3>1, <4>2, <4>3
    <3> QED
      BY <1>a, <2>02, <3>5, <3>6 DEF WaiterInv
  <2>5. LinkInv'
    BY <1>6, <1>a, <2>0 DEF CompleteJob, Results, Outcomes, LinkInv, Attached, WireTypeOK,
       ServerTypeOK, wireVars, clientVars
  <2> QED
    BY <1>0, <2>1, <2>2, <2>3, <2>4, <2>5 DEF Base, TypeOK
<1>7. ASSUME NEW s \in Sessions, NEW l \in Loops, LoopExits(s, l) PROVE Base'
  <2>1. WireTypeOK'
    BY <1>7, <1>a DEF LoopExits, WireTypeOK, wireVars
  <2>2. ServerTypeOK'
    BY <1>7, <1>a DEF LoopExits, ServerTypeOK, WireTypeOK, LoopInv, Handling
  <2>3. LoopInv'
    BY <1>7, <1>a DEF LoopExits, LoopInv, Handling, ServerTypeOK
  <2>4. WaiterInv'
    BY <1>7, <1>a DEF LoopExits, WaiterInv, LoopInv, Handling, ServerTypeOK
  <2>5. LinkInv'
    BY <1>7, <1>a DEF LoopExits, LinkInv, Attached, WireTypeOK, ServerTypeOK, wireVars, clientVars
  <2> QED
    BY <1>0, <2>1, <2>2, <2>3, <2>4, <2>5 DEF Base, TypeOK
<1>8. ASSUME NEW s \in Sessions, NEW l \in Loops, Register(s, l) PROVE Base'
  <2>1. WireTypeOK'
    BY <1>8, <1>a DEF Register, WireTypeOK, wireVars
  <2>2. ServerTypeOK'
    BY <1>8, <1>a DEF Register, ServerTypeOK, WireTypeOK, LoopInv, Handling
  <2>3. LoopInv'
    BY <1>8, <1>a, SMTT(20) DEF Register, LoopInv, Handling, ServerTypeOK
  <2>4. WaiterInv'
    BY <1>8, <1>a DEF Register, WaiterInv, LoopInv, Handling, ServerTypeOK
  <2>5. LinkInv'
    BY <1>8, <1>a DEF Register, LinkInv, Attached, WireTypeOK, ServerTypeOK, wireVars, clientVars
  <2> QED
    BY <1>0, <2>1, <2>2, <2>3, <2>4, <2>5 DEF Base, TypeOK
<1>9. ASSUME NEW s \in Sessions, NEW l \in Loops, SendJob(s, l) PROVE Base'
  <2>1. WireTypeOK'
    BY <1>9, <1>a, Appended DEF SendJob, WireTypeOK, wireVars
  <2>2. ServerTypeOK'
    BY <1>9, <1>a, Appended, SMTT(20) DEF SendJob, ServerTypeOK, LoopInv, Handling
  <2>3. LoopInv'
    BY <1>9, <1>a, Appended DEF SendJob, LoopInv, Handling, ServerTypeOK
  <2>4. WaiterInv'
    <3>1. /\ UNCHANGED <<pending, waiter, job>> /\ lpc[s][l] = "send"
          /\ lpc' = [lpc EXCEPT ![s][l] = "await"]
      BY <1>9 DEF SendJob
    <3>2. \A t \in Sessions, k \in Loops :
             lpc'[t][k] \in {"send", "await"} <=> lpc[t][k] \in {"send", "await"}
      BY <1>a, <3>1 DEF ServerTypeOK
    <3>3. \A t \in Sessions, j \in Jobs : pending[t][j] # 0 => pending[t][j] \in Loops
      BY <1>a, SlotsAssumption DEF ServerTypeOK, Loops
    <3> QED
      BY <1>a, <3>1, <3>2, <3>3 DEF WaiterInv
  <2>5. LinkInv'
    BY <1>9, <1>a, Appended DEF SendJob, LinkInv, Attached, WireTypeOK, ServerTypeOK, wireVars,
       clientVars
  <2> QED
    BY <1>0, <2>1, <2>2, <2>3, <2>4, <2>5 DEF Base, TypeOK
<1>10. ASSUME NEW s \in Sessions, NEW l \in Loops, SendFails(s, l) PROVE Base'
  <2>1. WireTypeOK'
    BY <1>10, <1>a DEF SendFails, Finish, WireTypeOK, wireVars
  <2>2. ServerTypeOK'
    BY <1>10, <1>a DEF SendFails, Finish, ServerTypeOK, WireTypeOK, LoopInv, Handling
  <2>3. LoopInv'
    BY <1>10, <1>a DEF SendFails, Finish, LoopInv, Handling, ServerTypeOK
  <2>4. WaiterInv'
    BY <1>10, <1>a DEF SendFails, Finish, WaiterInv, LoopInv, Handling, ServerTypeOK
  <2>5. LinkInv'
    BY <1>10, <1>a DEF SendFails, Finish, LinkInv, Attached, WireTypeOK, ServerTypeOK, wireVars,
       clientVars
  <2> QED
    BY <1>0, <2>1, <2>2, <2>3, <2>4, <2>5 DEF Base, TypeOK
<1>11. ASSUME NEW s \in Sessions, NEW l \in Loops, Wake(s, l) PROVE Base'
  <2>1. WireTypeOK'
    BY <1>11, <1>a DEF Wake, Finish, WireTypeOK, wireVars
  <2>2. ServerTypeOK'
    BY <1>11, <1>a DEF Wake, Finish, ServerTypeOK, WireTypeOK, LoopInv, Handling
  <2>3. LoopInv'
    BY <1>11, <1>a DEF Wake, Finish, LoopInv, Handling, ServerTypeOK
  <2>4. WaiterInv'
    <3>1. /\ UNCHANGED pending /\ lpc[s][l] = "await" /\ waiter[s][l] # "waiting"
          /\ waiter' = [waiter EXCEPT ![s][l] = "dropped"]
          /\ lpc' = [lpc EXCEPT ![s][l] = "idle"] /\ job' = [job EXCEPT ![s][l] = NoJob]
      BY <1>11 DEF Wake, Finish
    <3>2. /\ lpc'[s][l] = "idle"
          /\ \A t \in Sessions, k \in Loops : <<t, k>> # <<s, l>> =>
                lpc'[t][k] = lpc[t][k] /\ job'[t][k] = job[t][k] /\ waiter'[t][k] = waiter[t][k]
      BY <1>a, <3>1 DEF ServerTypeOK
    <3>3. \A t \in Sessions, j \in Jobs : pending[t][j] # 0 =>
             pending[t][j] \in Loops /\ <<t, pending[t][j]>> # <<s, l>>
      BY <1>a, <3>1, SlotsAssumption DEF WaiterInv, ServerTypeOK, Loops
    <3> QED
      BY <1>a, <3>1, <3>2, <3>3 DEF WaiterInv
  <2>5. LinkInv'
    BY <1>11, <1>a DEF Wake, Finish, LinkInv, Attached, WireTypeOK, ServerTypeOK, wireVars,
       clientVars
  <2> QED
    BY <1>0, <2>1, <2>2, <2>3, <2>4, <2>5 DEF Base, TypeOK
<1>12. ASSUME NEW s \in Sessions, NEW l \in Loops, NEW j \in Jobs, LeaseJob(s, l, j) PROVE Base'
  <2>1. WireTypeOK'
    BY <1>12, <1>a DEF LeaseJob, WireTypeOK, wireVars
  <2>2. ServerTypeOK'
    BY <1>12, <1>a DEF LeaseJob, ServerTypeOK, WireTypeOK, LoopInv, Handling
  <2>3. LoopInv'
    BY <1>12, <1>a DEF LeaseJob, LoopInv, Handling, ServerTypeOK
  <2>4. WaiterInv'
    BY <1>12, <1>a DEF LeaseJob, WaiterInv, LoopInv, Handling, ServerTypeOK
  <2>5. LinkInv'
    BY <1>12, <1>a DEF LeaseJob, LinkInv, Attached, WireTypeOK, ServerTypeOK, wireVars, clientVars
  <2> QED
    BY <1>0, <2>1, <2>2, <2>3, <2>4, <2>5 DEF Base, TypeOK
<1>13. ASSUME NEW j \in Jobs, LeaseSlips(j) PROVE Base'
  <2>1. WireTypeOK'
    BY <1>13, <1>a, SlipsAssumption DEF LeaseSlips, WireTypeOK, wireVars
  <2>2. ServerTypeOK'
    BY <1>13, <1>a, SlipsAssumption DEF LeaseSlips, ServerTypeOK, WireTypeOK, LoopInv, Handling
  <2>3. LoopInv'
    BY <1>13, <1>a, SlipsAssumption DEF LeaseSlips, LoopInv, Handling, ServerTypeOK
  <2>4. WaiterInv'
    BY <1>13, <1>a, SlipsAssumption DEF LeaseSlips, WaiterInv, LoopInv, Handling, ServerTypeOK
  <2>5. LinkInv'
    BY <1>13, <1>a, SlipsAssumption DEF LeaseSlips, LinkInv, Attached, WireTypeOK, ServerTypeOK,
       wireVars, clientVars
  <2> QED
    BY <1>0, <2>1, <2>2, <2>3, <2>4, <2>5 DEF Base, TypeOK
<1>14. CASE Shutdown
  <2>1. WireTypeOK'
    BY <1>14, <1>a DEF Shutdown, WireTypeOK, wireVars
  <2>2. ServerTypeOK'
    BY <1>14, <1>a DEF Shutdown, ServerTypeOK, WireTypeOK, LoopInv, Handling
  <2>3. LoopInv'
    BY <1>14, <1>a DEF Shutdown, LoopInv, Handling, ServerTypeOK
  <2>4. WaiterInv'
    BY <1>14, <1>a DEF Shutdown, WaiterInv, LoopInv, Handling, ServerTypeOK
  <2>5. LinkInv'
    BY <1>14, <1>a DEF Shutdown, LinkInv, Attached, WireTypeOK, ServerTypeOK, wireVars, clientVars
  <2> QED
    BY <1>0, <2>1, <2>2, <2>3, <2>4, <2>5 DEF Base, TypeOK
<1> QED
  BY <1>1, <1>2, <1>3, <1>4, <1>5, <1>6, <1>7, <1>8, <1>9, <1>10, <1>11, <1>12, <1>13, <1>14
     DEF ServerNext, SessionStep, LoopStep
-----------------------------------------------------------------------------
(* So do the worker's.                                                     *)

LEMMA ClientBase == Base /\ ClientNext /\ UNCHANGED serverVars => Base'
<1> SUFFICES ASSUME Base, ClientNext, UNCHANGED serverVars PROVE Base'
  OBVIOUS
<1> USE SlotsAssumption, SessionsAssumption DEF Sessions
<1>a. WireTypeOK /\ ClientTypeOK /\ LinkInv
  BY DEF Base, TypeOK
<1>0. ServerTypeOK' /\ LoopInv' /\ WaiterInv'
  BY DEF Base, TypeOK, serverVars, ServerTypeOK, LoopInv, WaiterInv
<1>1. CASE Dial
  <2>1. WireTypeOK'
    BY <1>1, <1>a DEF Dial, WireTypeOK, wireVars
  <2>2. ClientTypeOK'
    BY <1>1, <1>a DEF Dial, ClientTypeOK
  <2>3. LinkInv'
    BY <1>1, <1>a DEF Dial, LinkInv, Attached, WireTypeOK, ClientTypeOK, serverVars, wireVars
  <2> QED
    BY <1>0, <2>1, <2>2, <2>3 DEF Base, TypeOK
<1>2. CASE DialFails \/ Redial \/ WorkerRestarts
  <2>1. WireTypeOK'
    BY <1>2, <1>a DEF DialFails, Redial, WorkerRestarts, WireTypeOK, wireVars
  <2>2. ClientTypeOK'
    BY <1>2, <1>a DEF DialFails, Redial, WorkerRestarts, ClientTypeOK
  <2>3. LinkInv'
    BY <1>2, <1>a DEF DialFails, Redial, WorkerRestarts, LinkInv, Attached, WireTypeOK,
       ClientTypeOK, serverVars, wireVars
  <2> QED
    BY <1>0, <2>1, <2>2, <2>3 DEF Base, TypeOK
<1>3. CASE ClientStops \/ SocketEnds
  <2>0. <<>> \in Seq(Jobs)
    OBVIOUS
  <2>1. WireTypeOK'
    BY <1>3, <1>a, <2>0 DEF ClientStops, SocketEnds, Serving, LeaveSession, WireTypeOK, wireVars
  <2>2. ClientTypeOK'
    BY <1>3, <1>a, <2>0 DEF ClientStops, SocketEnds, Serving, LeaveSession, ClientTypeOK
  <2>3. LinkInv'
    <3>1. ASSUME NEW next \in {"backoff", "stopped"}, Serving, LeaveSession(next) PROVE LinkInv'
      <4>1. \A t \in Sessions : link'[t] = "up" => link[t] = "up" /\ t # session
        BY <1>a, <3>1 DEF LeaveSession, WireTypeOK
      <4>2. \A t \in Sessions : link'[t] # "up"
        BY <1>a, <4>1 DEF LinkInv, Attached
      <4>3. \A t \in Sessions : t > session => link'[t] = link[t]
        BY <1>a, <3>1 DEF LeaveSession, WireTypeOK, ClientTypeOK
      <4> QED
        BY <1>a, <3>1, <4>2, <4>3 DEF LeaveSession, LinkInv, serverVars
    <3>2. CASE cstate \in {"connecting", "backoff"} /\ cstate' = "stopped"
               /\ UNCHANGED <<wireVars, session, parked, task, results>>
      BY <1>a, <3>2 DEF LinkInv, Attached, serverVars, wireVars
    <3> QED
      BY <1>3, <3>1, <3>2 DEF ClientStops, SocketEnds
  <2> QED
    BY <1>0, <2>1, <2>2, <2>3 DEF Base, TypeOK
<1>4. CASE WorkerDies("down")
  <2>0. <<>> \in Seq(Jobs)
    OBVIOUS
  <2>1. WireTypeOK'
    BY <1>4, <1>a, <2>0 DEF WorkerDies, Tasks, NoTask, WireTypeOK, wireVars
  <2>2. ClientTypeOK'
    BY <1>4, <1>a, <2>0 DEF WorkerDies, Tasks, NoTask, ClientTypeOK
  <2>3. LinkInv'
    BY <1>4, <1>a, <2>0 DEF WorkerDies, Tasks, NoTask, LinkInv, Attached, WireTypeOK,
       ClientTypeOK, serverVars, wireVars
  <2> QED
    BY <1>0, <2>1, <2>2, <2>3 DEF Base, TypeOK
<1>5. CASE ReadJob
  <2>00. session \in Sessions
    BY <1>a, <1>5 DEF ReadJob, Serving, LinkInv, ClientTypeOK
  <2>0. Head(toWorker[session]) \in Jobs /\ Tail(toWorker[session]) \in Seq(Jobs)
    BY <1>a, <1>5, <2>00, Taken DEF ReadJob, WireTypeOK
  <2>1. WireTypeOK'
    BY <1>5, <1>a, <2>0 DEF ReadJob, Serving, WireTypeOK, wireVars
  <2>2. ClientTypeOK'
    BY <1>5, <1>a, <2>0 DEF ReadJob, Serving, ClientTypeOK
  <2>3. LinkInv'
    BY <1>5, <1>a, <2>0 DEF ReadJob, Serving, LinkInv, Attached, WireTypeOK, ClientTypeOK,
       serverVars, wireVars
  <2> QED
    BY <1>0, <2>1, <2>2, <2>3 DEF Base, TypeOK
<1>6. CASE SendResult
  <2>00. session \in Sessions /\ results \in Seq(Results) /\ results # <<>>
    BY <1>a, <1>6 DEF SendResult, Serving, LinkInv, ClientTypeOK
  <2>01. /\ Head(results) \in Results /\ Tail(results) \in Seq(Results)
         /\ Len(Tail(results)) < Len(results)
    BY <2>00, Taken
  <2>02. Append(toServer[session], Head(results)) \in Seq(Results)
    <3>1. toServer[session] \in Seq(Results)
      BY <1>a, <2>00 DEF WireTypeOK
    <3> QED
      BY <2>01, <3>1, Appended
  <2>0. /\ Append(toServer[session], Head(results)) \in Seq(Results)
        /\ Tail(results) \in Seq(Results) /\ Len(Tail(results)) <= Slots + 1
    BY <1>a, <2>00, <2>01, <2>02 DEF ClientTypeOK
  <2>1. WireTypeOK'
    BY <1>6, <1>a, <2>0 DEF SendResult, Serving, WireTypeOK, wireVars
  <2>2. ClientTypeOK'
    BY <1>6, <1>a, <2>0 DEF SendResult, Serving, ClientTypeOK
  <2>3. LinkInv'
    BY <1>6, <1>a, <2>0 DEF SendResult, Serving, LinkInv, Attached, WireTypeOK, ClientTypeOK,
       serverVars, wireVars
  <2> QED
    BY <1>0, <2>1, <2>2, <2>3 DEF Base, TypeOK
<1>7. ASSUME NEW p \in Permits, StartJob(p) PROVE Base'
  <2>00. parked \in Seq(Jobs) /\ parked # <<>> /\ session \in Sessions
    BY <1>a, <1>7 DEF StartJob, ClientTypeOK, LinkInv
  <2>0. Head(parked) \in Jobs /\ session \in Sessions
    BY <2>00, Taken
  <2>1. WireTypeOK'
    BY <1>7, <1>a, <2>0 DEF StartJob, Tasks, WireTypeOK, wireVars
  <2>2. ClientTypeOK'
    BY <1>7, <1>a, <2>0 DEF StartJob, Tasks, ClientTypeOK
  <2>3. LinkInv'
    BY <1>7, <1>a, <2>0 DEF StartJob, Tasks, LinkInv, Attached, WireTypeOK, ClientTypeOK,
       serverVars, wireVars
  <2> QED
    BY <1>0, <2>1, <2>2, <2>3 DEF Base, TypeOK
<1>8. ASSUME NEW p \in Permits, NEW outcome \in Outcomes, TaskEnds(p, outcome) PROVE Base'
  <2>1. WireTypeOK'
    BY <1>8, <1>a DEF TaskEnds, Tasks, NoTask, WireTypeOK, wireVars
  <2>2. ClientTypeOK'
    BY <1>8, <1>a DEF TaskEnds, Tasks, NoTask, ClientTypeOK
  <2>3. LinkInv'
    BY <1>8, <1>a DEF TaskEnds, Tasks, NoTask, LinkInv, Attached, WireTypeOK, ClientTypeOK,
       serverVars, wireVars
  <2> QED
    BY <1>0, <2>1, <2>2, <2>3 DEF Base, TypeOK
<1>9. ASSUME NEW p \in Permits, TaskReplies(p) PROVE Base'
  <2> DEFINE r == [job |-> task[p].job, outcome |-> task[p].outcome]
  <2>0. r \in Results
    BY <1>9, <1>a DEF TaskReplies, ClientTypeOK, Tasks, NoTask, Results
  <2> HIDE DEF r
  <2>01. results \in Seq(Results) /\ Append(results, r) \in Seq(Results)
         /\ Len(Append(results, r)) = Len(results) + 1
    BY <1>a, <2>0, Appended DEF ClientTypeOK
  <2>02. /\ task' = [task EXCEPT ![p] = NoTask] /\ UNCHANGED <<wireVars, cstate, session, parked>>
         /\ results' = results \/ (Len(results) < Slots + 1 /\ results' = Append(results, r))
    BY <1>9 DEF TaskReplies, ReplyRoom, r
  <2>1. WireTypeOK'
    BY <1>a, <2>02 DEF WireTypeOK, wireVars
  <2>2. ClientTypeOK'
    BY <1>a, <2>01, <2>02, SMTT(20) DEF ClientTypeOK
  <2>3. LinkInv'
    BY <1>a, <2>02 DEF LinkInv, Attached, serverVars, wireVars
  <2> QED
    BY <1>0, <2>1, <2>2, <2>3 DEF Base, TypeOK
<1> QED
  BY <1>1, <1>2, <1>3, <1>4, <1>5, <1>6, <1>7, <1>8, <1>9
     DEF ClientNext, ClientLoop, TaskStep
LEMMA CutBase ==
  ASSUME Base, NEW s \in Sessions, Cut(s), UNCHANGED <<serverVars, clientVars>>
  PROVE  Base'
<1>1. TypeOK'
  BY DEF Base, TypeOK, Cut, WireTypeOK, ServerTypeOK, ClientTypeOK, serverVars, clientVars
<1>2. LoopInv' /\ WaiterInv'
  BY DEF Base, LoopInv, WaiterInv, serverVars
<1>3. LinkInv'
  BY DEF Base, TypeOK, WireTypeOK, Cut, LinkInv, Attached, serverVars, clientVars
<1> QED
  BY <1>1, <1>2, <1>3 DEF Base

LEMMA InitInv == Init => IInv
<1> SUFFICES ASSUME Init PROVE IInv
  OBVIOUS
<1> USE SlotsAssumption, SessionsAssumption, SlipsAssumption
    DEF Init, WireInit, ServerInit, ClientInit, Loops, Sessions
<1>0. <<>> \in Seq(Jobs) /\ <<>> \in Seq(Results) /\ Len(<<>>) = 0
  OBVIOUS
<1>1. WireTypeOK
  BY <1>0 DEF WireTypeOK
<1>2. ServerTypeOK
  <2>1. out \in [Sessions -> Seq(Jobs)] /\ \A s \in Sessions : Len(out[s]) <= Slots
    BY <1>0
  <2>2. pending \in [Sessions -> [Jobs -> 0..Slots]]
    BY DEF NoWaiters
  <2>3. slips \in 0..MaxSlips
    OBVIOUS
  <2> QED
    BY <2>1, <2>2, <2>3 DEF ServerTypeOK
<1>3. ClientTypeOK
  BY <1>0 DEF ClientTypeOK
<1>4. LoopInv
  BY DEF LoopInv, Handling
<1>5. WaiterInv
  BY DEF WaiterInv, NoWaiters
<1>6. LinkInv
  BY DEF LinkInv, Attached
<1>7. TeardownFailsRegistered /\ NothingLostInFlight
  BY DEF TeardownFailsRegistered, NothingLostInFlight, Unresolved, Awaits
<1> QED
  BY <1>1, <1>2, <1>3, <1>4, <1>5, <1>6, <1>7 DEF IInv, Base, TypeOK

-----------------------------------------------------------------------------
(* Teardown.                                                               *)

\* A waiter that is registered is in the map, which teardown clears.
LEMMA TeardownStep ==
  Base /\ TeardownFailsRegistered /\ ServerNext => TeardownFailsRegistered'
<1> SUFFICES ASSUME Base, TeardownFailsRegistered, ServerNext PROVE TeardownFailsRegistered'
  OBVIOUS
<1> USE SlotsAssumption DEF LoopGoto, Loops, TeardownFailsRegistered, ServerTypeOK
<1>a. ServerTypeOK /\ LoopInv /\ WaiterInv
  BY DEF Base, TypeOK
<1>1. ASSUME NEW s \in Sessions, SessionStep(s) \/ Forward(s) PROVE TeardownFailsRegistered'
  <2>1. CASE Accept(s)
    BY <1>a, <2>1 DEF Accept
  <2>2. CASE Break(s) \/ Forward(s)
    BY <1>a, <2>2 DEF Break, Forward
  <2>3. CASE ClearWaiters(s)
    BY <1>a, <2>3 DEF ClearWaiters, WaiterInv, LoopInv, Handling
  <2>4. CASE Close(s)
    BY <1>a, <2>4 DEF Close
  <2> QED
    BY <1>1, <2>1, <2>2, <2>3, <2>4 DEF SessionStep
<1>2. ASSUME NEW s \in Sessions, CompleteJob(s) PROVE TeardownFailsRegistered'
  <2>1. /\ phase[s] = "open" /\ UNCHANGED <<phase, lpc, late>>
        /\ \A t \in Sessions : t # s => waiter'[t] = waiter[t]
    BY <1>a, <1>2 DEF CompleteJob
  <2> QED
    BY <1>a, <2>1
<1>3. ASSUME NEW s \in Sessions, NEW l \in Loops, LoopStep(s, l) PROVE TeardownFailsRegistered'
  <2>1. CASE LoopExits(s, l)
    BY <1>a, <2>1 DEF LoopExits
  <2>2. CASE Register(s, l)
    BY <1>a, <2>2 DEF Register
  <2>3. CASE SendJob(s, l)
    BY <1>a, <2>3 DEF SendJob
  <2>4. CASE SendFails(s, l)
    BY <1>a, <2>4 DEF SendFails, Finish
  <2>5. CASE Wake(s, l)
    BY <1>a, <2>5 DEF Wake, Finish
  <2>6. ASSUME NEW j \in Jobs, LeaseJob(s, l, j) PROVE TeardownFailsRegistered'
    BY <1>a, <2>6 DEF LeaseJob
  <2> QED
    BY <1>3, <2>1, <2>2, <2>3, <2>4, <2>5, <2>6 DEF LoopStep
<1>4. ASSUME NEW j \in Jobs, LeaseSlips(j) PROVE TeardownFailsRegistered'
  BY <1>4 DEF LeaseSlips
<1>5. CASE Shutdown
  BY <1>5 DEF Shutdown
<1> QED
  BY <1>1, <1>2, <1>3, <1>4, <1>5 DEF ServerNext
-----------------------------------------------------------------------------
(* In flight.                                                              *)

\* Whoever still waits on a standing connection waited before the step, and his
\* job stays on the way.
Keeps ==
    \A s \in Sessions, l \in Loops :
        Unresolved(s, l)' /\ phase'[s] = "open" /\ link'[s] = "up" =>
            \/ InPipeline(s, job[s][l])' /\ job'[s][l] = job[s][l]
            \/ /\ Unresolved(s, l) /\ phase[s] = "open" /\ link[s] = "up"
               /\ job'[s][l] = job[s][l]
               /\ InPipeline(s, job[s][l]) => InPipeline(s, job[s][l])'

LEMMA KeptIsInFlight == NothingLostInFlight /\ Keeps => NothingLostInFlight'
  BY DEF NothingLostInFlight, Keeps

\* Steps that touch no stage between a loop and its result.
LEMMA QuietKeeps ==
  ASSUME \A s \in Sessions : phase'[s] = "open" /\ link'[s] = "up" =>
            /\ phase[s] = "open" /\ link[s] = "up"
            /\ out'[s] = out[s] /\ toWorker'[s] = toWorker[s] /\ toServer'[s] = toServer[s]
            /\ Attached(s)' = Attached(s)
            /\ \A l \in Loops : Unresolved(s, l)' => Unresolved(s, l) /\ job'[s][l] = job[s][l],
         UNCHANGED <<parked, task, results>>
  PROVE  Keeps
  BY DEF Keeps, InPipeline, Busy

LEMMA ServerKeeps == Base /\ ServerNext /\ UNCHANGED clientVars => Keeps
<1> SUFFICES ASSUME Base, ServerNext, UNCHANGED clientVars PROVE Keeps
  OBVIOUS
<1> USE SlotsAssumption DEF LoopGoto, Loops
<1>a. WireTypeOK /\ ServerTypeOK /\ LoopInv /\ WaiterInv
  BY DEF Base, TypeOK
<1>b. \A s \in Sessions : Attached(s)' = Attached(s)
  BY DEF Attached, clientVars
<1>c. UNCHANGED <<parked, task, results>>
  BY DEF clientVars
<1>1. ASSUME NEW s \in Sessions, SessionStep(s) PROVE Keeps
  <2>1. CASE Accept(s)
    <3>1. \A l \in Loops : ~Unresolved(s, l)'
      BY <1>a, <2>1 DEF Accept, ServerTypeOK, Unresolved, Awaits
    <3>2. /\ UNCHANGED <<wireVars, out, job, waiter, task, parked, results>>
          /\ \A t \in Sessions : t # s => phase'[t] = phase[t] /\ lpc'[t] = lpc[t]
      BY <1>a, <1>c, <2>1 DEF Accept, ServerTypeOK
    <3>3. \A t \in Sessions : \A j : InPipeline(t, j) => InPipeline(t, j)'
      BY <1>b, <3>2 DEF InPipeline, Busy, wireVars
    <3> QED
      BY <3>1, <3>2, <3>3 DEF Keeps, Unresolved, Awaits, wireVars
  <2>2. CASE Break(s)
    BY <1>a, <1>b, <1>c, <2>2, QuietKeeps DEF Break, ServerTypeOK, Unresolved, Awaits, wireVars
  <2>3. CASE ClearWaiters(s)
    BY <1>a, <1>b, <1>c, <2>3, QuietKeeps DEF ClearWaiters, ServerTypeOK, Unresolved, Awaits,
       wireVars
  <2>4. CASE Close(s)
    BY <1>a, <1>b, <1>c, <2>4, QuietKeeps
       DEF Close, ServerTypeOK, WireTypeOK, Unresolved, Awaits
  <2> QED
    BY <1>1, <2>1, <2>2, <2>3, <2>4 DEF SessionStep
<1>2. ASSUME NEW s \in Sessions, NEW l \in Loops, LoopStep(s, l), ~SendJob(s, l) PROVE Keeps
  <2>1. CASE LoopExits(s, l)
    BY <1>a, <1>b, <1>c, <2>1, QuietKeeps DEF LoopExits, ServerTypeOK, Unresolved, Awaits, wireVars
  <2>2. CASE Register(s, l)
    BY <1>a, <1>b, <1>c, <2>2, QuietKeeps DEF Register, ServerTypeOK, Unresolved, Awaits, wireVars
  <2>3. CASE SendFails(s, l)
    BY <1>a, <1>b, <1>c, <2>3, QuietKeeps
       DEF SendFails, Finish, ServerTypeOK, Unresolved, Awaits, wireVars
  <2>4. CASE Wake(s, l)
    BY <1>a, <1>b, <1>c, <2>4, QuietKeeps
       DEF Wake, Finish, ServerTypeOK, Unresolved, Awaits, wireVars
  <2>5. ASSUME NEW j \in Jobs, LeaseJob(s, l, j) PROVE Keeps
    BY <1>a, <1>b, <1>c, <2>5, QuietKeeps DEF LeaseJob, ServerTypeOK, Unresolved, Awaits, wireVars
  <2> QED
    BY <1>2, <2>1, <2>2, <2>3, <2>4, <2>5 DEF LoopStep
<1>3. ASSUME NEW j \in Jobs, LeaseSlips(j) PROVE Keeps
  BY <1>a, <1>b, <1>c, <1>3, QuietKeeps DEF LeaseSlips, Unresolved, Awaits, wireVars
<1>4. CASE Shutdown
  BY <1>a, <1>b, <1>c, <1>4, QuietKeeps DEF Shutdown, Unresolved, Awaits, wireVars
<1>5. ASSUME NEW s \in Sessions, NEW l \in Loops, SendJob(s, l) PROVE Keeps
  <2>1. /\ out[s] \in Seq(Jobs) /\ job[s][l] \in Jobs
        /\ out' = [out EXCEPT ![s] = Append(out[s], job[s][l])]
        /\ lpc' = [lpc EXCEPT ![s][l] = "await"]
        /\ UNCHANGED <<wireVars, phase, job, waiter>>
    BY <1>a, <1>5 DEF SendJob, LoopInv, Handling, ServerTypeOK
  <2>2. /\ \E i \in DOMAIN Append(out[s], job[s][l]) : Append(out[s], job[s][l])[i] = job[s][l]
        /\ \A i \in DOMAIN out[s] : /\ i \in DOMAIN Append(out[s], job[s][l])
                                    /\ Append(out[s], job[s][l])[i] = out[s][i]
    BY <2>1, Appended
  <2>3. InPipeline(s, job[s][l])'
    BY <1>a, <2>1, <2>2 DEF InPipeline, ServerTypeOK
  <2>4. \A t \in Sessions, j \in Jobs : InPipeline(t, j) => InPipeline(t, j)'
    BY <1>a, <1>b, <1>c, <2>1, <2>2 DEF InPipeline, Busy, ServerTypeOK, wireVars
  <2>5. \A t \in Sessions, k \in Loops :
           <<t, k>> # <<s, l>> /\ Unresolved(t, k)' => Unresolved(t, k)
    BY <1>a, <2>1 DEF Unresolved, Awaits, ServerTypeOK
  <2>6. \A t \in Sessions, k \in Loops : Unresolved(t, k) => job[t][k] \in Jobs
    BY <1>a DEF Unresolved, Awaits, LoopInv, Handling
  <2> QED
    BY <2>1, <2>3, <2>4, <2>5, <2>6 DEF Keeps, wireVars
<1>6. ASSUME NEW s \in Sessions, Forward(s) PROVE Keeps
  <2>1. /\ out[s] \in Seq(Jobs) /\ out[s] # <<>> /\ toWorker[s] \in Seq(Jobs)
        /\ out' = [out EXCEPT ![s] = Tail(out[s])]
        /\ link[s] # "down" =>
              toWorker' = [toWorker EXCEPT ![s] = Append(toWorker[s], Head(out[s]))]
        /\ link[s] = "down" => toWorker' = toWorker
        /\ UNCHANGED <<link, toServer, lpc, job, waiter>>
        /\ \A t \in Sessions : phase'[t] = "open" => phase[t] = "open"
    BY <1>a, <1>6 DEF Forward, ServerTypeOK, WireTypeOK
  <2>2. /\ Head(out[s]) \in Jobs
        /\ \A i \in DOMAIN out[s] : \/ out[s][i] = Head(out[s])
                                    \/ \E k \in DOMAIN Tail(out[s]) : Tail(out[s])[k] = out[s][i]
    BY <2>1, Taken
  <2>3. /\ \E i \in DOMAIN Append(toWorker[s], Head(out[s])) :
              Append(toWorker[s], Head(out[s]))[i] = Head(out[s])
        /\ \A i \in DOMAIN toWorker[s] : /\ i \in DOMAIN Append(toWorker[s], Head(out[s]))
                                         /\ Append(toWorker[s], Head(out[s]))[i] = toWorker[s][i]
    BY <2>1, <2>2, Appended
  <2>4. \A t \in Sessions, j \in Jobs : link[t] = "up" /\ InPipeline(t, j) => InPipeline(t, j)'
    <3> SUFFICES ASSUME NEW t \in Sessions, NEW j \in Jobs, link[t] = "up", InPipeline(t, j)
                 PROVE  InPipeline(t, j)'
      OBVIOUS
    <3>1. CASE t # s
      <4>1. out'[t] = out[t] /\ toWorker'[t] = toWorker[t] /\ toServer'[t] = toServer[t]
        BY <1>a, <2>1, <3>1 DEF ServerTypeOK, WireTypeOK
      <4> QED
        BY <1>b, <1>c, <4>1 DEF InPipeline, Busy
    <3>2. CASE t = s
      <4>1. /\ out'[s] = Tail(out[s]) /\ toWorker'[s] = Append(toWorker[s], Head(out[s]))
            /\ toServer'[s] = toServer[s]
        BY <1>a, <2>1, <3>2 DEF ServerTypeOK, WireTypeOK
      <4>2. ASSUME NEW i \in DOMAIN out[s], out[s][i] = j PROVE InPipeline(s, j)'
        BY <2>2, <2>3, <4>1, <4>2 DEF InPipeline
      <4>3. ASSUME NEW i \in DOMAIN toWorker[s], toWorker[s][i] = j PROVE InPipeline(s, j)'
        BY <2>3, <4>1, <4>3 DEF InPipeline
      <4> QED
        BY <1>b, <1>c, <3>2, <4>1, <4>2, <4>3 DEF InPipeline, Busy
    <3> QED
      BY <3>1, <3>2
  <2>5. \A t \in Sessions, k \in Loops :
           (Unresolved(t, k)' => Unresolved(t, k)) /\ (Unresolved(t, k) => job[t][k] \in Jobs)
    BY <1>a, <2>1 DEF Unresolved, Awaits, LoopInv, Handling
  <2> QED
    BY <2>1, <2>4, <2>5 DEF Keeps
<1>7. ASSUME NEW s \in Sessions, CompleteJob(s) PROVE Keeps
  <2> DEFINE r == Head(toServer[s])
             l == pending[s][r.job]
  <2>1. /\ toServer[s] \in Seq(Results) /\ toServer[s] # <<>>
        /\ toServer' = [toServer EXCEPT ![s] = Tail(toServer[s])]
        /\ waiter' = IF l = 0 THEN waiter ELSE [waiter EXCEPT ![s][l] = r.outcome]
        /\ UNCHANGED <<link, toWorker, phase, out, lpc, job>>
    BY <1>a, <1>7 DEF CompleteJob, WireTypeOK
  <2>2. /\ r \in Results
        /\ \A i \in DOMAIN toServer[s] :
              \/ toServer[s][i] = r
              \/ \E k \in DOMAIN Tail(toServer[s]) : Tail(toServer[s])[k] = toServer[s][i]
    BY <2>1, Taken
  <2>3. r.job \in Jobs /\ r.outcome # "waiting" /\ l \in 0..Slots
    BY <1>a, <2>2 DEF Results, Outcomes, ServerTypeOK
  <2> HIDE DEF r
  <2>4. \A t \in Sessions, k \in Loops : Unresolved(t, k)' =>
           /\ Unresolved(t, k) /\ job[t][k] \in Jobs
           /\ t = s => job[t][k] # r.job
    <3> SUFFICES ASSUME NEW t \in Sessions, NEW k \in Loops, Unresolved(t, k)'
                 PROVE  Unresolved(t, k) /\ job[t][k] \in Jobs /\ (t = s => job[t][k] # r.job)
      OBVIOUS
    <3>1. Unresolved(t, k)
      BY <1>a, <2>1, <2>3 DEF Unresolved, Awaits, ServerTypeOK
    <3>2. job[t][k] \in Jobs /\ pending[t][job[t][k]] = k
      BY <1>a, <3>1 DEF Unresolved, Awaits, LoopInv, WaiterInv, Handling
    <3>3. t = s /\ job[t][k] = r.job => FALSE
      BY <1>a, <2>1, <2>3, <3>2 DEF Unresolved, Awaits, ServerTypeOK
    <3> QED
      BY <3>1, <3>2, <3>3
  <2>5. \A t \in Sessions, j \in Jobs :
           InPipeline(t, j) /\ (t = s => j # r.job) => InPipeline(t, j)'
    <3> SUFFICES ASSUME NEW t \in Sessions, NEW j \in Jobs, InPipeline(t, j), t = s => j # r.job
                 PROVE  InPipeline(t, j)'
      OBVIOUS
    <3>1. /\ out'[t] = out[t] /\ toWorker'[t] = toWorker[t]
          /\ toServer'[t] = IF t = s THEN Tail(toServer[s]) ELSE toServer[t]
      BY <1>a, <2>1 DEF WireTypeOK
    <3>2. ASSUME NEW i \in DOMAIN toServer[t], toServer[t][i].job = j PROVE InPipeline(t, j)'
      <4>1. \E k \in DOMAIN toServer'[t] : toServer'[t][k] = toServer[t][i]
        BY <2>2, <3>1, <3>2
      <4> QED
        BY <3>2, <4>1 DEF InPipeline
    <3> QED
      BY <1>b, <1>c, <3>1, <3>2 DEF InPipeline, Busy
  <2> QED
    BY <2>1, <2>4, <2>5 DEF Keeps
<1> QED
  BY <1>1, <1>2, <1>3, <1>4, <1>5, <1>6, <1>7 DEF ServerNext
\* Of the worker's steps those that leave the connection matter: what they take
\* from one stage they put into the next.
LEMMA ClientKeeps == Base /\ ClientNext /\ UNCHANGED serverVars => Keeps
<1> SUFFICES ASSUME Base, ClientNext, UNCHANGED serverVars PROVE Keeps
  OBVIOUS
<1> USE SlotsAssumption DEF Loops
<1>a. WireTypeOK /\ ServerTypeOK /\ ClientTypeOK /\ LoopInv /\ LinkInv
  BY DEF Base, TypeOK
<1>b. /\ UNCHANGED <<phase, out, lpc, job, waiter>>
      /\ \A s \in Sessions, l \in Loops :
            /\ Unresolved(s, l)' = Unresolved(s, l)
            /\ Unresolved(s, l) => job[s][l] \in Jobs
  BY <1>a DEF serverVars, Unresolved, Awaits, LoopInv, Handling
\* Steps after which no session is both open and connected.
<1>c. ASSUME \A s \in Sessions : phase[s] = "open" => link'[s] # "up" PROVE Keeps
  BY <1>b, <1>c DEF Keeps
\* Steps of a session that stays connected.
<1>d. ASSUME UNCHANGED <<link, session>>,
             \A j \in Jobs : Attached(session) /\ session \in Sessions /\ InPipeline(session, j)
                                => InPipeline(session, j)'
      PROVE  Keeps
  <2>1. \A s \in Sessions : link[s] = "up" => s = session /\ Attached(session)
    BY <1>a DEF LinkInv, Attached
  <2>2. ASSUME NEW s \in Sessions, NEW j \in Jobs, link[s] = "up", InPipeline(s, j)
        PROVE  InPipeline(s, j)'
    <3>1. s = session /\ Attached(session) /\ InPipeline(session, j)
      BY <2>1, <2>2
    <3>2. InPipeline(session, j)' /\ session' = session
      BY <1>d, <2>2, <3>1
    <3> QED
      BY <3>1, <3>2
  <2> QED
    BY <1>b, <1>d, <2>2 DEF Keeps
<1>1. CASE Dial
  <2>1. link' = [link EXCEPT ![session + 1] = "up"] /\ cstate = "connecting" /\ session \in Nat
    BY <1>a, <1>1 DEF Dial, ClientTypeOK
  <2>2. \A s \in Sessions : link[s] # "up"
    BY <1>a, <2>1 DEF LinkInv, Attached
  <2>3. \A s \in Sessions : link'[s] = "up" => s = session + 1
    BY <1>a, <2>1, <2>2 DEF WireTypeOK
  <2> QED
    BY <1>a, <1>c, <2>1, <2>3 DEF LinkInv
<1>2. CASE DialFails \/ Redial \/ WorkerRestarts
  BY <1>2, <1>a, <1>c DEF DialFails, Redial, WorkerRestarts, LinkInv, Attached, wireVars
<1>3. ASSUME NEW next, Serving, LeaveSession(next) PROVE Keeps
  BY <1>3, <1>a, <1>c DEF Serving, LeaveSession, LinkInv, Attached, WireTypeOK
<1>4. CASE WorkerDies("down")
  BY <1>4, <1>a, <1>c DEF WorkerDies, LinkInv, Attached, WireTypeOK
<1>5. CASE ClientStops \/ SocketEnds
  <2>1. CASE cstate \in {"connecting", "backoff"} /\ UNCHANGED wireVars
    BY <2>1, <1>a, <1>c DEF LinkInv, Attached, wireVars
  <2> QED
    BY <1>5, <1>3, <2>1 DEF ClientStops, SocketEnds
<1>6. CASE ReadJob
  <2> DEFINE q == toWorker[session]
  <2>1. /\ q # <<>> /\ parked' = <<Head(q)>>
        /\ UNCHANGED <<link, toServer, cstate, session, task, results>>
        /\ toWorker' = [toWorker EXCEPT ![session] = Tail(q)] /\ parked = <<>>
    BY <1>6 DEF ReadJob, Serving
  <2>2. ASSUME NEW j \in Jobs, Attached(session), session \in Sessions, InPipeline(session, j)
        PROVE  InPipeline(session, j)'
    <3>1. /\ q \in Seq(Jobs) /\ toWorker'[session] = Tail(q)
          /\ Attached(session)'
      BY <1>a, <2>1, <2>2 DEF WireTypeOK, Attached
    <3>2. ASSUME NEW i \in DOMAIN q, q[i] = j PROVE InPipeline(session, j)'
      <4>1. j = Head(q) \/ \E k \in DOMAIN Tail(q) : Tail(q)[k] = j
        BY <2>1, <3>1, <3>2, Taken
      <4>2. CASE j = Head(q)
        <5>1. 1 \in DOMAIN parked' /\ parked'[1] = j
          BY <2>1, <4>2
        <5> QED
          BY <3>1, <5>1 DEF InPipeline
      <4>3. CASE \E k \in DOMAIN Tail(q) : Tail(q)[k] = j
        BY <2>1, <3>1, <4>3 DEF InPipeline
      <4> QED
        BY <4>1, <4>2, <4>3
    <3> QED
      BY <1>b, <2>1, <2>2, <3>1, <3>2 DEF InPipeline, Busy
  <2> QED
    BY <1>d, <2>1, <2>2
<1>7. ASSUME NEW p \in Permits, StartJob(p) PROVE Keeps
  <2>1. /\ UNCHANGED <<link, toWorker, toServer, cstate, session, results>>
        /\ task[p] = NoTask /\ parked # <<>> /\ parked \in Seq(Jobs) /\ Len(parked) <= 1
        /\ task' = [task EXCEPT ![p] =
              [phase |-> "running", session |-> session, job |-> Head(parked)]]
    BY <1>a, <1>7 DEF StartJob, ClientTypeOK, wireVars
  <2>2. \A i \in DOMAIN parked : parked[i] = Head(parked)
    BY <2>1
  <2>3. /\ task'[p].job = Head(parked) /\ p \in Busy(session)'
        /\ \A x \in Busy(session) : x \in Busy(session)' /\ task'[x] = task[x]
    BY <1>a, <2>1 DEF Busy, NoTask, ClientTypeOK
  <2>4. ASSUME NEW j \in Jobs, InPipeline(session, j) PROVE InPipeline(session, j)'
    <3>1. CASE \E i \in DOMAIN parked : parked[i] = j
      BY <2>2, <2>3, <3>1 DEF InPipeline
    <3>2. CASE \E x \in Busy(session) : task[x].job = j
      BY <2>3, <3>2 DEF InPipeline
    <3> QED
      BY <1>b, <2>1, <2>4, <3>1, <3>2 DEF InPipeline, Attached
  <2> QED
    BY <1>d, <2>1, <2>4
<1>8. CASE SendResult
  <2>1. /\ UNCHANGED <<link, toWorker, cstate, session, parked, task>>
        /\ results \in Seq(Results) /\ results # <<>>
        /\ toServer' = [toServer EXCEPT ![session] = Append(toServer[session], Head(results))]
        /\ results' = Tail(results)
    BY <1>a, <1>8 DEF SendResult, ClientTypeOK
  <2>2. ASSUME NEW j \in Jobs, Attached(session), session \in Sessions, InPipeline(session, j)
        PROVE  InPipeline(session, j)'
    <3> DEFINE q == toServer[session]
               x == Head(results)
    <3>1. /\ x \in Results
          /\ \A i \in DOMAIN results :
                results[i] = x \/ \E k \in DOMAIN results' : results'[k] = results[i]
      BY <2>1, Taken
    <3>2. q \in Seq(Results) /\ toServer'[session] = Append(q, x)
      BY <1>a, <2>1, <2>2 DEF WireTypeOK
    <3> HIDE DEF q, x
    <3>3. /\ Append(q, x)[Len(q) + 1] = x /\ Len(q) + 1 \in DOMAIN Append(q, x)
          /\ \A i \in DOMAIN q : i \in DOMAIN Append(q, x) /\ Append(q, x)[i] = q[i]
      BY <3>1, <3>2, Appended
    <3>4. ASSUME NEW i \in DOMAIN q, q[i].job = j PROVE InPipeline(session, j)'
      BY <2>1, <3>2, <3>3, <3>4 DEF InPipeline
    <3>5. ASSUME NEW i \in DOMAIN results, results[i].job = j PROVE InPipeline(session, j)'
      <4>1. CASE results[i] = x
        BY <2>1, <3>2, <3>3, <3>5, <4>1 DEF InPipeline
      <4>2. CASE \E k \in DOMAIN results' : results'[k] = results[i]
        BY <2>1, <2>2, <3>5, <4>2 DEF InPipeline, Attached
      <4> QED
        BY <3>1, <4>1, <4>2
    <3> QED
      BY <1>b, <2>1, <2>2, <3>4, <3>5 DEF InPipeline, Busy, Attached, q
  <2> QED
    BY <1>d, <2>1, <2>2
<1>9. ASSUME NEW p \in Permits, NEW outcome \in Outcomes, TaskEnds(p, outcome) PROVE Keeps
  <2>1. /\ UNCHANGED <<link, toWorker, toServer, cstate, session, parked, results>>
        /\ task' = [task EXCEPT ![p] = [phase |-> "replying", session |-> task[p].session,
                                        job |-> task[p].job, outcome |-> outcome]]
    BY <1>9 DEF TaskEnds, wireVars
  <2>2. \A x \in Busy(session) : x \in Busy(session)' /\ task'[x].job = task[x].job
    BY <1>a, <2>1 DEF Busy, NoTask, ClientTypeOK
  <2>3. ASSUME NEW j \in Jobs, InPipeline(session, j) PROVE InPipeline(session, j)'
    BY <1>b, <2>1, <2>2, <2>3 DEF InPipeline, Attached
  <2> QED
    BY <1>d, <2>1, <2>3
<1>10. ASSUME NEW p \in Permits, TaskReplies(p) PROVE Keeps
  <2> DEFINE r == [job |-> task[p].job, outcome |-> task[p].outcome]
  <2>1. /\ UNCHANGED <<link, toWorker, toServer, cstate, session, parked>>
        /\ results \in Seq(Results) /\ r \in Results
        /\ task' = [task EXCEPT ![p] = NoTask]
        /\ results' = IF SessionGone(task[p].session) THEN results ELSE Append(results, r)
    BY <1>a, <1>10 DEF TaskReplies, ClientTypeOK, Tasks, NoTask, Results, wireVars
  <2>2. ASSUME NEW j \in Jobs, Attached(session), session \in Sessions, InPipeline(session, j)
        PROVE  InPipeline(session, j)'
    <3> HIDE DEF r
    <3>1. \A i \in DOMAIN results : i \in DOMAIN results' /\ results'[i] = results[i]
      BY <2>1, Appended
    <3>2. ASSUME NEW x \in Busy(session), task[x].job = j PROVE InPipeline(session, j)'
      <4>1. CASE x = p
        <5>1. results' = Append(results, r) /\ r.job = j
          BY <2>1, <2>2, <3>2, <4>1 DEF SessionGone, Busy, Attached, r
        <5>2. \E i \in DOMAIN results' : results'[i] = r
          BY <2>1, <5>1, Appended
        <5> QED
          BY <2>1, <2>2, <5>1, <5>2 DEF InPipeline, Attached
      <4>2. CASE x # p
        BY <1>a, <2>1, <3>2, <4>2 DEF InPipeline, Busy, ClientTypeOK
      <4> QED
        BY <4>1, <4>2
    <3> QED
      BY <1>b, <2>1, <2>2, <3>1, <3>2 DEF InPipeline, Attached
  <2> QED
    BY <1>d, <2>1, <2>2
<1> QED
  BY <1>1, <1>2, <1>4, <1>5, <1>6, <1>7, <1>8, <1>9, <1>10 DEF ClientNext, ClientLoop, TaskStep

-----------------------------------------------------------------------------
(* Within the slots.  What is in flight on an open session is at most the  *)
(* loops that wait, less those whose answer came before they sent; and once*)
(* it is not open, at most the loops that have nothing left to send; but   *)
(* for the waiters that were overwritten.  Every one of those is paid for  *)
(* by a lost lease: who overwrites handles a job another handles as well.  *)

Waiting(s) == {l \in Loops : lpc[s][l] = "await" /\ waiter[s][l] = "waiting"}
Answered(s) == {l \in Loops : lpc[s][l] = "send" /\ waiter[s][l] # "waiting"}
Ahead(s) == {l \in Loops : lpc[s][l] \in {"register", "send"}}

\* The loops an answer would reach, or that are about to register for one.
Live == {h \in Sessions \X Loops :
            \/ lpc[h[1]][h[2]] = "register"
            \/ lpc[h[1]][h[2]] \in {"send", "await"} /\ waiter[h[1]][h[2]] = "waiting"}
JobOf(h) == job[h[1]][h[2]]

\* Apart from `extra`, the live handlers have a job each, and nobody else can
\* lease it.
OneHandler(extra) ==
    \A h \in Live \ extra :
        /\ JobOf(h) \notin queue
        /\ \A g \in Live \ extra : JobOf(g) = JobOf(h) => g = h

\* The extra handlers and the overwritten waiters are no more than the leases
\* that were lost.
Paid(lost) ==
    \E extra : IsFiniteSet(extra) /\ Cardinality(extra) + lost <= slips /\ OneHandler(extra)

IdleInv == cstate # "serving" => parked = <<>> /\ results = <<>>

\* n jobs in flight, in a session at phase ph, with these sets of loops.
Bounded(n, ph, waiting, answered, ahead, lost) ==
    /\ n \in Nat
    /\ ph = "none" => n = 0
    /\ ph = "open" => n + Cardinality(answered) <= Cardinality(waiting) + lost
    /\ ph \notin {"none", "open"} => n + Cardinality(ahead) <= Slots + lost

Load(s, lost) == Bounded(InFlight(s), phase[s], Waiting(s), Answered(s), Ahead(s), lost)

LoadInv == IdleInv /\ \E lost \in Nat : Paid(lost) /\ \A s \in Sessions : Load(s, lost)

LEMMA CountLoops ==
  ASSUME NEW A \in SUBSET Loops
  PROVE  /\ Cardinality(A) \in Nat /\ Cardinality(A) <= Slots /\ IsFiniteSet(A)
         /\ \A l \in Loops : Cardinality(A \cup {l}) =
                              IF l \in A THEN Cardinality(A) ELSE Cardinality(A) + 1
         /\ \A l \in Loops : Cardinality(A \ {l}) =
                              IF l \in A THEN Cardinality(A) - 1 ELSE Cardinality(A)
<1>1. Slots \in Nat /\ IsFiniteSet(1..Slots) /\ Cardinality(1..Slots) = Slots
  BY SlotsAssumption, FS_Interval
<1>2. IsFiniteSet(A) /\ Cardinality(A) <= Slots
  BY <1>1, FS_Subset DEF Loops
<1> QED
  BY <1>2, FS_CardinalityType, FS_AddElement, FS_RemoveElement

LEMMA CountDisjoint ==
  ASSUME NEW A \in SUBSET Loops, NEW B \in SUBSET Loops, A \cap B = {}
  PROVE  Cardinality(A) + Cardinality(B) <= Slots
<1>1. IsFiniteSet(A) /\ IsFiniteSet(B) /\ A \cup B \in SUBSET Loops
  BY CountLoops
<1>2. Cardinality(A \cup B) = Cardinality(A) + Cardinality(B) - 0
  BY <1>1, FS_Union, FS_EmptySet
<1> QED
  BY <1>1, <1>2, CountLoops, SlotsAssumption

\* The stages of a session, counted.
Counted(s) ==
    /\ Len(out[s]) \in Nat /\ Len(toWorker[s]) \in Nat /\ Len(toServer[s]) \in Nat
    /\ Len(parked) \in Nat /\ Len(results) \in Nat
    /\ IsFiniteSet(Busy(s)) /\ Cardinality(Busy(s)) \in Nat
    /\ InFlight(s) \in Nat

LEMMA FlightType == TypeOK => \A s \in Sessions : Counted(s)
<1> SUFFICES ASSUME TypeOK, NEW s \in Sessions PROVE Counted(s)
  OBVIOUS
<1>1. /\ Len(out[s]) \in Nat /\ Len(toWorker[s]) \in Nat /\ Len(toServer[s]) \in Nat
      /\ Len(parked) \in Nat /\ Len(results) \in Nat
  BY DEF TypeOK, ServerTypeOK, WireTypeOK, ClientTypeOK
<1>2. IsFiniteSet(Busy(s)) /\ Cardinality(Busy(s)) \in Nat
  <2>1. Busy(s) \in SUBSET Loops
    BY DEF Busy, Permits, Loops
  <2> QED
    BY <2>1, CountLoops
<1>3. InFlight(s) \in Nat
  <2> DEFINE last == IF Attached(s) THEN Len(parked) + Len(results) ELSE 0
  <2>1. last \in Nat
    BY <1>1
  <2>2. InFlight(s) =
           Len(out[s]) + Len(toWorker[s]) + Len(toServer[s]) + Cardinality(Busy(s)) + last
    BY DEF InFlight
  <2> DEFINE a == Len(out[s])
             b == Len(toWorker[s])
             c == Len(toServer[s])
             d == Cardinality(Busy(s))
  <2>3. a \in Nat /\ b \in Nat /\ c \in Nat /\ d \in Nat
    BY <1>1, <1>2
  <2>4. InFlight(s) = a + b + c + d + last
    BY <2>2
  <2> HIDE DEF last, a, b, c, d
  <2> QED
    BY <2>1, <2>3, <2>4
<1> QED
  BY <1>1, <1>2, <1>3 DEF Counted

LEMMA FlightTypeNext == TypeOK' => \A s \in Sessions : Counted(s)'
<1>1. TypeOK' => (\A s \in Sessions : Counted(s))'
  BY FlightType, PTL
<1> QED
  BY <1>1

\* What the load of a session is made of.
LEMMA SameLoad ==
  ASSUME NEW s, NEW lost \in Nat, Load(s, lost),
         InFlight(s)' \in Nat, InFlight(s)' <= InFlight(s),
         UNCHANGED phase[s],
         Waiting(s)' = Waiting(s), Answered(s)' = Answered(s), Ahead(s)' = Ahead(s)
  PROVE  Load(s, lost)'
<1>2. Cardinality(Answered(s)) \in Nat /\ Cardinality(Waiting(s)) \in Nat
      /\ Cardinality(Ahead(s)) \in Nat /\ Slots \in Nat
  BY CountLoops, SlotsAssumption DEF Waiting, Answered, Ahead
<1> DEFINE n == InFlight(s)
           m == InFlight(s)'
<1>3. n \in Nat /\ m \in Nat /\ m <= n
  BY DEF Load, Bounded
<1> HIDE DEF n, m
<1>4. Bounded(n, phase[s], Waiting(s), Answered(s), Ahead(s), lost)
  BY DEF Load, n
<1>5. /\ m \in Nat
      /\ phase'[s] = "none" => m = 0
      /\ phase'[s] = "open" =>
            m + Cardinality(Answered(s)') <= Cardinality(Waiting(s)') + lost
      /\ phase'[s] \notin {"none", "open"} => m + Cardinality(Ahead(s)') <= Slots + lost
  BY <1>2, <1>3, <1>4 DEF Bounded
<1> QED
  BY <1>5 DEF Load, Bounded, m

\* The other sessions.
LEMMA UntouchedLoad ==
  ASSUME UNCHANGED clientVars, NEW t \in Sessions, NEW lost \in Nat, Load(t, lost),
         UNCHANGED <<phase[t], lpc[t], waiter[t], out[t], toWorker[t], toServer[t]>>
  PROVE  Load(t, lost)'
<1>1. Attached(t)' = Attached(t) /\ Busy(t)' = Busy(t) /\ UNCHANGED <<parked, results>>
  BY DEF Attached, Busy, clientVars
<1>2. InFlight(t)' = InFlight(t)
  BY <1>1 DEF InFlight
<1>3. InFlight(t)' \in Nat /\ InFlight(t)' <= InFlight(t)
  BY <1>2 DEF Load, Bounded
<1>4. Waiting(t)' = Waiting(t) /\ Answered(t)' = Answered(t) /\ Ahead(t)' = Ahead(t)
  BY DEF Waiting, Answered, Ahead
<1> QED
  BY <1>3, <1>4, SameLoad

LEMMA ElsewhereLoad ==
  ASSUME UNCHANGED clientVars, NEW s \in Sessions, NEW lost \in Nat,
         \A t \in Sessions \ {s} : Load(t, lost) /\
            UNCHANGED <<phase[t], lpc[t], waiter[t], out[t], toWorker[t], toServer[t]>>,
         Load(s, lost)'
  PROVE  \A t \in Sessions : Load(t, lost)'
BY UntouchedLoad

\* The steps of a session's own task, but for the results it takes.
LEMMA SessionLoad ==
  ASSUME Base, Base', UNCHANGED clientVars, NEW s \in Sessions, NEW lost \in Nat, Load(s, lost),
         SessionStep(s) \/ Forward(s)
  PROVE  Load(s, lost)'
<1> USE SlotsAssumption
<1>a. ServerTypeOK /\ WireTypeOK /\ Counted(s) /\ Counted(s)'
  BY FlightType, FlightTypeNext DEF Base, TypeOK
<1>b. Attached(s)' = Attached(s) /\ Busy(s)' = Busy(s) /\ UNCHANGED <<parked, results>>
  BY DEF Attached, Busy, clientVars
<1>c. /\ Cardinality(Waiting(s)) \in Nat /\ Cardinality(Answered(s)) \in Nat
      /\ Cardinality(Ahead(s)) \in Nat
      /\ Cardinality(Waiting(s)) + Cardinality(Ahead(s)) <= Slots
  <2>1. Waiting(s) \cap Ahead(s) = {}
    BY DEF Waiting, Ahead
  <2> QED
    BY <2>1, CountLoops, CountDisjoint DEF Waiting, Answered, Ahead
<1>d. Bounded(InFlight(s), phase[s], Waiting(s), Answered(s), Ahead(s), lost)
  BY DEF Load
\* Leaving the open phase.
<1>e. ASSUME phase[s] = "open", phase'[s] = "cancelled", InFlight(s)' <= InFlight(s),
             UNCHANGED <<lpc[s], waiter[s], slips>>
      PROVE  Load(s, lost)'
  <2>1. Ahead(s)' = Ahead(s)
    BY <1>e DEF Ahead
  <2>2. InFlight(s)' \in Nat /\ InFlight(s) \in Nat
    BY <1>a DEF Counted
  <2>3. InFlight(s)' + Cardinality(Ahead(s)) <= Slots + lost
    BY <1>c, <1>d, <1>e, <2>2 DEF Bounded
  <2> QED
    BY <1>e, <2>1, <2>2, <2>3 DEF Load, Bounded
<1>1. CASE Accept(s)
  <2>1. /\ phase[s] = "none" /\ phase'[s] = "open" /\ slips' = slips
        /\ lpc'[s] = [l \in Loops |-> "idle"] /\ UNCHANGED <<wireVars, out>>
    BY <1>a, <1>1 DEF Accept, ServerTypeOK
  <2>2. InFlight(s)' = 0
    <3>1. InFlight(s)' = InFlight(s)
      BY <1>b, <2>1 DEF InFlight, wireVars
    <3> QED
      BY <1>d, <2>1, <3>1 DEF Bounded
  <2>3. Waiting(s)' = {} /\ Answered(s)' = {}
    BY <2>1 DEF Waiting, Answered
  <2> QED
    BY <2>1, <2>2, <2>3, FS_EmptySet DEF Load, Bounded
<1>2. CASE Break(s)
  <2>1. InFlight(s)' = InFlight(s)
    BY <1>b, <1>2 DEF Break, InFlight, wireVars
  <2> QED
    BY <1>a, <1>2, <1>e, <2>1 DEF Break, ServerTypeOK, Counted
<1>3. CASE ClearWaiters(s)
  <2>1. InFlight(s)' = InFlight(s)
    BY <1>b, <1>3 DEF ClearWaiters, InFlight, wireVars
  <2>2. /\ phase[s] = "cancelled" /\ phase'[s] = "cleared" /\ slips' = slips
        /\ Ahead(s)' = Ahead(s)
    BY <1>a, <1>3 DEF ClearWaiters, ServerTypeOK, Ahead
  <2> QED
    BY <1>d, <2>1, <2>2 DEF Load, Bounded
<1>4. CASE Close(s)
  <2>1. /\ phase[s] = "cleared" /\ phase'[s] = "closed" /\ slips' = slips
        /\ Ahead(s)' = Ahead(s) /\ out'[s] = <<>> /\ toServer'[s] = <<>> /\ toWorker' = toWorker
    BY <1>a, <1>4 DEF Close, ServerTypeOK, WireTypeOK, Ahead
  <2>2. InFlight(s)' <= InFlight(s)
    <3> DEFINE last == IF Attached(s) THEN Len(parked) + Len(results) ELSE 0
    <3>1. last \in Nat
      BY <1>a DEF Counted
    <3>2. /\ InFlight(s) =
               Len(out[s]) + Len(toWorker[s]) + Len(toServer[s]) + Cardinality(Busy(s)) + last
          /\ InFlight(s)' = 0 + Len(toWorker[s]) + 0 + Cardinality(Busy(s)) + last
      BY <1>b, <2>1 DEF InFlight
    <3> DEFINE a == Len(out[s])
               b == Len(toWorker[s])
               c == Len(toServer[s])
               d == Cardinality(Busy(s))
    <3>3. a \in Nat /\ b \in Nat /\ c \in Nat /\ d \in Nat
      BY <1>a DEF Counted
    <3>4. InFlight(s) = a + b + c + d + last /\ InFlight(s)' = 0 + b + 0 + d + last
      BY <3>2
    <3> HIDE DEF last, a, b, c, d
    <3> QED
      BY <3>1, <3>3, <3>4
  <2>3. InFlight(s)' \in Nat /\ InFlight(s) \in Nat
    BY <1>a DEF Counted
  <2>4. InFlight(s)' + Cardinality(Ahead(s)) <= Slots + lost
    BY <1>c, <1>d, <2>1, <2>2, <2>3 DEF Bounded
  <2> QED
    BY <2>1, <2>3, <2>4 DEF Load, Bounded
<1>5. CASE Forward(s)
  <2>1. /\ phase[s] = "open" /\ UNCHANGED <<lpc, waiter, slips, toServer>>
        /\ out[s] # <<>> /\ out[s] \in Seq(Jobs) /\ out'[s] = Tail(out[s])
        /\ \/ phase'[s] = "cancelled" /\ toWorker' = toWorker
           \/ phase' = phase /\ toWorker'[s] = Append(toWorker[s], Head(out[s]))
        /\ toWorker[s] \in Seq(Jobs)
    BY <1>a, <1>5 DEF Forward, ServerTypeOK, WireTypeOK
  <2>2. /\ Len(out'[s]) = Len(out[s]) - 1
        /\ Len(toWorker'[s]) \in {Len(toWorker[s]), Len(toWorker[s]) + 1}
    BY <2>1
  <2>3. InFlight(s)' <= InFlight(s)
    <3> DEFINE a == Len(out[s])
               b == Len(toWorker[s])
               x == Len(out'[s])
               y == Len(toWorker'[s])
               c == Len(toServer[s])
               d == Cardinality(Busy(s))
               last == IF Attached(s) THEN Len(parked) + Len(results) ELSE 0
    <3>1. a \in Nat /\ b \in Nat /\ c \in Nat /\ d \in Nat /\ last \in Nat
      BY <1>a DEF Counted
    <3>2. x = a - 1 /\ y \in {b, b + 1}
      BY <2>2
    <3>3. InFlight(s) = a + b + c + d + last /\ InFlight(s)' = x + y + c + d + last
      BY <1>b, <2>1 DEF InFlight
    <3> HIDE DEF a, b, x, y, c, d, last
    <3> QED
      BY <3>1, <3>2, <3>3
  <2>4. InFlight(s)' \in Nat
    BY <1>a DEF Counted
  <2>5. CASE phase'[s] = "cancelled"
    BY <1>e, <2>1, <2>3, <2>5
  <2>6. CASE phase' = phase
    BY <2>1, <2>3, <2>4, <2>6, SameLoad DEF Waiting, Answered, Ahead
  <2> QED
    BY <2>1, <2>5, <2>6
<1> QED
  BY <1>1, <1>2, <1>3, <1>4, <1>5 DEF SessionStep

\* A result meets the waiter of a loop that waits, or that has yet to send.
LEMMA CompleteLoad ==
  ASSUME Base, Base', UNCHANGED clientVars, NEW s \in Sessions, NEW lost \in Nat, Load(s, lost),
         CompleteJob(s)
  PROVE  Load(s, lost)'
<1> USE SlotsAssumption
<1> DEFINE r == Head(toServer[s])
           l == pending[s][r.job]
<1>a. ServerTypeOK /\ WireTypeOK /\ WaiterInv /\ Counted(s) /\ Counted(s)'
  BY FlightType, FlightTypeNext DEF Base, TypeOK
<1>b. Attached(s)' = Attached(s) /\ Busy(s)' = Busy(s) /\ UNCHANGED <<parked, results>>
  BY DEF Attached, Busy, clientVars
<1>c. /\ Cardinality(Waiting(s)) \in Nat /\ Cardinality(Answered(s)) \in Nat
      /\ Bounded(InFlight(s), phase[s], Waiting(s), Answered(s), Ahead(s), lost)
  BY CountLoops DEF Load, Waiting, Answered
<1>1. /\ phase[s] = "open" /\ UNCHANGED <<out, toWorker, phase, lpc, slips>>
      /\ toServer[s] # <<>> /\ toServer[s] \in Seq(Results) /\ toServer'[s] = Tail(toServer[s])
      /\ waiter' = IF l = 0 THEN waiter ELSE [waiter EXCEPT ![s][l] = r.outcome]
  BY <1>a DEF CompleteJob, WireTypeOK
<1>2. r.job \in Jobs /\ r.outcome # "waiting" /\ l \in 0..Slots
  <2>1. r \in Results
    BY <1>1, Taken
  <2> QED
    BY <1>a, <2>1 DEF Results, Outcomes, ServerTypeOK
<1>3. InFlight(s)' = InFlight(s) - 1 /\ InFlight(s) \in Nat /\ InFlight(s)' \in Nat
  <2> DEFINE a == Len(out[s])
             b == Len(toWorker[s])
             c == Len(toServer[s])
             x == Len(toServer'[s])
             d == Cardinality(Busy(s))
             last == IF Attached(s) THEN Len(parked) + Len(results) ELSE 0
  <2>1. a \in Nat /\ b \in Nat /\ c \in Nat /\ d \in Nat /\ last \in Nat
    BY <1>a DEF Counted
  <2>2. x = c - 1
    BY <1>1
  <2>3. InFlight(s) = a + b + c + d + last /\ InFlight(s)' = a + b + x + d + last
    BY <1>b, <1>1 DEF InFlight
  <2> HIDE DEF a, b, c, x, d, last
  <2>4. InFlight(s)' = InFlight(s) - 1
    BY <2>1, <2>2, <2>3
  <2> QED
    BY <1>a, <2>4 DEF Counted
<1> HIDE DEF r
<1>4. CASE l = 0
  <2>1. Waiting(s)' = Waiting(s) /\ Answered(s)' = Answered(s) /\ Ahead(s)' = Ahead(s)
    BY <1>1, <1>4 DEF Waiting, Answered, Ahead
  <2> QED
    BY <1>1, <1>3, <2>1, SameLoad
<1>5. CASE l # 0
  <2>1. l \in Loops /\ lpc[s][l] \in {"send", "await"} /\ waiter[s][l] = "waiting"
    BY <1>a, <1>2, <1>5 DEF WaiterInv, Loops
  <2>2. /\ waiter'[s][l] # "waiting" /\ \A k \in Loops : k # l => waiter'[s][k] = waiter[s][k]
    BY <1>a, <1>1, <1>2, <1>5, <2>1 DEF ServerTypeOK
  <2> HIDE DEF l
  <2>3. CASE lpc[s][l] = "send"
    <3>1. Waiting(s)' = Waiting(s) /\ Answered(s)' = Answered(s) \cup {l} /\ l \notin Answered(s)
      BY <1>1, <2>1, <2>2, <2>3 DEF Waiting, Answered
    <3>2. Cardinality(Answered(s)') = Cardinality(Answered(s)) + 1
      BY <2>1, <3>1, CountLoops DEF Answered
    <3>3. InFlight(s)' + Cardinality(Answered(s)') <= Cardinality(Waiting(s)') + lost
      BY <1>c, <1>1, <1>3, <3>1, <3>2 DEF Bounded
    <3> QED
      BY <1>1, <1>3, <3>3 DEF Load, Bounded
  <2>4. CASE lpc[s][l] = "await"
    <3>1. Waiting(s)' = Waiting(s) \ {l} /\ Answered(s)' = Answered(s) /\ l \in Waiting(s)
      BY <1>1, <2>1, <2>2, <2>4 DEF Waiting, Answered
    <3>2. Cardinality(Waiting(s)') = Cardinality(Waiting(s)) - 1
      BY <2>1, <3>1, CountLoops DEF Waiting
    <3>3. InFlight(s)' + Cardinality(Answered(s)') <= Cardinality(Waiting(s)') + lost
      BY <1>c, <1>1, <1>3, <3>1, <3>2 DEF Bounded
    <3> QED
      BY <1>1, <1>3, <3>3 DEF Load, Bounded
  <2> QED
    BY <2>1, <2>3, <2>4
<1> QED
  BY <1>4, <1>5

\* A loop registers for a job that another of its session waits for.
Overwrites(s, l) == Register(s, l) /\ pending[s][job[s][l]] # 0

\* A lease loop sends what it has not got an answer for, or had one for already.
LEMMA LoopLoad ==
  ASSUME Base, Base', UNCHANGED clientVars, NEW s \in Sessions, NEW l \in Loops,
         NEW lost \in Nat, Load(s, lost), LoopStep(s, l), ~Overwrites(s, l)
  PROVE  Load(s, lost)'
<1> USE SlotsAssumption DEF LoopGoto
<1>a. ServerTypeOK /\ WireTypeOK /\ WaiterInv /\ LoopInv /\ Counted(s) /\ Counted(s)'
  BY FlightType, FlightTypeNext DEF Base, TypeOK
<1>b. Attached(s)' = Attached(s) /\ Busy(s)' = Busy(s) /\ UNCHANGED <<parked, results>>
  BY DEF Attached, Busy, clientVars
<1>c. /\ Cardinality(Waiting(s)) \in Nat /\ Cardinality(Answered(s)) \in Nat
      /\ Cardinality(Ahead(s)) \in Nat
      /\ Bounded(InFlight(s), phase[s], Waiting(s), Answered(s), Ahead(s), lost)
  BY CountLoops DEF Load, Waiting, Answered, Ahead
\* Nothing is sent.
<1>d. ASSUME UNCHANGED <<out, toWorker, toServer>>
      PROVE  InFlight(s)' = InFlight(s) /\ InFlight(s) \in Nat
  BY <1>a, <1>b, <1>d DEF InFlight, Counted
<1>1. CASE LoopExits(s, l)
  <2>1. UNCHANGED <<out, toWorker, toServer, phase, slips>>
    BY <1>1 DEF LoopExits, wireVars
  <2>2. Waiting(s)' = Waiting(s) /\ Answered(s)' = Answered(s) /\ Ahead(s)' = Ahead(s)
    BY <1>a, <1>1 DEF LoopExits, ServerTypeOK, Waiting, Answered, Ahead
  <2> QED
    BY <1>d, <2>1, <2>2, SameLoad
<1>2. CASE Register(s, l)
  <2>1. UNCHANGED <<out, toWorker, toServer, phase, slips>>
    BY <1>2 DEF Register, wireVars
  <2>2. Ahead(s)' = Ahead(s)
    BY <1>a, <1>2 DEF Register, ServerTypeOK, Ahead
  <2>3. Waiting(s)' = Waiting(s) /\ Answered(s)' = Answered(s)
    <3>1. lpc[s][l] = "register"
      BY <1>2 DEF Register
    <3>2. pending[s][job[s][l]] = 0
      BY <1>2 DEF Overwrites
    <3>3. /\ waiter'[s][l] = "waiting" /\ \A k \in Loops : k # l => waiter'[s][k] = waiter[s][k]
          /\ lpc'[s][l] = "send" /\ \A k \in Loops : k # l => lpc'[s][k] = lpc[s][k]
      BY <1>a, <1>2, <3>2 DEF Register, ServerTypeOK, Loops
    <3> QED
      BY <3>1, <3>3 DEF Waiting, Answered
  <2> QED
    BY <1>d, <2>1, <2>2, <2>3, SameLoad
<1>3. CASE SendJob(s, l)
  <2>1. /\ lpc[s][l] = "send" /\ phase[s] # "closed"
        /\ UNCHANGED <<toWorker, toServer, phase, slips, waiter>>
        /\ out[s] \in Seq(Jobs) /\ job[s][l] \in Jobs /\ out'[s] = Append(out[s], job[s][l])
        /\ lpc'[s] = [lpc[s] EXCEPT ![l] = "await"]
    BY <1>a, <1>3 DEF SendJob, LoopInv, Handling, ServerTypeOK, wireVars
  <2>2. InFlight(s)' = InFlight(s) + 1 /\ InFlight(s) \in Nat
    <3> DEFINE a == Len(out[s])
               b == Len(toWorker[s])
               c == Len(toServer[s])
               x == Len(out'[s])
               d == Cardinality(Busy(s))
               last == IF Attached(s) THEN Len(parked) + Len(results) ELSE 0
    <3>1. a \in Nat /\ b \in Nat /\ c \in Nat /\ d \in Nat /\ last \in Nat
      BY <1>a DEF Counted
    <3>2. x = a + 1
      BY <2>1
    <3>3. InFlight(s) = a + b + c + d + last /\ InFlight(s)' = x + b + c + d + last
      BY <1>b, <2>1 DEF InFlight
    <3> HIDE DEF a, b, c, x, d, last
    <3> QED
      BY <3>1, <3>2, <3>3
  <2>3. phase[s] # "none"
    BY <1>a, <2>1 DEF LoopInv
  <2>4. Ahead(s)' = Ahead(s) \ {l} /\ l \in Ahead(s)
    BY <1>a, <2>1 DEF Ahead, ServerTypeOK
  <2>5. Cardinality(Ahead(s)') = Cardinality(Ahead(s)) - 1
    BY <2>4, CountLoops DEF Ahead
  <2>6. InFlight(s)' + Cardinality(Ahead(s)') = InFlight(s) + Cardinality(Ahead(s))
    BY <1>c, <2>2, <2>5
  <2>7. CASE waiter[s][l] = "waiting"
    <3>1. Waiting(s)' = Waiting(s) \cup {l} /\ l \notin Waiting(s) /\ Answered(s)' = Answered(s)
      BY <1>a, <2>1, <2>7 DEF Waiting, Answered, ServerTypeOK
    <3>2. Cardinality(Waiting(s)') = Cardinality(Waiting(s)) + 1
      BY <3>1, CountLoops DEF Waiting
    <3>3. phase[s] = "open" =>
             InFlight(s)' + Cardinality(Answered(s)') <= Cardinality(Waiting(s)') + lost
      BY <1>c, <2>2, <3>1, <3>2 DEF Bounded
    <3> QED
      BY <1>c, <2>1, <2>2, <2>3, <2>6, <3>3 DEF Load, Bounded
  <2>8. CASE waiter[s][l] # "waiting"
    <3>1. Answered(s)' = Answered(s) \ {l} /\ l \in Answered(s) /\ Waiting(s)' = Waiting(s)
      BY <1>a, <2>1, <2>8 DEF Waiting, Answered, ServerTypeOK
    <3>2. Cardinality(Answered(s)') = Cardinality(Answered(s)) - 1
      BY <3>1, CountLoops DEF Answered
    <3>3. phase[s] = "open" =>
             InFlight(s)' + Cardinality(Answered(s)') <= Cardinality(Waiting(s)') + lost
      BY <1>c, <2>2, <3>1, <3>2 DEF Bounded
    <3> QED
      BY <1>c, <2>1, <2>2, <2>3, <2>6, <3>3 DEF Load, Bounded
  <2> QED
    BY <2>7, <2>8
<1>4. CASE SendFails(s, l)
  <2>1. UNCHANGED <<out, toWorker, toServer, phase, slips>> /\ phase[s] = "closed"
    BY <1>4 DEF SendFails, Finish, wireVars
  <2>2. Ahead(s)' = Ahead(s) \ {l} /\ l \in Ahead(s)
    BY <1>a, <1>4 DEF SendFails, Finish, ServerTypeOK, Ahead
  <2>3. Cardinality(Ahead(s)') = Cardinality(Ahead(s)) - 1
    BY <2>2, CountLoops DEF Ahead
  <2>4. InFlight(s)' + Cardinality(Ahead(s)') <= Slots + lost
    BY <1>c, <1>d, <2>1, <2>3 DEF Bounded
  <2> QED
    BY <1>d, <2>1, <2>4 DEF Load, Bounded
<1>5. CASE Wake(s, l)
  <2>1. UNCHANGED <<out, toWorker, toServer, phase, slips>>
    BY <1>5 DEF Wake, Finish, wireVars
  <2>2. Waiting(s)' = Waiting(s) /\ Answered(s)' = Answered(s) /\ Ahead(s)' = Ahead(s)
    BY <1>a, <1>5 DEF Wake, Finish, ServerTypeOK, Waiting, Answered, Ahead
  <2> QED
    BY <1>d, <2>1, <2>2, SameLoad
<1>6. ASSUME NEW j \in Jobs, LeaseJob(s, l, j) PROVE Load(s, lost)'
  <2>1. UNCHANGED <<out, toWorker, toServer, phase, slips>> /\ phase[s] = "open"
    BY <1>6 DEF LeaseJob, Cancelled, wireVars
  <2>2. Waiting(s)' = Waiting(s) /\ Answered(s)' = Answered(s)
    BY <1>a, <1>6 DEF LeaseJob, ServerTypeOK, Waiting, Answered
  <2> QED
    BY <1>c, <1>d, <2>1, <2>2 DEF Load, Bounded
<1> QED
  BY <1>1, <1>2, <1>3, <1>4, <1>5, <1>6 DEF LoopStep

\* An overwritten waiter is one loop less that waits.
LEMMA OverwriteLoad ==
  ASSUME Base, Base', UNCHANGED clientVars, NEW s \in Sessions, NEW l \in Loops,
         NEW lost \in Nat, Load(s, lost), Overwrites(s, l)
  PROVE  Load(s, lost + 1)'
<1> USE SlotsAssumption DEF LoopGoto
<1> DEFINE k == pending[s][job[s][l]]
<1>a. ServerTypeOK /\ WaiterInv /\ LoopInv /\ Counted(s) /\ Counted(s)'
  BY FlightType, FlightTypeNext DEF Base, TypeOK
<1>b. Attached(s)' = Attached(s) /\ Busy(s)' = Busy(s) /\ UNCHANGED <<parked, results>>
  BY DEF Attached, Busy, clientVars
<1>c. /\ Cardinality(Waiting(s)) \in Nat /\ Cardinality(Answered(s)) \in Nat
      /\ Cardinality(Ahead(s)) \in Nat
      /\ Bounded(InFlight(s), phase[s], Waiting(s), Answered(s), Ahead(s), lost)
  BY CountLoops DEF Load, Waiting, Answered, Ahead
<1>1. UNCHANGED <<out, toWorker, toServer, phase>>
  BY DEF Overwrites, Register, wireVars
<1>2. InFlight(s)' = InFlight(s) /\ InFlight(s) \in Nat
  BY <1>a, <1>b, <1>1 DEF InFlight, Counted
<1>3. Ahead(s)' = Ahead(s)
  BY <1>a DEF Overwrites, Register, ServerTypeOK, Ahead
<1>4. lpc[s][l] = "register" /\ job[s][l] \in Jobs /\ k # 0
  BY <1>a DEF Overwrites, Register, LoopInv, Handling
<1>5. k \in Loops /\ lpc[s][k] \in {"send", "await"} /\ waiter[s][k] = "waiting" /\ k # l
  BY <1>a, <1>4 DEF WaiterInv, ServerTypeOK, Loops
<1>6. /\ waiter'[s][l] = "waiting" /\ waiter'[s][k] = "dropped"
      /\ \A x \in Loops : x \notin {k, l} => waiter'[s][x] = waiter[s][x]
      /\ lpc'[s][l] = "send" /\ \A x \in Loops : x # l => lpc'[s][x] = lpc[s][x]
  BY <1>a, <1>5 DEF Overwrites, Register, ServerTypeOK
<1> HIDE DEF k
<1>7. CASE lpc[s][k] = "send"
  <2>1. Waiting(s)' = Waiting(s) /\ Answered(s)' = Answered(s) \cup {k} /\ k \notin Answered(s)
    BY <1>4, <1>5, <1>6, <1>7 DEF Waiting, Answered
  <2>2. Cardinality(Answered(s)') = Cardinality(Answered(s)) + 1
    BY <1>5, <2>1, CountLoops DEF Answered
  <2> QED
    BY <1>c, <1>1, <1>2, <1>3, <2>1, <2>2 DEF Load, Bounded
<1>8. CASE lpc[s][k] = "await"
  <2>1. Waiting(s)' = Waiting(s) \ {k} /\ Answered(s)' = Answered(s) /\ k \in Waiting(s)
    BY <1>4, <1>5, <1>6, <1>8 DEF Waiting, Answered
  <2>2. Cardinality(Waiting(s)') = Cardinality(Waiting(s)) - 1
    BY <1>5, <2>1, CountLoops DEF Waiting
  <2> QED
    BY <1>c, <1>1, <1>2, <1>3, <2>1, <2>2 DEF Load, Bounded
<1> QED
  BY <1>5, <1>7, <1>8

LEMMA LoadMore ==
  ASSUME TypeOK', NEW s \in Sessions, NEW lost \in Nat, Load(s, lost)'
  PROVE  Load(s, lost + 1)'
<1>1. /\ Cardinality(Waiting(s))' \in Nat /\ Cardinality(Answered(s))' \in Nat
      /\ Cardinality(Ahead(s))' \in Nat /\ Slots \in Nat
  <2>1. /\ Cardinality(Waiting(s)) \in Nat /\ Cardinality(Answered(s)) \in Nat
        /\ Cardinality(Ahead(s)) \in Nat
    BY CountLoops DEF Waiting, Answered, Ahead
  <2>2. (/\ Cardinality(Waiting(s)) \in Nat /\ Cardinality(Answered(s)) \in Nat
         /\ Cardinality(Ahead(s)) \in Nat)'
    BY CountLoops DEF Waiting, Answered, Ahead
  <2> QED
    BY <2>2, SlotsAssumption
<1> QED
  BY <1>1 DEF Load, Bounded

\* Handlers that fall away, jobs that are leased again when no one is left.
LEMMA OneHandlerKept ==
  ASSUME NEW extra, OneHandler(extra),
         \A h \in Live' : /\ h \in Live /\ JobOf(h)' = JobOf(h)
                          /\ JobOf(h) \in queue' => JobOf(h) \in queue
  PROVE  OneHandler(extra)'
BY DEF OneHandler

LEMMA PaidKept ==
  ASSUME NEW lost \in Nat, Paid(lost), slips' = slips,
         \A h \in Live' : /\ h \in Live /\ JobOf(h)' = JobOf(h)
                          /\ JobOf(h) \in queue' => JobOf(h) \in queue
  PROVE  Paid(lost)'
<1>1. PICK extra : IsFiniteSet(extra) /\ Cardinality(extra) + lost <= slips /\ OneHandler(extra)
  BY DEF Paid
<1>2. OneHandler(extra)'
  BY <1>1, OneHandlerKept
<1> QED
  BY <1>1, <1>2 DEF Paid

\* Two handle the job, so that one of them is extra; it is no longer.
LEMMA PaidOverwrite ==
  ASSUME Base, NEW s \in Sessions, NEW l \in Loops, Overwrites(s, l),
         NEW lost \in Nat, Paid(lost)
  PROVE  Paid(lost + 1)'
<1> USE DEF LoopGoto
<1>k. PICK k : k = pending[s][job[s][l]]
  OBVIOUS
<1> DEFINE mine == <<s, l>>
           theirs == <<s, k>>
<1>a. ServerTypeOK /\ WaiterInv /\ LoopInv
  BY DEF Base, TypeOK
<1>1. lpc[s][l] = "register" /\ job[s][l] \in Jobs /\ k # 0
  BY <1>a, <1>k DEF Overwrites, Register, LoopInv, Handling
<1>2. /\ k \in Loops /\ lpc[s][k] \in {"send", "await"} /\ waiter[s][k] = "waiting" /\ k # l
      /\ job[s][k] = job[s][l]
  <2> DEFINE j == job[s][l]
  <2>1. j \in Jobs /\ pending[s][j] # 0 /\ pending[s][j] \in Loops /\ k = pending[s][j]
    BY <1>a, <1>k, <1>1 DEF ServerTypeOK, Loops
  <2> HIDE DEF j
  <2>2. lpc[s][k] \in {"send", "await"} /\ waiter[s][k] = "waiting" /\ job[s][k] = j
    BY <1>a, <2>1 DEF WaiterInv
  <2>3. k # l
    BY <1>1, <2>2
  <2> QED
    BY <2>1, <2>2, <2>3 DEF j
<1>3. /\ lpc' = [lpc EXCEPT ![s][l] = "send"] /\ UNCHANGED <<queue, slips, job>>
      /\ waiter' = [waiter EXCEPT ![s] = [x \in Loops |->
             IF x = l THEN "waiting" ELSE IF x = k THEN "dropped" ELSE @[x]]]
  BY <1>k DEF Overwrites, Register
<1>4. /\ mine \in Live /\ theirs \in Live /\ mine # theirs /\ JobOf(mine) = JobOf(theirs)
  BY <1>1, <1>2 DEF Live, JobOf
<1>5. Live' \subseteq Live /\ theirs \notin Live' /\ \A h : JobOf(h)' = JobOf(h)
  <2>1. \A t \in Sessions, x \in Loops : <<t, x>> # <<s, l>> => lpc'[t][x] = lpc[t][x]
    BY <1>a, <1>3 DEF ServerTypeOK
  <2>2. \A t \in Sessions, x \in Loops : <<t, x>> \notin {<<s, l>>, <<s, k>>} =>
           waiter'[t][x] = waiter[t][x]
    BY <1>a, <1>3 DEF ServerTypeOK
  <2>3. waiter'[s][k] = "dropped" /\ lpc'[s][k] = lpc[s][k]
    BY <1>a, <1>2, <1>3 DEF ServerTypeOK
  <2>4. theirs \notin Live'
    BY <1>2, <2>3 DEF Live
  <2>5. ASSUME NEW h \in Live', h # mine, h # theirs PROVE h \in Live
    <3>1. h[1] \in Sessions /\ h[2] \in Loops /\ h = <<h[1], h[2]>>
      BY DEF Live
    <3>2. lpc'[h[1]][h[2]] = lpc[h[1]][h[2]] /\ waiter'[h[1]][h[2]] = waiter[h[1]][h[2]]
      BY <2>1, <2>2, <2>5, <3>1
    <3> QED
      BY <3>1, <3>2 DEF Live
  <2> QED
    BY <1>3, <1>4, <2>4, <2>5 DEF JobOf
<1> HIDE DEF mine, theirs
<1>6. PICK extra : IsFiniteSet(extra) /\ Cardinality(extra) + lost <= slips /\ OneHandler(extra)
  BY DEF Paid
<1>7. mine \in extra \/ theirs \in extra
  BY <1>4, <1>6 DEF OneHandler
<1>8. ASSUME NEW x \in extra, OneHandler(extra \ {x})' PROVE Paid(lost + 1)'
  <2>1. /\ IsFiniteSet(extra \ {x}) /\ Cardinality(extra \ {x}) = Cardinality(extra) - 1
        /\ Cardinality(extra) \in Nat
    BY <1>6, FS_RemoveElement, FS_CardinalityType
  <2>2. slips \in Nat
    BY <1>a, SlipsAssumption DEF ServerTypeOK
  <2>3. Cardinality(extra \ {x}) + (lost + 1) <= slips'
    BY <1>3, <1>6, <2>1, <2>2
  <2> QED
    BY <1>8, <2>1, <2>3 DEF Paid
<1>9. CASE theirs \in extra
  <2> DEFINE rest == extra \ {theirs}
  <2>1. \A h \in Live' \ rest : h \in Live \ extra
    BY <1>5
  <2> HIDE DEF rest
  <2>2. OneHandler(rest)'
    BY <1>3, <1>5, <1>6, <2>1 DEF OneHandler
  <2> QED
    BY <1>8, <1>9, <2>2 DEF rest
<1>10. CASE mine \in extra /\ theirs \notin extra
  <2>1. \A h \in Live' \ (extra \ {mine}) :
           h = mine \/ (h \in Live \ extra /\ h # theirs)
    BY <1>5
  <2>2. \A h \in Live \ extra : h # theirs => JobOf(h) # JobOf(mine)
    BY <1>4, <1>6, <1>10 DEF OneHandler
  <2>3. JobOf(mine) \notin queue
    BY <1>4, <1>6, <1>10 DEF OneHandler
  <2>4. OneHandler(extra \ {mine})'
    BY <1>3, <1>5, <1>6, <2>1, <2>2, <2>3 DEF OneHandler
  <2> QED
    BY <1>8, <1>10, <2>4
<1> QED
  BY <1>7, <1>9, <1>10

\* A lease that is lost makes whoever holds it extra.
LEMMA PaidSlip ==
  ASSUME Base, NEW j \in Jobs, LeaseSlips(j), NEW lost \in Nat, Paid(lost)
  PROVE  Paid(lost)'
<1>1. PICK extra : IsFiniteSet(extra) /\ Cardinality(extra) + lost <= slips /\ OneHandler(extra)
  BY DEF Paid
<1>2. slips' = slips + 1 /\ queue' = queue \cup {j} /\ Live' = Live /\ \A h : JobOf(h)' = JobOf(h)
  BY DEF LeaseSlips, Live, JobOf
<1>3. slips \in Nat /\ Cardinality(extra) \in Nat
  BY <1>1, SlipsAssumption, FS_CardinalityType DEF Base, TypeOK, ServerTypeOK
<1>4. CASE \A h \in Live \ extra : JobOf(h) # j
  <2>1. OneHandler(extra)'
    BY <1>1, <1>2, <1>4 DEF OneHandler
  <2>2. Cardinality(extra) + lost <= slips'
    BY <1>1, <1>2, <1>3
  <2> QED
    BY <1>1, <2>1, <2>2 DEF Paid
<1>5. ASSUME NEW h \in Live \ extra, JobOf(h) = j PROVE Paid(lost)'
  <2> DEFINE more == extra \cup {h}
  <2>1. OneHandler(more)'
    BY <1>1, <1>2, <1>5 DEF OneHandler
  <2>2. IsFiniteSet(more) /\ Cardinality(more) = Cardinality(extra) + 1
    BY <1>1, FS_AddElement
  <2>3. Cardinality(more) + lost <= slips'
    BY <1>1, <1>2, <1>3, <2>2
  <2> HIDE DEF more
  <2> QED
    BY <2>1, <2>2, <2>3 DEF Paid
<1> QED
  BY <1>4, <1>5

\* The steps of the loops.
LEMMA PaidLoop ==
  ASSUME Base, NEW s \in Sessions, NEW l \in Loops, LoopStep(s, l), NEW lost \in Nat, Paid(lost)
  PROVE  Paid(lost)'
<1> USE DEF LoopGoto
<1>a. ServerTypeOK /\ LoopInv /\ WaiterInv
  BY DEF Base, TypeOK
<1>1. CASE LoopExits(s, l) \/ SendJob(s, l)
  <2>1. /\ UNCHANGED <<queue, slips, job, waiter>>
        /\ \A t \in Sessions, x \in Loops : <<t, x>> # <<s, l>> => lpc'[t][x] = lpc[t][x]
        /\ \/ lpc'[s][l] = "exited"
           \/ lpc[s][l] = "send" /\ lpc'[s][l] = "await"
    BY <1>a, <1>1 DEF LoopExits, SendJob, ServerTypeOK
  <2>2. ASSUME NEW h \in Live' PROVE h \in Live /\ JobOf(h)' = JobOf(h)
    BY <2>1 DEF Live, JobOf
  <2> QED
    BY <2>1, <2>2, PaidKept
<1>2. CASE Register(s, l)
  <2>1. /\ UNCHANGED <<queue, slips, job>> /\ lpc[s][l] = "register"
        /\ \A t \in Sessions, x \in Loops : <<t, x>> # <<s, l>> =>
              lpc'[t][x] = lpc[t][x] /\ waiter'[t][x] \in {waiter[t][x], "dropped"}
    BY <1>a, <1>2 DEF Register, ServerTypeOK
  <2>2. ASSUME NEW h \in Live' PROVE h \in Live /\ JobOf(h)' = JobOf(h)
    BY <2>1 DEF Live, JobOf
  <2> QED
    BY <2>1, <2>2, PaidKept
<1>3. CASE SendFails(s, l) \/ Wake(s, l)
  <2>1. /\ lpc[s][l] \in Handling /\ lpc'[s][l] = "idle" /\ slips' = slips
        /\ job' = [job EXCEPT ![s][l] = NoJob]
        /\ \A t \in Sessions, x \in Loops : <<t, x>> # <<s, l>> =>
              /\ lpc'[t][x] = lpc[t][x] /\ job'[t][x] = job[t][x]
              /\ waiter'[t][x] \in {waiter[t][x], "dropped"}
        /\ \/ queue' \subseteq queue
           \/ ~HeldElsewhere(s, l) /\ queue' \subseteq (queue \cup {job[s][l]})
    BY <1>a, <1>3 DEF SendFails, Wake, Finish, ServerTypeOK, Handling
  <2>2. ASSUME NEW h \in Live'
        PROVE  /\ h \in Live /\ JobOf(h)' = JobOf(h)
               /\ JobOf(h) \in queue' => JobOf(h) \in queue
    <3>1. h[1] \in Sessions /\ h[2] \in Loops /\ h = <<h[1], h[2]>>
      BY DEF Live
    <3>2. h # <<s, l>>
      BY <2>1, <3>1 DEF Live
    <3>3. h \in Live /\ JobOf(h)' = JobOf(h)
      BY <2>1, <3>1, <3>2 DEF Live, JobOf
    <3>4. ~HeldElsewhere(s, l) => JobOf(h) # job[s][l]
      BY <3>1, <3>2 DEF HeldElsewhere, JobOf
    <3> QED
      BY <2>1, <3>3, <3>4
  <2> QED
    BY <2>1, <2>2, PaidKept
<1>4. ASSUME NEW j \in Jobs, LeaseJob(s, l, j) PROVE Paid(lost)'
  <2>1. PICK extra : IsFiniteSet(extra) /\ Cardinality(extra) + lost <= slips /\ OneHandler(extra)
    BY DEF Paid
  <2> DEFINE mine == <<s, l>>
  <2>2. /\ j \in queue /\ queue' = queue \ {j} /\ UNCHANGED <<slips, waiter>>
        /\ job'[s][l] = j
        /\ \A t \in Sessions, x \in Loops : <<t, x>> # <<s, l>> =>
              lpc'[t][x] = lpc[t][x] /\ job'[t][x] = job[t][x]
    BY <1>a, <1>4 DEF LeaseJob, ServerTypeOK
  <2>3. ASSUME NEW h \in Live', h # mine PROVE h \in Live /\ JobOf(h)' = JobOf(h)
    BY <2>2, <2>3 DEF Live, JobOf
  <2>4. JobOf(mine)' = j
    BY <2>2 DEF JobOf
  <2> HIDE DEF mine
  <2>5. \A h \in Live \ extra : JobOf(h) # j /\ JobOf(h) \notin queue
    BY <2>1, <2>2 DEF OneHandler
  <2>6. OneHandler(extra)'
    BY <2>1, <2>2, <2>3, <2>4, <2>5 DEF OneHandler
  <2> QED
    BY <2>1, <2>2, <2>6 DEF Paid
<1> QED
  BY <1>1, <1>2, <1>3, <1>4 DEF LoopStep

\* The others wake loops, drop waiters, or have nothing to do with them.
LEMMA PaidServer ==
  ASSUME Base, Base', NEW lost \in Nat, Paid(lost), ServerNext
  PROVE  Paid(lost)'
<1>a. ServerTypeOK /\ LoopInv /\ WaiterInv
  BY DEF Base, TypeOK
\* No loop moves, and no waiter comes to wait.
<1>b. ASSUME UNCHANGED <<queue, slips, job, lpc>>,
             \A t \in Sessions, x \in Loops :
                waiter'[t][x] = "waiting" => waiter[t][x] = "waiting"
      PROVE  Paid(lost)'
  <2>1. ASSUME NEW h \in Live' PROVE h \in Live /\ JobOf(h)' = JobOf(h)
    BY <1>b DEF Live, JobOf
  <2> QED
    BY <1>b, <2>1, PaidKept
<1>1. ASSUME NEW s \in Sessions, Accept(s) PROVE Paid(lost)'
  <2>1. /\ UNCHANGED <<queue, slips, job, waiter>>
        /\ lpc' = [lpc EXCEPT ![s] = [x \in Loops |-> "idle"]]
    BY <1>1 DEF Accept
  <2>2. ASSUME NEW h \in Live' PROVE h \in Live /\ JobOf(h)' = JobOf(h)
    <3>1. h[1] # s
      BY <1>a, <2>1 DEF Live, ServerTypeOK
    <3> QED
      BY <1>a, <2>1, <3>1 DEF Live, JobOf, ServerTypeOK
  <2> QED
    BY <2>1, <2>2, PaidKept
<1>2. ASSUME NEW s \in Sessions, Break(s) \/ Close(s) \/ Forward(s) PROVE Paid(lost)'
  BY <1>b, <1>2 DEF Break, Close, Forward
<1>3. ASSUME NEW s \in Sessions, ClearWaiters(s) PROVE Paid(lost)'
  <2>1. \A t \in Sessions, x \in Loops : waiter'[t][x] = "waiting" => waiter[t][x] = "waiting"
    BY <1>a, <1>3 DEF ClearWaiters, ServerTypeOK
  <2> QED
    BY <1>b, <1>3, <2>1 DEF ClearWaiters
<1>4. ASSUME NEW s \in Sessions, CompleteJob(s) PROVE Paid(lost)'
  <2> DEFINE m == Head(toServer[s])
  <2>1. m.outcome # "waiting"
    <3>1. toServer[s] \in Seq(Results) /\ toServer[s] # <<>>
      BY <1>4 DEF CompleteJob, Base, TypeOK, WireTypeOK
    <3>2. m \in Results
      BY <3>1, Taken
    <3> QED
      BY <3>2 DEF Results, Outcomes
  <2>2. /\ UNCHANGED <<queue, slips, job, lpc>>
        /\ waiter' = IF pending[s][m.job] = 0 THEN waiter
                     ELSE [waiter EXCEPT ![s][pending[s][m.job]] = m.outcome]
    BY <1>4 DEF CompleteJob
  <2> HIDE DEF m
  <2>3. \A t \in Sessions, x \in Loops : waiter'[t][x] = "waiting" => waiter[t][x] = "waiting"
    BY <1>a, <2>1, <2>2 DEF ServerTypeOK
  <2> QED
    BY <1>b, <2>2, <2>3
<1>5. CASE Shutdown
  BY <1>b, <1>5 DEF Shutdown
<1> QED
  BY <1>1, <1>2, <1>3, <1>4, <1>5, PaidLoop, PaidSlip DEF ServerNext, SessionStep

LEMMA ServerLoad ==
  ASSUME Base, Base', LoadInv, ServerNext, UNCHANGED clientVars
  PROVE  LoadInv'
<1> USE DEF LoopGoto
<1>a. TypeOK' /\ ServerTypeOK /\ WireTypeOK
  BY DEF Base, TypeOK
<1>b. IdleInv'
  BY DEF LoadInv, IdleInv, clientVars
<1>c. PICK lost \in Nat : Paid(lost) /\ \A t \in Sessions : Load(t, lost)
  BY DEF LoadInv
<1>1. ASSUME NEW s \in Sessions, SessionStep(s) \/ Forward(s) \/ CompleteJob(s)
      PROVE  \A t \in Sessions : Load(t, lost)'
  <2>1. Load(s, lost)'
    BY <1>c, <1>1, SessionLoad, CompleteLoad
  <2>2. \A t \in Sessions \ {s} :
           UNCHANGED <<phase[t], lpc[t], waiter[t], out[t], toWorker[t], toServer[t]>>
    BY <1>a, <1>1 DEF SessionStep, Accept, Break, ClearWaiters, Close, Forward, CompleteJob,
       ServerTypeOK, WireTypeOK, wireVars
  <2> QED
    BY <1>a, <1>c, <2>1, <2>2, ElsewhereLoad
<1>d. ASSUME NEW s \in Sessions, NEW l \in Loops, LoopStep(s, l), NEW t \in Sessions \ {s}
      PROVE  UNCHANGED <<phase[t], lpc[t], waiter[t], out[t], toWorker[t], toServer[t]>>
  BY <1>a, <1>d DEF LoopStep, LoopExits, Register, SendJob, SendFails, Wake, LeaseJob, Finish,
     ServerTypeOK, WireTypeOK, wireVars
<1>2. ASSUME NEW s \in Sessions, NEW l \in Loops, LoopStep(s, l), ~Overwrites(s, l)
      PROVE  \A t \in Sessions : Load(t, lost)'
  <2>1. Load(s, lost)'
    BY <1>c, <1>2, LoopLoad
  <2> QED
    BY <1>a, <1>c, <1>d, <1>2, <2>1, ElsewhereLoad
<1>3. ASSUME NEW s \in Sessions, NEW l \in Loops, Overwrites(s, l)
      PROVE  LoadInv'
  <2>1. Load(s, lost + 1)'
    BY <1>c, <1>3, OverwriteLoad
  <2>2. LoopStep(s, l)
    BY <1>3 DEF Overwrites, LoopStep
  <2>3. ASSUME NEW t \in Sessions \ {s} PROVE Load(t, lost + 1)'
    <3>1. UNCHANGED <<phase[t], lpc[t], waiter[t], out[t], toWorker[t], toServer[t]>>
      BY <1>d, <2>2
    <3>2. Load(t, lost)'
      BY <1>a, <1>c, <3>1, UntouchedLoad
    <3> QED
      BY <1>a, <1>c, <3>2, LoadMore
  <2>4. Paid(lost + 1)'
    BY <1>c, <1>3, PaidOverwrite
  <2>5. lost + 1 \in Nat /\ \A t \in Sessions : Load(t, lost + 1)'
    BY <1>c, <2>1, <2>3
  <2> QED
    BY <1>b, <2>4, <2>5 DEF LoadInv
<1>4. ASSUME UNCHANGED <<wireVars, phase, out, lpc, waiter>>
      PROVE  \A t \in Sessions : Load(t, lost)'
  <2> SUFFICES ASSUME NEW t \in Sessions PROVE Load(t, lost)'
    OBVIOUS
  <2>1. UNCHANGED <<phase[t], lpc[t], waiter[t], out[t], toWorker[t], toServer[t]>>
    BY <1>4 DEF wireVars
  <2> QED
    BY <1>a, <1>c, <2>1, UntouchedLoad
<1>5. ASSUME (\E j \in Jobs : LeaseSlips(j)) \/ Shutdown
      PROVE  \A t \in Sessions : Load(t, lost)'
  BY <1>4, <1>5 DEF LeaseSlips, Shutdown
<1>6. ASSUME \A t \in Sessions : Load(t, lost)' PROVE LoadInv'
  <2>1. Paid(lost)'
    BY <1>c, PaidServer
  <2> QED
    BY <1>b, <1>c, <1>6, <2>1 DEF LoadInv
<1> QED
  BY <1>1, <1>2, <1>3, <1>5, <1>6 DEF ServerNext

\* The worker adds nothing to a session.
LEMMA ClientLoad ==
  ASSUME Base, Base', LoadInv, ClientNext, UNCHANGED serverVars
  PROVE  LoadInv'
<1> USE SlotsAssumption
<1>a. WireTypeOK /\ ServerTypeOK /\ ClientTypeOK /\ LinkInv
  BY DEF Base, TypeOK
<1>b. IdleInv
  BY DEF LoadInv
<1>0. PICK lost \in Nat : Paid(lost) /\ \A s \in Sessions : Load(s, lost)
  BY DEF LoadInv
<1>c. \A s \in Sessions : Counted(s) /\ Counted(s)'
  BY FlightType, FlightTypeNext DEF Base, TypeOK
\* It is enough that no stage grows but by what another loses.
<1>d. ASSUME IdleInv', \A s \in Sessions : InFlight(s)' <= InFlight(s) PROVE LoadInv'
  <2>1. ASSUME NEW s \in Sessions PROVE Load(s, lost)'
    <3>1. /\ UNCHANGED phase[s] /\ InFlight(s)' \in Nat
          /\ Waiting(s)' = Waiting(s) /\ Answered(s)' = Answered(s) /\ Ahead(s)' = Ahead(s)
      BY <1>c DEF serverVars, Waiting, Answered, Ahead, Counted
    <3> QED
      BY <1>0, <1>d, <3>1, SameLoad
  <2>2. Paid(lost)'
    BY <1>0 DEF Paid, OneHandler, Live, JobOf, serverVars
  <2> QED
    BY <1>0, <1>d, <2>1, <2>2 DEF LoadInv
<1> DEFINE Last(s) == IF Attached(s) THEN Len(parked) + Len(results) ELSE 0
\* The sums, compared.
<1>e. ASSUME NEW s \in Sessions,
             Len(toWorker'[s]) + Len(toServer'[s]) + Cardinality(Busy(s)') + Last(s)'
                <= Len(toWorker[s]) + Len(toServer[s]) + Cardinality(Busy(s)) + Last(s)
      PROVE  InFlight(s)' <= InFlight(s)
  <2> DEFINE a == Len(out[s])
             b == Len(toWorker[s])
             c == Len(toServer[s])
             d == Cardinality(Busy(s))
             e == Last(s)
             bb == Len(toWorker'[s])
             cc == Len(toServer'[s])
             dd == Cardinality(Busy(s)')
             ee == Last(s)'
  <2>1. /\ a \in Nat /\ b \in Nat /\ c \in Nat /\ d \in Nat /\ e \in Nat
        /\ bb \in Nat /\ cc \in Nat /\ dd \in Nat /\ ee \in Nat
    BY <1>c DEF Counted
  <2>2. InFlight(s) = a + b + c + d + e /\ InFlight(s)' = a + bb + cc + dd + ee
    BY DEF InFlight, serverVars
  <2>3. bb + cc + dd + ee <= b + c + d + e
    BY <1>e
  <2> HIDE DEF a, b, c, d, e, bb, cc, dd, ee
  <2> QED
    BY <2>1, <2>2, <2>3
<1> HIDE DEF Last
\* A stage that shrinks, or a stage that gains what the one before loses.
<1>f. ASSUME NEW s \in Sessions,
             UNCHANGED <<toWorker[s], toServer[s]>>, Busy(s)' = Busy(s), Last(s)' <= Last(s)
      PROVE  InFlight(s)' <= InFlight(s)
  <2> DEFINE b == Len(toWorker[s])
             c == Len(toServer[s])
             d == Cardinality(Busy(s))
  <2>1. b \in Nat /\ c \in Nat /\ d \in Nat
    BY <1>c DEF Counted
  <2>2. b + c + d + Last(s)' <= b + c + d + Last(s)
    <3>1. Last(s)' \in Nat /\ Last(s) \in Nat
      BY <1>c DEF Last, Counted
    <3> HIDE DEF b, c, d
    <3> QED
      BY <1>f, <2>1, <3>1
  <2> QED
    BY <1>e, <1>f, <2>2
<1>g. \A s \in Sessions : Last(s) \in Nat /\ Last(s)' \in Nat
  BY <1>c DEF Last, Counted
<1>h. cstate = "serving" \/ parked # <<>> =>
         /\ session \in Sessions /\ cstate = "serving"
         /\ Last(session) = Len(parked) + Len(results)
  BY <1>a, <1>b DEF LinkInv, ClientTypeOK, IdleInv, Sessions, Last, Attached
<1>1. CASE Dial
  <2>1. /\ UNCHANGED <<toWorker, toServer, task, parked, results>> /\ cstate # "serving"
    BY <1>1 DEF Dial
  <2>2. parked = <<>> /\ results = <<>>
    BY <1>b, <2>1 DEF IdleInv
  <2>3. \A s \in Sessions : Last(s)' = 0 /\ Last(s) = 0 /\ Busy(s)' = Busy(s)
    BY <2>1, <2>2 DEF Last, Busy
  <2>4. ASSUME NEW s \in Sessions PROVE InFlight(s)' <= InFlight(s)
    BY <1>f, <2>1, <2>3
  <2> QED
    BY <1>d, <2>1, <2>2, <2>4 DEF IdleInv
<1>2. CASE DialFails \/ Redial \/ WorkerRestarts
  <2>1. /\ UNCHANGED <<toWorker, toServer, task, parked, results, session>>
        /\ cstate # "serving" /\ cstate' # "serving"
    BY <1>2 DEF DialFails, Redial, WorkerRestarts, wireVars
  <2>2. \A s \in Sessions : Last(s)' = Last(s) /\ Busy(s)' = Busy(s)
    BY <2>1 DEF Last, Attached, Busy
  <2>3. ASSUME NEW s \in Sessions PROVE InFlight(s)' <= InFlight(s)
    BY <1>f, <1>g, <2>1, <2>2
  <2> QED
    BY <1>b, <1>d, <2>1, <2>3 DEF IdleInv
\* The session is over: what was queued on this side is dropped.
<1>3. ASSUME NEW next \in {"stopped", "backoff", "lost"},
             cstate = "serving", cstate' = next, UNCHANGED <<toServer, session>>,
             parked' = <<>>, results' = <<>>,
             toWorker' = [toWorker EXCEPT ![session] = <<>>],
             task' = task \/ task' = [p \in Permits |-> NoTask]
      PROVE  LoadInv'
  <2>1. IdleInv'
    BY <1>3 DEF IdleInv
  <2>2. ASSUME NEW s \in Sessions PROVE InFlight(s)' <= InFlight(s)
    <3> DEFINE b == Len(toWorker[s])
               bb == Len(toWorker'[s])
               c == Len(toServer[s])
               d == Cardinality(Busy(s))
               dd == Cardinality(Busy(s)')
               e == Last(s)
    <3>1. b \in Nat /\ bb \in Nat /\ c \in Nat /\ d \in Nat /\ dd \in Nat /\ e \in Nat
      BY <1>c, <1>g DEF Counted
    <3>2. toWorker'[s] = <<>> \/ toWorker'[s] = toWorker[s]
      BY <1>3, <1>a DEF WireTypeOK
    <3>3. bb <= b
      BY <3>1, <3>2
    <3>4. dd <= d
      <4>1. CASE task' = task
        BY <1>3, <3>1, <4>1 DEF Busy
      <4>2. CASE task' = [p \in Permits |-> NoTask]
        <5>1. Busy(s)' = {}
          BY <4>2 DEF Busy
        <5> QED
          BY <3>1, <5>1, FS_EmptySet
      <4> QED
        BY <1>3, <4>1, <4>2
    <3>5. Last(s)' = 0
      BY <1>3 DEF Last, Attached
    <3> HIDE DEF b, bb, c, d, dd, e
    <3>6. bb + c + dd + 0 <= b + c + d + e
      BY <3>1, <3>3, <3>4
    <3>7. Len(toServer'[s]) = c
      BY <1>3 DEF c
    <3> QED
      BY <1>e, <3>5, <3>6, <3>7 DEF b, bb, c, d, dd, e
  <2> QED
    BY <1>d, <2>1, <2>2
<1>4. CASE ClientStops
  <2>1. CASE Serving /\ LeaveSession("stopped")
    BY <1>3, <2>1 DEF Serving, LeaveSession
  <2>2. CASE ~(Serving /\ LeaveSession("stopped"))
    <3>1. /\ UNCHANGED <<toWorker, toServer, task, parked, results, session>>
          /\ cstate # "serving" /\ cstate' # "serving"
      BY <1>4, <2>2 DEF ClientStops, wireVars
    <3>2. \A s \in Sessions : Last(s)' = Last(s) /\ Busy(s)' = Busy(s)
      BY <3>1 DEF Last, Attached, Busy
    <3>3. ASSUME NEW s \in Sessions PROVE InFlight(s)' <= InFlight(s)
      BY <1>f, <1>g, <3>1, <3>2
    <3> QED
      BY <1>b, <1>d, <3>1, <3>3 DEF IdleInv
  <2> QED
    BY <2>1, <2>2
<1>5. CASE SocketEnds
  BY <1>3, <1>5 DEF SocketEnds, Serving, LeaveSession
<1>6. CASE WorkerDies("down")
  BY <1>3, <1>6 DEF WorkerDies
\* The sessions that are not being served, under the steps of the one that is.
<1>7. ASSUME NEW s \in Sessions, s # session, UNCHANGED <<session, cstate>>,
             UNCHANGED <<toWorker[s], toServer[s]>>, Busy(s)' = Busy(s)
      PROVE  InFlight(s)' <= InFlight(s)
  <2>1. Last(s) = 0 /\ Last(s)' = 0
    BY <1>7 DEF Last, Attached
  <2> QED
    BY <1>f, <1>7, <2>1
<1>8. CASE ReadJob
  <2>1. /\ cstate = "serving" /\ parked = <<>> /\ session \in Sessions
        /\ UNCHANGED <<toServer, cstate, session, task, results>>
        /\ toWorker' = [toWorker EXCEPT ![session] = Tail(@)]
        /\ toWorker[session] # <<>> /\ toWorker[session] \in Seq(Jobs) /\ Len(parked') = 1
    BY <1>8, <1>a, <1>h DEF ReadJob, Serving, WireTypeOK
  <2>2. \A s \in Sessions : Busy(s)' = Busy(s)
    BY <2>1 DEF Busy
  <2>3. ASSUME NEW s \in Sessions, s = session PROVE InFlight(s)' <= InFlight(s)
    <3> DEFINE b == Len(toWorker[s])
               bb == Len(toWorker'[s])
               c == Len(toServer[s])
               d == Cardinality(Busy(s))
               f == Len(results)
    <3>1. b \in Nat /\ bb \in Nat /\ c \in Nat /\ d \in Nat /\ f \in Nat
      BY <1>c, <2>1 DEF Counted
    <3>2. bb = b - 1
      BY <1>a, <2>1, <2>3 DEF WireTypeOK
    <3>3. Last(s) = 0 + f /\ Last(s)' = 1 + f
      BY <1>h, <2>1, <2>3 DEF Last, Attached
    <3>4. Cardinality(Busy(s)') = d /\ Len(toServer'[s]) = c
      BY <2>1, <2>2
    <3> HIDE DEF b, bb, c, d, f
    <3>5. bb + c + d + Last(s)' <= b + c + d + Last(s)
      BY <3>1, <3>2, <3>3
    <3> QED
      BY <1>e, <2>1, <3>4, <3>5 DEF b, bb, c, d
  <2>4. \A s \in Sessions : InFlight(s)' <= InFlight(s)
    <3> SUFFICES ASSUME NEW s \in Sessions, s # session PROVE InFlight(s)' <= InFlight(s)
      BY <2>3
    <3> QED
      BY <1>7, <1>a, <2>1, <2>2 DEF WireTypeOK
  <2> QED
    BY <1>d, <2>1, <2>4 DEF IdleInv
<1>9. CASE SendResult
  <2>1. /\ cstate = "serving" /\ parked = <<>> /\ session \in Sessions
        /\ UNCHANGED <<toWorker, cstate, session, task, parked>>
        /\ toServer' = [toServer EXCEPT ![session] = Append(@, Head(results))]
        /\ results # <<>> /\ results \in Seq(Results) /\ results' = Tail(results)
    BY <1>9, <1>a, <1>h DEF SendResult, Serving, ClientTypeOK
  <2>2. \A s \in Sessions : Busy(s)' = Busy(s)
    BY <2>1 DEF Busy
  <2>3. ASSUME NEW s \in Sessions, s = session PROVE InFlight(s)' <= InFlight(s)
    <3> DEFINE b == Len(toWorker[s])
               c == Len(toServer[s])
               cc == Len(toServer'[s])
               d == Cardinality(Busy(s))
               f == Len(results)
               ff == Len(results')
    <3>1. b \in Nat /\ c \in Nat /\ cc \in Nat /\ d \in Nat /\ f \in Nat /\ ff \in Nat
      BY <1>c, <2>1 DEF Counted
    <3>2. cc = c + 1 /\ ff = f - 1
      BY <1>a, <2>1, <2>3 DEF WireTypeOK
    <3>3. Last(s) = 0 + f /\ Last(s)' = 0 + ff
      BY <1>h, <2>1, <2>3 DEF Last, Attached
    <3>4. Cardinality(Busy(s)') = d /\ Len(toWorker'[s]) = b
      BY <2>1, <2>2
    <3> HIDE DEF b, c, cc, d, f, ff
    <3>5. b + cc + d + Last(s)' <= b + c + d + Last(s)
      BY <3>1, <3>2, <3>3
    <3> QED
      BY <1>e, <2>1, <3>4, <3>5 DEF b, c, cc, d
  <2>4. \A s \in Sessions : InFlight(s)' <= InFlight(s)
    <3> SUFFICES ASSUME NEW s \in Sessions, s # session PROVE InFlight(s)' <= InFlight(s)
      BY <2>3
    <3> QED
      BY <1>7, <1>a, <2>1, <2>2 DEF WireTypeOK
  <2> QED
    BY <1>d, <2>1, <2>4 DEF IdleInv
<1>10. ASSUME NEW p \in Permits, StartJob(p) PROVE LoadInv'
  <2>1. /\ cstate = "serving" /\ parked # <<>> /\ session \in Sessions /\ parked' = <<>>
        /\ UNCHANGED <<toWorker, toServer, cstate, session, results>>
        /\ task[p] = NoTask /\ task'[p] # NoTask /\ task'[p].session = session
        /\ \A q \in Permits : q # p => task'[q] = task[q]
    BY <1>10, <1>a, <1>h DEF StartJob, ClientTypeOK, NoTask, wireVars
  <2>2. \A s \in Sessions : IF s = session THEN Busy(s)' = Busy(s) \cup {p} /\ p \notin Busy(s)
                                             ELSE Busy(s)' = Busy(s)
    BY <1>10, <2>1 DEF Busy
  <2>3. ASSUME NEW s \in Sessions, s = session PROVE InFlight(s)' <= InFlight(s)
    <3> DEFINE b == Len(toWorker[s])
               c == Len(toServer[s])
               d == Cardinality(Busy(s))
               dd == Cardinality(Busy(s)')
               e == Len(parked)
               f == Len(results)
    <3>1. b \in Nat /\ c \in Nat /\ d \in Nat /\ dd \in Nat /\ f \in Nat /\ e \in Nat /\ e # 0
      BY <1>a, <1>c, <2>1, <2>3 DEF Counted, ClientTypeOK
    <3>2. dd = d + 1
      <4>1. Busy(s) \in SUBSET Loops /\ p \in Loops
        BY DEF Busy, Loops, Permits
      <4> QED
        BY <2>2, <2>3, <4>1, CountLoops
    <3>3. Last(s) = e + f /\ Last(s)' = 0 + f
      BY <1>h, <2>1, <2>3 DEF Last, Attached
    <3>4. Len(toWorker'[s]) = b /\ Len(toServer'[s]) = c
      BY <2>1
    <3> HIDE DEF b, c, d, dd, e, f
    <3>5. b + c + dd + Last(s)' <= b + c + d + Last(s)
      BY <3>1, <3>2, <3>3
    <3> QED
      BY <1>e, <2>1, <3>4, <3>5 DEF b, c, d, dd
  <2>4. \A s \in Sessions : InFlight(s)' <= InFlight(s)
    <3> SUFFICES ASSUME NEW s \in Sessions, s # session PROVE InFlight(s)' <= InFlight(s)
      BY <2>3
    <3> QED
      BY <1>7, <2>1, <2>2
  <2> QED
    BY <1>d, <2>1, <2>4 DEF IdleInv
<1>11. ASSUME NEW p \in Permits, NEW outcome \in Outcomes, TaskEnds(p, outcome) PROVE LoadInv'
  <2>1. /\ UNCHANGED <<toWorker, toServer, cstate, session, parked, results>>
        /\ task[p].phase = "running" /\ task'[p] # NoTask /\ task'[p].session = task[p].session
        /\ \A q \in Permits : q # p => task'[q] = task[q]
    BY <1>11, <1>a DEF TaskEnds, ClientTypeOK, NoTask, wireVars
  <2>2. task[p] # NoTask
    BY <2>1 DEF NoTask
  <2>3. \A s \in Sessions : Busy(s)' = Busy(s) /\ Last(s)' = Last(s)
    BY <2>1, <2>2 DEF Busy, Last, Attached
  <2>4. ASSUME NEW s \in Sessions PROVE InFlight(s)' <= InFlight(s)
    BY <1>f, <1>g, <2>1, <2>3
  <2> QED
    BY <1>b, <1>d, <2>1, <2>4 DEF IdleInv
<1>12. ASSUME NEW p \in Permits, TaskReplies(p) PROVE LoadInv'
  <2>0. PICK t : t = task[p].session
    OBVIOUS
  <2>1. /\ UNCHANGED <<toWorker, toServer, cstate, session, parked>> /\ task[p].phase = "replying"
        /\ task' = [task EXCEPT ![p] = NoTask]
        /\ \/ SessionGone(t) /\ results' = results
           \/ ~SessionGone(t) /\ Len(results') = Len(results) + 1
    <3>1. results \in Seq(Results) /\ task[p] \in Tasks \cup {NoTask} /\ task[p].phase = "replying"
      BY <1>12, <1>a DEF ClientTypeOK, TaskReplies
    <3>2. [job |-> task[p].job, outcome |-> task[p].outcome] \in Results
      BY <3>1 DEF Tasks, NoTask, Results
    <3>3. Len(Append(results, [job |-> task[p].job, outcome |-> task[p].outcome]))
             = Len(results) + 1
      BY <3>1, <3>2, Appended
    <3> QED
      BY <1>12, <2>0, <3>3 DEF TaskReplies, wireVars
  <2>2. task[p] # NoTask /\ t \in Sessions
    BY <1>a, <2>0, <2>1 DEF NoTask, ClientTypeOK, Tasks
  <2>3. task'[p] = NoTask /\ \A q \in Permits : q # p => task'[q] = task[q]
    BY <1>a, <2>1 DEF ClientTypeOK
  <2>4. /\ Busy(t)' = Busy(t) \ {p} /\ p \in Busy(t)
        /\ \A s \in Sessions : s # t => Busy(s)' = Busy(s)
    BY <2>0, <2>2, <2>3 DEF Busy
  <2>5. InFlight(t)' <= InFlight(t)
    <3> DEFINE b == Len(toWorker[t])
               c == Len(toServer[t])
               d == Cardinality(Busy(t))
               dd == Cardinality(Busy(t)')
               e == Last(t)
               ee == Last(t)'
    <3>1. b \in Nat /\ c \in Nat /\ d \in Nat /\ dd \in Nat /\ e \in Nat /\ ee \in Nat
      BY <1>c, <1>g, <2>2 DEF Counted
    <3>2. dd = d - 1
      <4>1. Busy(t) \in SUBSET Loops /\ p \in Loops
        BY DEF Busy, Loops, Permits
      <4> QED
        BY <2>4, <4>1, CountLoops
    <3>3. ee <= e + 1
      <4>1. CASE SessionGone(t)
        BY <2>1, <3>1, <4>1 DEF Last, Attached, SessionGone
      <4>2. CASE ~SessionGone(t)
        <5>1. e = Len(parked) + Len(results) /\ ee = Len(parked) + (Len(results) + 1)
          BY <2>1, <4>2 DEF Last, Attached, SessionGone
        <5>2. Len(parked) \in Nat /\ Len(results) \in Nat
          BY <1>c, <2>2 DEF Counted
        <5> HIDE DEF e, ee
        <5> QED
          BY <5>1, <5>2
      <4> QED
        BY <4>1, <4>2
    <3>4. Len(toWorker'[t]) = b /\ Len(toServer'[t]) = c
      BY <2>1
    <3> HIDE DEF b, c, d, dd, e, ee
    <3>5. b + c + dd + ee <= b + c + d + e
      BY <3>1, <3>2, <3>3
    <3> QED
      BY <1>e, <2>2, <3>4, <3>5 DEF b, c, d, dd, e, ee
  <2>6. ASSUME NEW s \in Sessions, s # t PROVE InFlight(s)' <= InFlight(s)
    <3>1. Last(s)' = Last(s)
      BY <2>1, <2>6 DEF Last, Attached, SessionGone
    <3> QED
      BY <1>f, <1>g, <2>1, <2>4, <2>6, <3>1
  <2>7. IdleInv'
    BY <1>b, <2>1 DEF IdleInv, SessionGone
  <2> QED
    BY <1>d, <2>5, <2>6, <2>7
<1> QED
  BY <1>1, <1>2, <1>4, <1>5, <1>6, <1>8, <1>9, <1>10, <1>11, <1>12
     DEF ClientNext, ClientLoop, TaskStep

LEMMA InitLoad == Init => LoadInv
<1> SUFFICES ASSUME Init PROVE LoadInv
  OBVIOUS
<1>1. IdleInv
  BY DEF Init, ClientInit, IdleInv
<1>2. ASSUME NEW s \in Sessions PROVE Load(s, 0)
  <2>1. /\ Busy(s) = {} /\ ~Attached(s) /\ phase[s] = "none"
        /\ out[s] = <<>> /\ toWorker[s] = <<>> /\ toServer[s] = <<>>
    BY <1>2 DEF Init, WireInit, ServerInit, ClientInit, Busy, Attached
  <2>2. InFlight(s) = 0
    BY <2>1, FS_EmptySet DEF InFlight
  <2> QED
    BY <2>1, <2>2 DEF Load, Bounded
<1>3. Paid(0)
  <2>1. Live = {} /\ slips = 0
    BY DEF Init, ServerInit, Live
  <2>2. OneHandler({})
    BY <2>1 DEF OneHandler
  <2> QED
    BY <2>1, <2>2, FS_EmptySet DEF Paid
<1> QED
  BY <1>1, <1>2, <1>3 DEF LoadInv

\* A break in the line, or nothing.
LEMMA QuietLoad ==
  ASSUME LoadInv, UNCHANGED <<toWorker, toServer, serverVars, clientVars>>
  PROVE  LoadInv'
<1>1. IdleInv'
  BY DEF LoadInv, IdleInv, clientVars
<1>2. PICK lost \in Nat : Paid(lost) /\ \A s \in Sessions : Load(s, lost)
  BY DEF LoadInv
<1>3. ASSUME NEW s \in Sessions PROVE Load(s, lost)'
  BY <1>2, UntouchedLoad DEF serverVars
<1>4. Paid(lost)'
  BY <1>2 DEF Paid, OneHandler, Live, JobOf, serverVars
<1> QED
  BY <1>1, <1>2, <1>3, <1>4 DEF LoadInv

-----------------------------------------------------------------------------
(* The theorems.                                                           *)

\* Every interleaving of sessions, loops, breaks and restarts keeps the invariant.
THEOREM Invariance == Spec => []IInv
<1>1. IInv /\ [Next]_vars => IInv'
  <2> SUFFICES ASSUME IInv, [Next]_vars PROVE IInv'
    OBVIOUS
  <2>0. Base /\ TeardownFailsRegistered /\ NothingLostInFlight
    BY DEF IInv
  <2>1. CASE ServerNext /\ UNCHANGED clientVars
    BY <2>0, <2>1, ServerBase, TeardownStep, ServerKeeps, KeptIsInFlight DEF IInv
  <2>2. CASE ClientNext /\ UNCHANGED serverVars
    <3>1. TeardownFailsRegistered'
      BY <2>0, <2>2 DEF TeardownFailsRegistered, serverVars
    <3> QED
      BY <2>0, <2>2, <3>1, ClientBase, ClientKeeps, KeptIsInFlight DEF IInv
  <2>3. ASSUME NEW s \in Sessions, Cut(s), UNCHANGED <<serverVars, clientVars>> PROVE IInv'
    <3>1. TeardownFailsRegistered'
      BY <2>0, <2>3 DEF TeardownFailsRegistered, serverVars
    <3>2. \A t \in Sessions : link'[t] = "up" => link[t] = "up"
      BY <2>0, <2>3 DEF Cut, Base, TypeOK, WireTypeOK
    <3>3. Keeps
      BY <2>3, <3>2, QuietKeeps DEF Cut, serverVars, clientVars, Attached, Unresolved, Awaits
    <3> QED
      BY <2>0, <2>3, <3>1, <3>3, CutBase, KeptIsInFlight DEF IInv
  <2>4. CASE UNCHANGED vars
    <3>1. Base'
      BY <2>0, <2>4 DEF vars, wireVars, serverVars, clientVars, Base, TypeOK, WireTypeOK,
         ServerTypeOK, ClientTypeOK, LoopInv, WaiterInv, LinkInv, Attached
    <3>2. TeardownFailsRegistered'
      BY <2>0, <2>4 DEF vars, serverVars, TeardownFailsRegistered
    <3>3. Keeps
      BY <2>4, QuietKeeps DEF vars, wireVars, serverVars, clientVars, Attached, Unresolved, Awaits
    <3> QED
      BY <2>0, <3>1, <3>2, <3>3, KeptIsInFlight DEF IInv
  <2> QED
    BY <2>1, <2>2, <2>3, <2>4 DEF Next
<1> QED
  BY InitInv, <1>1, PTL DEF Spec

\* Channels, maps and tasks have their types; the bounded ones their bounds.
THEOREM TypeCorrect == Spec => []TypeOK
<1>1. IInv => TypeOK
  BY DEF IInv, Base
<1> QED
  BY <1>1, Invariance, PTL

\* Clearing the map fails every waiter that was registered by then.
THEOREM TeardownFails == Spec => []TeardownFailsRegistered
<1>1. IInv => TeardownFailsRegistered
  BY DEF IInv
<1> QED
  BY <1>1, Invariance, PTL

\* On a connection that stands, whoever waits has his job or its result on the
\* way, over reconnects and lost leases.
THEOREM NothingIsLost == Spec => []NothingLostInFlight
<1>1. IInv => NothingLostInFlight
  BY DEF IInv
<1> QED
  BY <1>1, Invariance, PTL

\* The bound on what is in flight, at every phase of a session.
THEOREM LoadInvariance == Spec => []LoadInv
<1>1. IInv /\ IInv' /\ LoadInv /\ [Next]_vars => LoadInv'
  <2> SUFFICES ASSUME IInv, IInv', LoadInv, [Next]_vars PROVE LoadInv'
    OBVIOUS
  <2>0. Base /\ Base'
    BY DEF IInv
  <2>1. CASE ServerNext /\ UNCHANGED clientVars
    BY <2>0, <2>1, ServerLoad
  <2>2. CASE ClientNext /\ UNCHANGED serverVars
    BY <2>0, <2>2, ClientLoad
  <2>3. CASE \E s \in Sessions : Cut(s) /\ UNCHANGED <<serverVars, clientVars>>
    BY <2>3, QuietLoad DEF Cut
  <2>4. CASE UNCHANGED vars
    BY <2>4, QuietLoad DEF vars, wireVars
  <2> QED
    BY <2>1, <2>2, <2>3, <2>4 DEF Next
<1> QED
  BY InitLoad, Invariance, <1>1, PTL DEF Spec

\* "A worker never has more than `slots` jobs in flight" (server.rs), but for the
\* leases that were lost: what is on the way is waited for, each job by its own
\* loop, or was sent by a loop whose waiter another overwrote.
THEOREM WithinSlots == Spec => []InFlightWithinSlots
<1>1. IInv /\ LoadInv => InFlightWithinSlots
  <2> SUFFICES ASSUME IInv, LoadInv, NEW s \in Sessions PROVE InFlight(s) <= Slots + slips
    BY DEF InFlightWithinSlots
  <2>0. PICK lost \in Nat : Paid(lost) /\ Load(s, lost)
    BY DEF LoadInv
  <2> DEFINE n == InFlight(s)
             a == Cardinality(Waiting(s))
             b == Cardinality(Answered(s))
             c == Cardinality(Ahead(s))
  <2>1. a \in Nat /\ a <= Slots /\ b \in Nat /\ c \in Nat /\ Slots \in Nat
    BY CountLoops, SlotsAssumption DEF Waiting, Answered, Ahead
  <2>2. n \in Nat /\ (n = 0 \/ n + b <= a + lost \/ n + c <= Slots + lost)
    BY <2>0 DEF Load, Bounded
  <2>3. lost <= slips /\ slips \in Nat
    <3>1. PICK extra : IsFiniteSet(extra) /\ Cardinality(extra) + lost <= slips
      BY <2>0 DEF Paid
    <3>2. Cardinality(extra) \in Nat /\ slips \in Nat
      BY <3>1, FS_CardinalityType, SlipsAssumption DEF IInv, Base, TypeOK, ServerTypeOK
    <3> QED
      BY <3>1, <3>2
  <2>4. n <= Slots + slips
    <3> HIDE DEF n, a, b, c
    <3> QED
      BY <2>0, <2>1, <2>2, <2>3
  <2> QED
    BY <2>4
<1> QED
  BY <1>1, Invariance, LoadInvariance, PTL

\* The serving loop and its analyses wait for each other only with one job
\* parked, one at every slot and one more than the slots in the channel: that is
\* Slots + 2 more than the orchestrator sends while no lease is lost.
THEOREM NoDeadlock == Spec => []NoMutualWait
<1>1. IInv /\ InFlightWithinSlots => NoMutualWait
  <2> SUFFICES ASSUME IInv, InFlightWithinSlots, slips <= Slots + 1, MutualWait PROVE FALSE
    BY DEF NoMutualWait
  <2> DEFINE s == session
             a == Len(out[s])
             b == Len(toWorker[s])
             c == Len(toServer[s])
             d == Cardinality(Busy(s))
             e == Len(parked)
             f == Len(results)
  <2>1. s \in Sessions /\ Attached(s) /\ TypeOK /\ slips \in Nat /\ Slots \in Nat
    BY SlipsAssumption, SlotsAssumption
       DEF IInv, Base, LinkInv, TypeOK, ServerTypeOK, ClientTypeOK, MutualWait, Attached, Sessions
  <2>2. Counted(s)
    BY <2>1, FlightType
  <2>3. /\ a \in Nat /\ b \in Nat /\ c \in Nat /\ e \in Nat /\ f \in Nat
        /\ InFlight(s) = a + b + c + d + (e + f)
    BY <2>1, <2>2 DEF Counted, InFlight
  <2>4. d = Slots
    <3>1. Busy(s) = 1..Slots
      <4>1. \A p \in Permits : task[p] # NoTask /\ task[p].session = s
        BY DEF MutualWait, NoTask
      <4> QED
        BY <4>1 DEF Busy, Permits
    <3> QED
      BY <2>1, <3>1, FS_Interval
  <2>5. e # 0
    BY DEF MutualWait, IInv, Base, TypeOK, ClientTypeOK
  <2>6. ~(f < Slots + 1)
    BY DEF MutualWait, ReplyRoom
  <2>7. InFlight(s) <= Slots + slips
    BY <2>1 DEF InFlightWithinSlots
  <2> HIDE DEF s, a, b, c, d, e, f
  <2> QED
    BY <2>1, <2>3, <2>4, <2>5, <2>6, <2>7
<1> QED
  BY <1>1, Invariance, WithinSlots, PTL
=============================================================================
