--------------------------- MODULE JobQueue_proofs --------------------------
(***************************************************************************)
(* The safety properties of JobQueue, for any number of jobs, lease loops, *)
(* attempts, faults and lost leases.                                       *)
(***************************************************************************)
EXTENDS JobQueue, FiniteSetTheorems, TLAPS

(***************************************************************************)
(* The inductive invariant, in layers: each is preserved by a step given   *)
(* the ones before it.                                                     *)
(***************************************************************************)

\* Queue and table agree: a message exists for every accepted job, and only
\* settled jobs are archived, or about to be.
QueueInv ==
    /\ \A j \in Jobs : status[j] = "absent" <=> message[j] = "none"
    /\ \A j \in Jobs : message[j] = "archived" => status[j] \in Terminal
    /\ \A w \in Workers : cur[w] \in Jobs => status[cur[w]] # "absent"
    /\ \A w \in Workers : pc[w] = "archive" => status[cur[w]] \in Terminal

\* A handler's delivery number was counted, and tells which path it is on.
DeliveryInv ==
    /\ \A w \in Workers : cur[w] \in Jobs => ct[w] # 0 /\ ct[w] <= readCt[cur[w]]
    /\ \A w \in Workers : pc[w] = "set_failed" => ct[w] > MaxAttempts
    /\ \A j \in Jobs : status[j] = "failed" => readCt[j] > MaxAttempts

BaseInv == TypeOK /\ QueueInv /\ DeliveryInv

\* While no lease was lost under a handler, a handled message is hidden and
\* has one handler.
LeaseInv ==
    slips = 0 =>
        /\ \A w \in Workers : cur[w] \in Jobs => message[cur[w]] = "hidden"
        /\ \A v, w \in Workers : cur[v] \in Jobs /\ cur[v] = cur[w] => v = w

\* While nothing went wrong at all, a settled job is archived or on its way
\* there, and what is being analysed is running.
CleanInv ==
    faults = 0 /\ slips = 0 =>
        /\ \A j \in Jobs : status[j] \in Terminal =>
              message[j] = "archived" \/ \E w \in Workers : pc[w] = "archive" /\ cur[w] = j
        /\ \A w \in Workers : pc[w] = "analyzing" => status[cur[w]] = "running"

\* Loops that are about to start an analysis of j.
Starting(j) == {w \in Workers : pc[w] = "set_running" /\ cur[w] = j}

\* Each delivery that is not poison accounts for one analysis at most.
Allowance(j) == IF readCt[j] < MaxAttempts THEN readCt[j] ELSE MaxAttempts

AttemptInv ==
    /\ \A j \in Jobs : starts[j] + Cardinality(Starting(j)) <= Allowance(j)
    /\ \A w \in Workers : pc[w] \in {"analyzing", "set_done"} => starts[cur[w]] > 0

\* Loops that handle the message of j, rightly or after their lease was lost.
Handling(j) == {w \in Workers : cur[w] = j}
Hidden(j) == IF message[j] = "hidden" THEN 1 ELSE 0

\* A message hides from further readers behind its handler; every handler more
\* is owed to a lost lease.
HandlerInv == \A j \in Jobs : Cardinality(Handling(j)) <= slips + Hidden(j)

\* A delivery that is not poison was analysed, is about to be, or was lost.
SpentInv ==
    \A j \in Jobs : Allowance(j) <= starts[j] + Cardinality(Starting(j)) + faults

PatienceInv == HandlerInv /\ SpentInv /\ PatientFailure

IInv == BaseInv /\ LeaseInv /\ CleanInv /\ AttemptInv /\ PatienceInv

-----------------------------------------------------------------------------
USE DEF NonTerminal, Terminal, Statements, PCs

\* An empty table, an empty queue and idle loops agree.
LEMMA BaseInit == Init => BaseInv
<1> SUFFICES ASSUME Init PROVE BaseInv
  OBVIOUS
<1> USE NoJobAssumption, AttemptsAssumption, BoundsAssumption DEF Init
<1>1. TypeOK
  BY DEF TypeOK, RowOK
<1>2. QueueInv
  BY DEF QueueInv
<1>3. DeliveryInv
  BY DEF DeliveryInv
<1> QED
  BY <1>1, <1>2, <1>3 DEF BaseInv

\* No statement of any handler breaks types, CHECK constraint, or the agreement
\* of table, queue and delivery counts.
LEMMA BaseNext == BaseInv /\ [Next]_vars => BaseInv'
<1> SUFFICES ASSUME BaseInv, [Next]_vars PROVE BaseInv'
  OBVIOUS
<1> USE NoJobAssumption, AttemptsAssumption, BoundsAssumption
        DEF BaseInv, TypeOK, RowOK, QueueInv, DeliveryInv,
            rowVars, queueVars, workerVars, budget
<1>1. ASSUME NEW S \in SUBSET Jobs, Submit(S) PROVE BaseInv'
  BY <1>1 DEF Submit
<1>2. ASSUME NEW w \in Workers, NEW j \in Jobs, Read(w, j) PROVE BaseInv'
  BY <1>2 DEF Read, Lease, Poisoned
<1>3. ASSUME NEW w \in Workers, SetRunning(w) PROVE BaseInv'
  BY <1>3 DEF SetRunning, Goto
<1>4. ASSUME NEW w \in Workers, AnalyzeOk(w) \/ AnalyzeErr(w) PROVE BaseInv'
  BY <1>4 DEF AnalyzeOk, AnalyzeErr, Goto
<1>5. ASSUME NEW w \in Workers, SetDone(w) PROVE BaseInv'
  <2>1. cur[w] \in Jobs
    BY <1>5 DEF SetDone
  <2>2. CASE status[cur[w]] \in NonTerminal
    <3>0. error' \in [Jobs -> BOOLEAN]
      <4>1. error \in [Jobs -> BOOLEAN] /\ error' = [error EXCEPT ![cur[w]] = FALSE]
        BY <1>5, <2>2 DEF SetDone
      <4> QED
        BY ONLY <4>1, Zenon
    <3>1. TypeOK'
      BY <1>5, <2>1, <2>2, <3>0 DEF SetDone, Goto
    <3>2. QueueInv'
      BY <1>5, <2>1, <2>2 DEF SetDone, Goto
    <3>3. DeliveryInv'
      BY <1>5, <2>1, <2>2 DEF SetDone, Goto
    <3> QED
      BY <3>1, <3>2, <3>3
  <2>3. CASE status[cur[w]] \notin NonTerminal
    BY <1>5, <2>1, <2>3 DEF SetDone, Goto
  <2> QED
    BY <2>2, <2>3
<1>6. ASSUME NEW w \in Workers, SetFailed(w) PROVE BaseInv'
  <2>1. cur[w] \in Jobs
    BY <1>6 DEF SetFailed
  <2>2. CASE status[cur[w]] \in NonTerminal
    <3>0. error' \in [Jobs -> BOOLEAN]
      <4>1. error \in [Jobs -> BOOLEAN] /\ error' = [error EXCEPT ![cur[w]] = TRUE]
        BY <1>6, <2>2 DEF SetFailed
      <4> QED
        BY ONLY <4>1, Zenon
    <3>1. TypeOK'
      BY <1>6, <2>1, <2>2, <3>0 DEF SetFailed, Goto
    <3>2. QueueInv'
      BY <1>6, <2>1, <2>2 DEF SetFailed, Goto
    <3>3. DeliveryInv'
      BY <1>6, <2>1, <2>2 DEF SetFailed, Goto
    <3> QED
      BY <3>1, <3>2, <3>3
  <2>3. CASE status[cur[w]] \notin NonTerminal
    BY <1>6, <2>1, <2>3 DEF SetFailed, Goto
  <2> QED
    BY <2>2, <2>3
<1>7. ASSUME NEW w \in Workers, RecordFailure(w) PROVE BaseInv'
  BY <1>7 DEF RecordFailure, Leave
<1>8. ASSUME NEW w \in Workers, Archive(w) PROVE BaseInv'
  BY <1>8 DEF Archive, Leave
<1>9. ASSUME NEW w \in Workers, HeartbeatTick(w) PROVE BaseInv'
  BY <1>9 DEF HeartbeatTick
<1>10. ASSUME NEW j \in Jobs, ExtendLands(j) \/ ExtendFails(j) PROVE BaseInv'
  BY <1>10 DEF ExtendLands, ExtendFails
<1>11. ASSUME NEW j \in Jobs, Lapse(j) \/ Slip(j) PROVE BaseInv'
  BY <1>11 DEF Lapse, Slip, Expire
<1>12. ASSUME NEW w \in Workers, DbError(w) \/ Crash(w) \/ Restart(w) PROVE BaseInv'
  BY <1>12 DEF DbError, Crash, Restart, Fault, Leave
<1>13. ASSUME NEW w \in Workers, NEW j \in Jobs, NEW label \in {"idle", "down"},
              LostRead(w, j, label)
       PROVE BaseInv'
  BY <1>13 DEF LostRead, Lease, Fault
<1>14. ASSUME UNCHANGED vars PROVE BaseInv'
  BY <1>14 DEF vars
<1> QED
  BY <1>1, <1>2, <1>3, <1>4, <1>5, <1>6, <1>7, <1>8, <1>9, <1>10, <1>11, <1>12,
     <1>13, <1>14 DEF Next, Step

-----------------------------------------------------------------------------
(* Leases: a handler's message stays hidden, and its own, until a slip.    *)

\* `read` takes visible messages only, and a message in hand lapses only by a
\* slip, so a second handler has no way in.
LEMMA LeaseNext == BaseInv /\ LeaseInv /\ [Next]_vars => LeaseInv'
<1> SUFFICES ASSUME BaseInv, LeaseInv, [Next]_vars PROVE LeaseInv'
  OBVIOUS
<1> USE NoJobAssumption, BoundsAssumption
        DEF BaseInv, TypeOK, QueueInv, LeaseInv, Held,
            rowVars, queueVars, workerVars, budget
<1>1. ASSUME NEW S \in SUBSET Jobs, Submit(S) PROVE LeaseInv'
  BY <1>1 DEF Submit
<1>2. ASSUME NEW w \in Workers, NEW j \in Jobs, Read(w, j) PROVE LeaseInv'
  BY <1>2 DEF Read, Lease
<1>3. ASSUME NEW w \in Workers,
             SetRunning(w) \/ AnalyzeOk(w) \/ AnalyzeErr(w) \/ SetDone(w) \/ SetFailed(w)
      PROVE LeaseInv'
  BY <1>3 DEF SetRunning, AnalyzeOk, AnalyzeErr, SetDone, SetFailed, Goto
<1>4. ASSUME NEW w \in Workers, RecordFailure(w) PROVE LeaseInv'
  BY <1>4 DEF RecordFailure, Leave
<1>5. ASSUME NEW w \in Workers, Archive(w) PROVE LeaseInv'
  BY <1>5 DEF Archive, Leave
<1>6. ASSUME NEW w \in Workers, HeartbeatTick(w) PROVE LeaseInv'
  BY <1>6 DEF HeartbeatTick
<1>7. ASSUME NEW j \in Jobs, ExtendLands(j) \/ ExtendFails(j) PROVE LeaseInv'
  BY <1>7 DEF ExtendLands, ExtendFails
<1>8. ASSUME NEW j \in Jobs, Lapse(j) PROVE LeaseInv'
  BY <1>8 DEF Lapse, Expire
<1>9. ASSUME NEW j \in Jobs, Slip(j) PROVE LeaseInv'
  BY <1>9 DEF Slip
<1>10. ASSUME NEW w \in Workers, DbError(w) \/ Crash(w) \/ Restart(w) PROVE LeaseInv'
  BY <1>10 DEF DbError, Crash, Restart, Fault, Leave
<1>11. ASSUME NEW w \in Workers, NEW j \in Jobs, NEW label \in {"idle", "down"},
              LostRead(w, j, label)
       PROVE LeaseInv'
  BY <1>11 DEF LostRead, Lease, Fault
<1>12. ASSUME UNCHANGED vars PROVE LeaseInv'
  BY <1>12 DEF vars
<1> QED
  BY <1>1, <1>2, <1>3, <1>4, <1>5, <1>6, <1>7, <1>8, <1>9, <1>10, <1>11, <1>12
     DEF Next, Step

-----------------------------------------------------------------------------
(* Without faults: work in hand is unsettled work.                         *)

\* The handler that settles a job goes on to archive its message, and no other
\* handler holds it.
LEMMA CleanNext == BaseInv /\ LeaseInv /\ CleanInv /\ [Next]_vars => CleanInv'
<1> SUFFICES ASSUME BaseInv, LeaseInv, CleanInv, [Next]_vars PROVE CleanInv'
  OBVIOUS
<1> USE NoJobAssumption, BoundsAssumption
        DEF BaseInv, TypeOK, QueueInv, LeaseInv, CleanInv,
            rowVars, queueVars, workerVars, budget
<1>1. ASSUME NEW S \in SUBSET Jobs, Submit(S) PROVE CleanInv'
  BY <1>1 DEF Submit
<1>2. ASSUME NEW w \in Workers, NEW j \in Jobs, Read(w, j) PROVE CleanInv'
  BY <1>2 DEF Read, Lease
<1>3. ASSUME NEW w \in Workers, SetRunning(w) PROVE CleanInv'
  BY <1>3 DEF SetRunning, Goto
<1>4. ASSUME NEW w \in Workers, AnalyzeOk(w) \/ AnalyzeErr(w) PROVE CleanInv'
  BY <1>4 DEF AnalyzeOk, AnalyzeErr, Goto
<1>5. ASSUME NEW w \in Workers, SetDone(w) PROVE CleanInv'
  BY <1>5 DEF SetDone, Goto
<1>6. ASSUME NEW w \in Workers, SetFailed(w) PROVE CleanInv'
  BY <1>6 DEF SetFailed, Goto
<1>7. ASSUME NEW w \in Workers, RecordFailure(w) PROVE CleanInv'
  BY <1>7 DEF RecordFailure, Leave
<1>8. ASSUME NEW w \in Workers, Archive(w) PROVE CleanInv'
  BY <1>8 DEF Archive, Leave
<1>9. ASSUME NEW w \in Workers, HeartbeatTick(w) PROVE CleanInv'
  BY <1>9 DEF HeartbeatTick
<1>10. ASSUME NEW j \in Jobs, ExtendLands(j) \/ ExtendFails(j) PROVE CleanInv'
  BY <1>10 DEF ExtendLands, ExtendFails
<1>11. ASSUME NEW j \in Jobs, Lapse(j) \/ Slip(j) PROVE CleanInv'
  BY <1>11 DEF Lapse, Slip, Expire
<1>12. ASSUME NEW w \in Workers, DbError(w) \/ Crash(w) PROVE CleanInv'
  BY <1>12 DEF DbError, Crash, Fault
<1>13. ASSUME NEW w \in Workers, Restart(w) PROVE CleanInv'
  BY <1>13 DEF Restart, Leave
<1>14. ASSUME NEW w \in Workers, NEW j \in Jobs, NEW label \in {"idle", "down"},
              LostRead(w, j, label)
       PROVE CleanInv'
  BY <1>14 DEF LostRead, Fault
<1>15. ASSUME UNCHANGED vars PROVE CleanInv'
  BY <1>15 DEF vars
<1> QED
  BY <1>1, <1>2, <1>3, <1>4, <1>5, <1>6, <1>7, <1>8, <1>9, <1>10, <1>11, <1>12,
     <1>13, <1>14, <1>15 DEF Next, Step

-----------------------------------------------------------------------------
(* Attempts: an analysis is paid for by a delivery.                        *)

\* Deliveries beyond `max_attempts` entitle to nothing.
LEMMA AllowanceType == TypeOK => \A j \in Jobs : Allowance(j) \in Nat /\ Allowance(j) <= MaxAttempts
  BY AttemptsAssumption DEF TypeOK, Allowance

\* Finitely many loops can be about to call the executor.
LEMMA StartingFinite ==
  ASSUME NEW j
  PROVE  IsFiniteSet(Starting(j)) /\ Cardinality(Starting(j)) \in Nat
<1>1. IsFiniteSet(Starting(j))
  BY WorkersAssumption, FS_Subset DEF Starting
<1> QED
  BY <1>1, FS_CardinalityType

\* A step by which no loop comes to the brink of an analysis, and no analysis
\* starts, keeps the account balanced.
LEMMA AccountKept ==
  ASSUME TypeOK, TypeOK', AttemptInv,
         starts' = starts,
         \A j \in Jobs : readCt[j] <= readCt'[j],
         \A j \in Jobs : Starting(j)' \subseteq Starting(j)
  PROVE  \A j \in Jobs : starts'[j] + Cardinality(Starting(j)') <= Allowance(j)'
<1> SUFFICES ASSUME NEW j \in Jobs
             PROVE  starts'[j] + Cardinality(Starting(j)') <= Allowance(j)'
  OBVIOUS
<1>1. Cardinality(Starting(j)') <= Cardinality(Starting(j)) /\ Cardinality(Starting(j)') \in Nat
  BY StartingFinite, FS_Subset, FS_CardinalityType
<1>2. Allowance(j) <= Allowance(j)' /\ Allowance(j) \in Nat /\ Allowance(j)' \in Nat
  BY AttemptsAssumption DEF TypeOK, Allowance
<1>3. starts[j] + Cardinality(Starting(j)) <= Allowance(j)
  BY DEF AttemptInv
<1>4. starts[j] \in Nat /\ Cardinality(Starting(j)) \in Nat
  BY StartingFinite DEF TypeOK
<1> QED
  BY <1>1, <1>2, <1>3, <1>4

\* A delivery that passes the poison check of `handle` pays for the one analysis
\* it leads to.
LEMMA AttemptNext == BaseInv /\ BaseInv' /\ AttemptInv /\ [Next]_vars => AttemptInv'
<1> SUFFICES ASSUME BaseInv, BaseInv', AttemptInv, [Next]_vars PROVE AttemptInv'
  OBVIOUS
<1>0. TypeOK /\ TypeOK'
  BY DEF BaseInv
<1> USE NoJobAssumption, BoundsAssumption DEF rowVars, queueVars, workerVars, budget
<1>1. ASSUME starts' = starts,
             \A j \in Jobs : readCt[j] <= readCt'[j],
             \A v \in Workers :
                \/ pc'[v] = pc[v] /\ cur'[v] = cur[v]
                \/ pc'[v] \notin {"set_running", "analyzing", "set_done"}
                \/ pc[v] = "analyzing" /\ pc'[v] = "set_done" /\ cur'[v] = cur[v]
      PROVE AttemptInv'
  <2>1. \A j \in Jobs : Starting(j)' \subseteq Starting(j)
    BY <1>1 DEF Starting
  <2>2. \A v \in Workers : pc'[v] \in {"analyzing", "set_done"} => starts'[cur'[v]] > 0
    BY <1>1 DEF AttemptInv
  <2> QED
    BY <1>0, <1>1, <2>1, <2>2, AccountKept DEF AttemptInv
<1>2. ASSUME NEW w \in Workers, NEW j \in Jobs, Read(w, j) PROVE AttemptInv'
  <2>1. CASE Poisoned(readCt[j] + 1)
    BY <1>0, <1>1, <1>2, <2>1 DEF Read, Lease, TypeOK
  <2>2. CASE ~Poisoned(readCt[j] + 1)
    <3>1. w \notin Starting(j) /\ Starting(j)' = Starting(j) \cup {w}
      BY <1>0, <1>2, <2>2 DEF Read, Lease, TypeOK, Starting
    <3>2. \A i \in Jobs \ {j} : Starting(i)' = Starting(i) /\ readCt'[i] = readCt[i]
      BY <1>0, <1>2, <2>2 DEF Read, Lease, TypeOK, Starting
    <3>3. Cardinality(Starting(j)') = Cardinality(Starting(j)) + 1
      BY <3>1, StartingFinite, FS_AddElement
    <3>4. Allowance(j)' = Allowance(j) + 1
      BY <1>0, <1>2, <2>2, AttemptsAssumption DEF Read, Lease, TypeOK, Poisoned, Allowance
    <3>5. starts' = starts
      BY <1>2 DEF Read
    <3>6. starts'[j] + Cardinality(Starting(j)') <= Allowance(j)'
      <4>1. starts[j] + Cardinality(Starting(j)) <= Allowance(j)
        BY DEF AttemptInv
      <4>2. starts[j] \in Nat /\ Cardinality(Starting(j)) \in Nat /\ Allowance(j) \in Nat
        BY <1>0, StartingFinite, AllowanceType DEF TypeOK
      <4> QED
        BY <3>3, <3>4, <3>5, <4>1, <4>2
    <3>7. \A i \in Jobs \ {j} : starts'[i] + Cardinality(Starting(i)') <= Allowance(i)'
      BY <3>2, <3>5 DEF AttemptInv, Allowance
    <3>8. \A v \in Workers : pc'[v] \in {"analyzing", "set_done"} => starts'[cur'[v]] > 0
      BY <1>0, <1>2, <2>2 DEF Read, TypeOK, AttemptInv
    <3> QED
      BY <3>6, <3>7, <3>8 DEF AttemptInv
  <2> QED
    BY <2>1, <2>2
<1>3. ASSUME NEW w \in Workers, SetRunning(w) PROVE AttemptInv'
  <2>1. PICK j \in Jobs : cur[w] = j
    BY <1>0, <1>3 DEF SetRunning, TypeOK
  <2>2. w \in Starting(j) /\ Starting(j)' = Starting(j) \ {w}
    BY <1>0, <1>3, <2>1 DEF SetRunning, Goto, TypeOK, Starting
  <2>3. \A i \in Jobs \ {j} : Starting(i)' = Starting(i) /\ starts'[i] = starts[i]
    BY <1>0, <1>3, <2>1 DEF SetRunning, Goto, TypeOK, Starting
  <2>4. Cardinality(Starting(j)') = Cardinality(Starting(j)) - 1
    BY <2>2, StartingFinite, FS_RemoveElement
  <2>5. starts'[j] = starts[j] + 1 /\ starts[j] \in Nat
    BY <1>0, <1>3, <2>1 DEF SetRunning, TypeOK
  <2>6. readCt' = readCt
    BY <1>3 DEF SetRunning
  <2>7. starts'[j] + Cardinality(Starting(j)') <= Allowance(j)'
    <3>1. starts[j] + Cardinality(Starting(j)) <= Allowance(j)
      BY <2>1 DEF AttemptInv
    <3>2. Allowance(j)' = Allowance(j) /\ Allowance(j) \in Nat
      BY <1>0, <1>3, <2>1, <2>6, AllowanceType DEF Allowance, SetRunning, Goto
    <3>3. Cardinality(Starting(j)) \in Nat
      BY StartingFinite
    <3> QED
      BY <2>4, <2>5, <3>1, <3>2, <3>3
  <2>8. \A i \in Jobs \ {j} : starts'[i] + Cardinality(Starting(i)') <= Allowance(i)'
    BY <2>3, <2>6 DEF AttemptInv, Allowance
  <2>9. \A v \in Workers : pc'[v] \in {"analyzing", "set_done"} => starts'[cur'[v]] > 0
    <3> SUFFICES ASSUME NEW v \in Workers, pc'[v] \in {"analyzing", "set_done"}
                 PROVE  starts'[cur'[v]] > 0
      OBVIOUS
    <3>1. cur' = cur /\ cur[v] \in Jobs
      BY <1>0, <1>3 DEF SetRunning, Goto, TypeOK
    <3>2. CASE cur[v] = j
      BY <2>5, <3>1, <3>2
    <3>3. CASE cur[v] # j
      BY <1>0, <1>3, <2>3, <3>1, <3>3 DEF SetRunning, Goto, TypeOK, AttemptInv
    <3> QED
      BY <3>2, <3>3
  <2> QED
    BY <2>7, <2>8, <2>9 DEF AttemptInv
<1>4. ASSUME NEW w \in Workers,
             \/ AnalyzeOk(w) \/ AnalyzeErr(w)
             \/ SetDone(w) \/ SetFailed(w) \/ RecordFailure(w) \/ Archive(w)
      PROVE AttemptInv'
  BY <1>0, <1>1, <1>4
     DEF AnalyzeOk, AnalyzeErr, SetDone, SetFailed, RecordFailure, Archive, Goto, Leave, TypeOK
<1>5. ASSUME NEW w \in Workers, HeartbeatTick(w) PROVE AttemptInv'
  BY <1>0, <1>1, <1>5 DEF HeartbeatTick, TypeOK
<1>6. ASSUME NEW j \in Jobs, ExtendLands(j) \/ ExtendFails(j) \/ Lapse(j) \/ Slip(j)
      PROVE AttemptInv'
  BY <1>0, <1>1, <1>6 DEF ExtendLands, ExtendFails, Lapse, Slip, Expire, TypeOK
<1>7. ASSUME NEW w \in Workers, DbError(w) \/ Crash(w) \/ Restart(w) PROVE AttemptInv'
  BY <1>0, <1>1, <1>7 DEF DbError, Crash, Restart, Leave, TypeOK
<1>8. ASSUME NEW w \in Workers, NEW j \in Jobs, NEW label \in {"idle", "down"},
             LostRead(w, j, label)
      PROVE AttemptInv'
  BY <1>0, <1>1, <1>8 DEF LostRead, Lease, TypeOK
<1>9. ASSUME NEW S \in SUBSET Jobs, Submit(S) PROVE AttemptInv'
  BY <1>0, <1>1, <1>9 DEF Submit, TypeOK
<1>10. ASSUME UNCHANGED vars PROVE AttemptInv'
  BY <1>0, <1>1, <1>10 DEF vars, TypeOK
<1> QED
  BY <1>2, <1>3, <1>4, <1>5, <1>6, <1>7, <1>8, <1>9, <1>10 DEF Next, Step

-----------------------------------------------------------------------------
(* Patience: who gives a job up, and what is still at work on it then.     *)

\* The handlers of a job's message are finitely many, and so are those among
\* them that are still about to analyse it or work on an attempt.
LEMMA HandlersFinite ==
  ASSUME NEW j
  PROVE  /\ IsFiniteSet(Handling(j)) /\ Cardinality(Handling(j)) \in Nat
         /\ IsFiniteSet(Attempting(j)) /\ Cardinality(Attempting(j)) \in Nat
<1>1. IsFiniteSet(Handling(j)) /\ IsFiniteSet(Attempting(j))
  BY WorkersAssumption, FS_Subset DEF Handling, Attempting
<1> QED
  BY <1>1, FS_CardinalityType

\* A step that hands the message to nobody and does not uncover it adds no
\* handler that a lost lease would have to account for.
LEMMA HandlersKept ==
  ASSUME TypeOK, TypeOK', HandlerInv, NEW j \in Jobs,
         slips <= slips', Hidden(j) <= Hidden(j)', Handling(j)' \subseteq Handling(j)
  PROVE  Cardinality(Handling(j)') <= slips' + Hidden(j)'
<1>1. Cardinality(Handling(j)') <= Cardinality(Handling(j)) /\ Cardinality(Handling(j)') \in Nat
  BY HandlersFinite, FS_Subset, FS_CardinalityType
<1>2. Cardinality(Handling(j)) <= slips + Hidden(j) /\ Cardinality(Handling(j)) \in Nat
  BY HandlersFinite DEF HandlerInv
<1>3. slips \in Nat /\ slips' \in Nat /\ Hidden(j) \in Nat /\ Hidden(j)' \in Nat
  BY BoundsAssumption DEF TypeOK, Hidden
<1> QED
  BY <1>1, <1>2, <1>3

\* A message gets a further handler only by being read again, which takes a
\* lease lost under the one before.
LEMMA HandlerNext == BaseInv /\ BaseInv' /\ HandlerInv /\ [Next]_vars => HandlerInv'
<1> SUFFICES ASSUME BaseInv, BaseInv', HandlerInv, [Next]_vars, NEW j \in Jobs
             PROVE  Cardinality(Handling(j)') <= slips' + Hidden(j)'
  BY DEF HandlerInv
<1>0. TypeOK /\ TypeOK'
  BY DEF BaseInv
<1>t. /\ slips \in Nat /\ slips' \in Nat /\ Hidden(j) \in {0, 1}
      /\ Cardinality(Handling(j)) \in Nat /\ Cardinality(Handling(j)) <= slips + Hidden(j)
  BY <1>0, BoundsAssumption, HandlersFinite DEF TypeOK, Hidden, HandlerInv
<1> USE NoJobAssumption DEF rowVars, queueVars, workerVars, budget
<1>1. ASSUME slips <= slips', Hidden(j) <= Hidden(j)', Handling(j)' \subseteq Handling(j)
      PROVE  Cardinality(Handling(j)') <= slips' + Hidden(j)'
  BY <1>0, <1>1, HandlersKept
<1>2. ASSUME NEW S \in SUBSET Jobs, Submit(S) PROVE Cardinality(Handling(j)') <= slips' + Hidden(j)'
  BY <1>0, <1>1, <1>2 DEF Submit, Handling, Hidden, TypeOK, BaseInv, QueueInv
<1>3. ASSUME NEW w \in Workers, NEW i \in Jobs, Read(w, i)
      PROVE  Cardinality(Handling(j)') <= slips' + Hidden(j)'
  <2>1. CASE i = j
    <3>1. Handling(j)' = Handling(j) \cup {w}
      BY <1>0, <1>3, <2>1 DEF Read, Handling, TypeOK
    <3>2. /\ Cardinality(Handling(j)') \in Nat
          /\ Cardinality(Handling(j)') <= Cardinality(Handling(j)) + 1
      <4> DEFINE H == Handling(j)
      <4>1. IsFiniteSet(H) /\ Cardinality(H) \in Nat
        BY HandlersFinite
      <4> HIDE DEF H
      <4>2. \/ Cardinality(H \cup {w}) = Cardinality(H)
            \/ Cardinality(H \cup {w}) = Cardinality(H) + 1
        BY <4>1, FS_AddElement
      <4>3. Handling(j)' = H \cup {w}
        BY <3>1 DEF H
      <4> QED
        BY <4>1, <4>2, <4>3 DEF H
    <3>3. Hidden(j) = 0 /\ Hidden(j)' = 1 /\ slips' = slips
      BY <1>0, <1>3, <2>1 DEF Read, Lease, Hidden, TypeOK
    <3> QED
      BY <1>t, <3>2, <3>3
  <2>2. CASE i # j
    <3>1. Handling(j)' \subseteq Handling(j)
      BY <1>0, <1>3, <2>2 DEF Read, Handling, TypeOK
    <3>2. Hidden(j)' = Hidden(j) /\ slips' = slips
      BY <1>0, <1>3, <2>2 DEF Read, Lease, Hidden, TypeOK
    <3> QED
      BY <1>1, <1>t, <3>1, <3>2
  <2> QED
    BY <2>1, <2>2
<1>4. ASSUME NEW w \in Workers,
             \/ SetRunning(w) \/ AnalyzeOk(w) \/ AnalyzeErr(w)
             \/ SetDone(w) \/ SetFailed(w) \/ HeartbeatTick(w)
      PROVE  Cardinality(Handling(j)') <= slips' + Hidden(j)'
  <2>1. message' = message /\ cur' = cur /\ slips' = slips
    BY <1>4 DEF SetRunning, AnalyzeOk, AnalyzeErr, SetDone, SetFailed, HeartbeatTick, Goto
  <2> QED
    BY <1>1, <1>t, <2>1 DEF Handling, Hidden
<1>5. ASSUME NEW w \in Workers, RecordFailure(w) \/ DbError(w) \/ Crash(w) \/ Restart(w)
      PROVE  Cardinality(Handling(j)') <= slips' + Hidden(j)'
  <2>1. message' = message /\ slips' = slips
    BY <1>5 DEF RecordFailure, DbError, Crash, Restart, Fault
  <2>2. Handling(j)' \subseteq Handling(j)
    BY <1>0, <1>5 DEF RecordFailure, DbError, Crash, Restart, Leave, Handling, TypeOK
  <2> QED
    BY <1>1, <1>t, <2>1, <2>2 DEF Hidden
<1>6. ASSUME NEW w \in Workers, Archive(w) PROVE Cardinality(Handling(j)') <= slips' + Hidden(j)'
  <2>1. slips' = slips
    BY <1>6 DEF Archive
  <2>2. CASE cur[w] = j
    <3>1. w \in Handling(j) /\ Handling(j)' = Handling(j) \ {w}
      BY <1>0, <1>6, <2>2 DEF Archive, Leave, Handling, TypeOK
    <3>2. Cardinality(Handling(j)') = Cardinality(Handling(j)) - 1
      BY <3>1, HandlersFinite, FS_RemoveElement
    <3>3. Hidden(j)' = 0
      BY <1>0, <1>6, <2>2 DEF Archive, Hidden, TypeOK
    <3> QED
      BY <1>t, <2>1, <3>2, <3>3
  <2>3. CASE cur[w] # j
    <3>1. Handling(j)' \subseteq Handling(j) /\ Hidden(j)' = Hidden(j)
      BY <1>0, <1>6, <2>3 DEF Archive, Leave, Handling, Hidden, TypeOK
    <3> QED
      BY <1>1, <1>t, <2>1, <3>1
  <2> QED
    BY <2>2, <2>3
<1>7. ASSUME NEW i \in Jobs, ExtendLands(i) \/ ExtendFails(i)
      PROVE  Cardinality(Handling(j)') <= slips' + Hidden(j)'
  BY <1>0, <1>1, <1>7, <1>t DEF ExtendLands, ExtendFails, Handling, Hidden, TypeOK
<1>8. ASSUME NEW i \in Jobs, Lapse(i) PROVE Cardinality(Handling(j)') <= slips' + Hidden(j)'
  <2>1. cur' = cur /\ slips' = slips
    BY <1>8 DEF Lapse, Expire
  <2>2. CASE i = j
    <3>1. Handling(j)' = {}
      BY <1>8, <2>1, <2>2 DEF Lapse, Held, Handling
    <3> QED
      BY <1>t, <2>1, <3>1, FS_EmptySet DEF Hidden
  <2>3. CASE i # j
    BY <1>0, <1>1, <1>8, <1>t, <2>1, <2>3 DEF Lapse, Expire, Handling, Hidden, TypeOK
  <2> QED
    BY <2>2, <2>3
<1>9. ASSUME NEW i \in Jobs, Slip(i) PROVE Cardinality(Handling(j)') <= slips' + Hidden(j)'
  <2>1. Handling(j)' = Handling(j) /\ slips' = slips + 1
    BY <1>9 DEF Slip, Expire, Handling
  <2>2. Hidden(j)' \in {0, 1}
    BY DEF Hidden
  <2> QED
    BY <1>t, <2>1, <2>2
<1>10. ASSUME NEW w \in Workers, NEW i \in Jobs, NEW label \in {"idle", "down"},
              LostRead(w, i, label)
       PROVE Cardinality(Handling(j)') <= slips' + Hidden(j)'
  <2>1. cur' = cur /\ slips' = slips
    BY <1>10 DEF LostRead, Fault
  <2>2. Hidden(j) <= Hidden(j)'
    BY <1>0, <1>10 DEF LostRead, Lease, Hidden, TypeOK
  <2> QED
    BY <1>1, <1>t, <2>1, <2>2 DEF Handling
<1>11. ASSUME UNCHANGED vars PROVE Cardinality(Handling(j)') <= slips' + Hidden(j)'
  BY <1>1, <1>11, <1>t DEF vars, Handling, Hidden
<1> QED
  BY <1>2, <1>3, <1>4, <1>5, <1>6, <1>7, <1>8, <1>9, <1>10, <1>11 DEF Next, Step

\* The account of a step in which nothing is delivered, nothing started and no
\* loop leaves the brink of an analysis.
LEMMA SpentKept ==
  ASSUME TypeOK, TypeOK', SpentInv, NEW j \in Jobs,
         starts' = starts, readCt'[j] = readCt[j], faults <= faults',
         Starting(j)' = Starting(j)
  PROVE  Allowance(j)' <= starts'[j] + Cardinality(Starting(j)') + faults'
<1>1. Allowance(j)' = Allowance(j) /\ Allowance(j) \in Nat
  BY AllowanceType, AttemptsAssumption DEF Allowance, TypeOK
<1>2. Allowance(j) <= starts[j] + Cardinality(Starting(j)) + faults
  BY DEF SpentInv
<1>3. starts[j] \in Nat /\ Cardinality(Starting(j)) \in Nat /\ faults \in Nat /\ faults' \in Nat
  BY StartingFinite, BoundsAssumption DEF TypeOK
<1> QED
  BY <1>1, <1>2, <1>3

\* A delivery that is not poison leads to an analysis, or a crash, a failed
\* statement or a lost read took it.
LEMMA SpentNext == BaseInv /\ BaseInv' /\ SpentInv /\ [Next]_vars => SpentInv'
<1> SUFFICES ASSUME BaseInv, BaseInv', SpentInv, [Next]_vars, NEW j \in Jobs
             PROVE  Allowance(j)' <= starts'[j] + Cardinality(Starting(j)') + faults'
  BY DEF SpentInv
<1>0. TypeOK /\ TypeOK'
  BY DEF BaseInv
<1>t. /\ starts[j] \in Nat /\ starts'[j] \in Nat /\ faults \in Nat /\ faults' \in Nat
      /\ Cardinality(Starting(j)) \in Nat /\ Allowance(j) \in Nat
      /\ Allowance(j) <= starts[j] + Cardinality(Starting(j)) + faults
      /\ readCt[j] \in Nat /\ MaxAttempts \in Nat
  BY <1>0, BoundsAssumption, AttemptsAssumption, StartingFinite, AllowanceType
     DEF TypeOK, SpentInv
<1> USE NoJobAssumption DEF rowVars, queueVars, workerVars, budget
<1>1. ASSUME starts' = starts, readCt'[j] = readCt[j], faults <= faults',
             Starting(j)' = Starting(j)
      PROVE  Allowance(j)' <= starts'[j] + Cardinality(Starting(j)') + faults'
  BY <1>0, <1>1, SpentKept
<1>2. ASSUME NEW S \in SUBSET Jobs, Submit(S)
      PROVE  Allowance(j)' <= starts'[j] + Cardinality(Starting(j)') + faults'
  BY <1>1, <1>2, <1>t DEF Submit, Starting
<1>3. ASSUME NEW w \in Workers, NEW i \in Jobs, Read(w, i)
      PROVE  Allowance(j)' <= starts'[j] + Cardinality(Starting(j)') + faults'
  <2>1. starts' = starts /\ faults' = faults
    BY <1>3 DEF Read
  <2>2. CASE i # j
    <3>1. readCt'[j] = readCt[j] /\ Starting(j)' = Starting(j)
      BY <1>0, <1>3, <2>2 DEF Read, Lease, Starting, TypeOK
    <3> QED
      BY <1>1, <1>t, <2>1, <3>1
  <2>3. CASE i = j /\ Poisoned(readCt[j] + 1)
    <3>1. Starting(j)' = Starting(j) /\ readCt'[j] = readCt[j] + 1
      BY <1>0, <1>3, <2>3 DEF Read, Lease, Starting, TypeOK
    <3>2. Allowance(j)' = Allowance(j)
      BY <1>t, <2>3, <3>1 DEF Allowance, Poisoned
    <3> QED
      BY <1>t, <2>1, <3>1, <3>2
  <2>4. CASE i = j /\ ~Poisoned(readCt[j] + 1)
    <3>1. /\ w \notin Starting(j) /\ Starting(j)' = Starting(j) \cup {w}
          /\ readCt'[j] = readCt[j] + 1
      BY <1>0, <1>3, <2>4 DEF Read, Lease, Starting, TypeOK
    <3>2. Allowance(j)' = Allowance(j) + 1
      BY <1>t, <2>4, <3>1 DEF Allowance, Poisoned
    <3>3. Cardinality(Starting(j)') = Cardinality(Starting(j)) + 1
      BY <3>1, StartingFinite, FS_AddElement
    <3> QED
      BY <1>t, <2>1, <3>2, <3>3
  <2> QED
    BY <2>2, <2>3, <2>4
<1>4. ASSUME NEW w \in Workers, SetRunning(w)
      PROVE  Allowance(j)' <= starts'[j] + Cardinality(Starting(j)') + faults'
  <2>1. readCt' = readCt /\ faults' = faults
    BY <1>4 DEF SetRunning
  <2>2. CASE cur[w] = j
    <3>1. w \in Starting(j) /\ Starting(j)' = Starting(j) \ {w}
      BY <1>0, <1>4, <2>2 DEF SetRunning, Goto, TypeOK, Starting
    <3>2. Cardinality(Starting(j)') = Cardinality(Starting(j)) - 1
      BY <3>1, StartingFinite, FS_RemoveElement
    <3>3. starts'[j] = starts[j] + 1
      BY <1>0, <1>4, <2>2 DEF SetRunning, TypeOK
    <3>4. Allowance(j)' = Allowance(j)
      BY <2>1 DEF Allowance
    <3> QED
      BY <1>t, <2>1, <3>2, <3>3, <3>4
  <2>3. CASE cur[w] # j
    <3>1. Starting(j)' = Starting(j) /\ starts'[j] = starts[j]
      BY <1>0, <1>4, <2>3 DEF SetRunning, Goto, TypeOK, Starting
    <3>2. Allowance(j)' = Allowance(j)
      BY <2>1 DEF Allowance
    <3> QED
      BY <1>t, <2>1, <3>1, <3>2
  <2> QED
    BY <2>2, <2>3
<1>5. ASSUME NEW w \in Workers,
             \/ AnalyzeOk(w) \/ AnalyzeErr(w) \/ SetDone(w) \/ SetFailed(w)
             \/ RecordFailure(w) \/ Archive(w) \/ HeartbeatTick(w) \/ Restart(w)
      PROVE  Allowance(j)' <= starts'[j] + Cardinality(Starting(j)') + faults'
  <2>1. starts' = starts /\ readCt' = readCt /\ faults' = faults
    BY <1>5 DEF AnalyzeOk, AnalyzeErr, SetDone, SetFailed, RecordFailure, Archive,
                HeartbeatTick, Restart
  <2>2. Starting(j)' = Starting(j)
    BY <1>0, <1>5 DEF AnalyzeOk, AnalyzeErr, SetDone, SetFailed, RecordFailure, Archive,
                      HeartbeatTick, Restart, Goto, Leave, Starting, TypeOK
  <2> QED
    BY <1>1, <1>t, <2>1, <2>2
<1>6. ASSUME NEW w \in Workers, DbError(w) \/ Crash(w)
      PROVE  Allowance(j)' <= starts'[j] + Cardinality(Starting(j)') + faults'
  <2>1. starts' = starts /\ readCt' = readCt /\ faults' = faults + 1
    BY <1>6 DEF DbError, Crash, Fault
  <2>2. Starting(j)' = Starting(j) \ {w}
    BY <1>0, <1>6 DEF DbError, Crash, Leave, Starting, TypeOK
  <2>3. Cardinality(Starting(j)') \in Nat /\ Cardinality(Starting(j)') >= Cardinality(Starting(j)) - 1
    <3> DEFINE S == Starting(j)
    <3>1. IsFiniteSet(S) /\ Cardinality(S) \in Nat
      BY StartingFinite
    <3> HIDE DEF S
    <3>2. IsFiniteSet(S \ {w}) /\ Cardinality(S \ {w}) = IF w \in S THEN Cardinality(S) - 1 ELSE Cardinality(S)
      BY <3>1, FS_RemoveElement
    <3>3. Cardinality(S \ {w}) \in Nat
      BY <3>2, FS_CardinalityType
    <3>4. Cardinality(S \ {w}) >= Cardinality(S) - 1
      BY <3>1, <3>2
    <3>5. Starting(j)' = S \ {w}
      BY <2>2 DEF S
    <3> QED
      BY <3>3, <3>4, <3>5 DEF S
  <2>4. Allowance(j)' = Allowance(j)
    BY <2>1 DEF Allowance
  <2> QED
    BY <1>t, <2>1, <2>3, <2>4
<1>7. ASSUME NEW i \in Jobs, ExtendLands(i) \/ ExtendFails(i) \/ Lapse(i) \/ Slip(i)
      PROVE  Allowance(j)' <= starts'[j] + Cardinality(Starting(j)') + faults'
  <2>1. starts' = starts /\ readCt' = readCt /\ faults' = faults /\ pc' = pc /\ cur' = cur
    BY <1>7 DEF ExtendLands, ExtendFails, Lapse, Slip, Expire
  <2> QED
    BY <1>1, <1>t, <2>1 DEF Starting
<1>8. ASSUME NEW w \in Workers, NEW i \in Jobs, NEW label \in {"idle", "down"},
             LostRead(w, i, label)
      PROVE  Allowance(j)' <= starts'[j] + Cardinality(Starting(j)') + faults'
  <2>1. starts' = starts /\ faults' = faults + 1
    BY <1>8 DEF LostRead, Fault
  <2>2. Starting(j)' = Starting(j)
    BY <1>0, <1>8 DEF LostRead, Starting, TypeOK
  <2>3. readCt'[j] = readCt[j] \/ readCt'[j] = readCt[j] + 1
    BY <1>0, <1>8 DEF LostRead, Lease, TypeOK
  <2>4. Allowance(j)' <= Allowance(j) + 1 /\ Allowance(j)' \in Nat
    BY <1>t, <2>3 DEF Allowance
  <2> QED
    BY <1>t, <2>1, <2>2, <2>4
<1>9. ASSUME UNCHANGED vars
      PROVE  Allowance(j)' <= starts'[j] + Cardinality(Starting(j)') + faults'
  BY <1>1, <1>9, <1>t DEF vars, Starting
<1> QED
  BY <1>2, <1>3, <1>4, <1>5, <1>6, <1>7, <1>8, <1>9 DEF Next, Step

\* What was true when a job was given up stays so: no later delivery of its
\* message starts an attempt, and the budgets are only spent.
LEMMA GivenUpKept ==
  ASSUME TypeOK, TypeOK', PatientFailure, NEW j \in Jobs, status[j] = "failed",
         starts[j] <= starts'[j], faults <= faults', slips <= slips',
         Attempting(j)' \subseteq Attempting(j)
  PROVE  starts'[j] + faults' + slips' >= MaxAttempts /\ Cardinality(Attempting(j)') <= slips'
<1>1. Cardinality(Attempting(j)') <= Cardinality(Attempting(j)) /\ Cardinality(Attempting(j)') \in Nat
  BY HandlersFinite, FS_Subset, FS_CardinalityType
<1>2. /\ starts[j] \in Nat /\ starts'[j] \in Nat /\ faults \in Nat /\ faults' \in Nat
      /\ slips \in Nat /\ slips' \in Nat /\ Cardinality(Attempting(j)) \in Nat /\ MaxAttempts \in Nat
  BY HandlersFinite, BoundsAssumption, AttemptsAssumption DEF TypeOK
<1>3. starts[j] + faults + slips >= MaxAttempts /\ Cardinality(Attempting(j)) <= slips
  BY DEF PatientFailure
<1> QED
  BY <1>1, <1>2, <1>3

\* The handler that gives a job up was delivered it beyond `max_attempts`: the
\* deliveries before were started or lost, and what else still handles the
\* message does so because a lease was lost.
LEMMA PatientNext ==
  BaseInv /\ BaseInv' /\ HandlerInv /\ SpentInv /\ PatientFailure /\ [Next]_vars => PatientFailure'
<1> SUFFICES ASSUME BaseInv, BaseInv', HandlerInv, SpentInv, PatientFailure, [Next]_vars,
                    NEW j \in Jobs, status'[j] = "failed"
             PROVE  starts'[j] + faults' + slips' >= MaxAttempts /\ Cardinality(Attempting(j)') <= slips'
  BY DEF PatientFailure, Attempting
<1>0. TypeOK /\ TypeOK'
  BY DEF BaseInv
<1>t. /\ starts[j] \in Nat /\ faults \in Nat /\ slips \in Nat /\ MaxAttempts \in Nat
      /\ Cardinality(Starting(j)) \in Nat /\ Cardinality(Handling(j)) \in Nat
  BY <1>0, BoundsAssumption, AttemptsAssumption, StartingFinite, HandlersFinite DEF TypeOK
<1> USE NoJobAssumption DEF rowVars, queueVars, workerVars, budget
<1>1. CASE status[j] = "failed"
  <2>0. readCt[j] > MaxAttempts /\ readCt[j] \in Nat
    BY <1>0, <1>1 DEF BaseInv, DeliveryInv, TypeOK
  <2>1. starts[j] <= starts'[j]
    BY <1>0, <1>t DEF Next, Step, Submit, Read, SetRunning, AnalyzeOk, AnalyzeErr, SetDone, SetFailed,
       RecordFailure, Archive, HeartbeatTick, DbError, Crash, Restart, LostRead, ExtendLands,
       ExtendFails, Lapse, Slip, Expire, vars, TypeOK
  <2>2. faults <= faults' /\ slips <= slips'
    BY <1>t DEF Next, Step, Submit, Read, SetRunning, AnalyzeOk, AnalyzeErr, SetDone, SetFailed,
       RecordFailure, Archive, HeartbeatTick, DbError, Crash, Restart, LostRead, ExtendLands,
       ExtendFails, Lapse, Slip, Expire, Fault, vars
  <2>3. Attempting(j)' \subseteq Attempting(j)
    <3>1. ASSUME NEW w \in Workers, NEW i \in Jobs, Read(w, i)
          PROVE  Attempting(j)' \subseteq Attempting(j)
      <4>1. CASE i = j
        <5>1. pc'[w] = "set_failed"
          BY <1>0, <1>t, <2>0, <3>1, <4>1 DEF Read, Poisoned, TypeOK
        <5> QED
          BY <1>0, <3>1, <5>1 DEF Read, Attempting, TypeOK
      <4>2. CASE i # j
        BY <1>0, <3>1, <4>2 DEF Read, Attempting, TypeOK
      <4> QED
        BY <4>1, <4>2
    <3>2. ASSUME NEW w \in Workers,
                 \/ SetRunning(w) \/ AnalyzeOk(w) \/ AnalyzeErr(w) \/ SetDone(w) \/ SetFailed(w)
          PROVE  Attempting(j)' \subseteq Attempting(j)
      BY <1>0, <3>2 DEF SetRunning, AnalyzeOk, AnalyzeErr, SetDone, SetFailed, Goto, Attempting, TypeOK
    <3>3. ASSUME NEW w \in Workers,
                 RecordFailure(w) \/ Archive(w) \/ DbError(w) \/ Crash(w) \/ Restart(w)
          PROVE  Attempting(j)' \subseteq Attempting(j)
      BY <1>0, <3>3 DEF RecordFailure, Archive, DbError, Crash, Restart, Leave, Attempting, TypeOK
    <3>4. ASSUME NEW w \in Workers, NEW i \in Jobs, NEW label \in {"idle", "down"}, LostRead(w, i, label)
          PROVE  Attempting(j)' \subseteq Attempting(j)
      BY <1>0, <3>4 DEF LostRead, Attempting, TypeOK
    <3>5. ASSUME pc' = pc, cur' = cur PROVE Attempting(j)' \subseteq Attempting(j)
      BY <3>5 DEF Attempting
    <3> QED
      BY <3>1, <3>2, <3>3, <3>4, <3>5
         DEF Next, Step, Submit, HeartbeatTick, ExtendLands, ExtendFails, Lapse, Slip, Expire, vars
  <2> QED
    BY <1>0, <1>1, <2>1, <2>2, <2>3, GivenUpKept
<1>2. CASE status[j] # "failed"
  <2>1. PICK w \in Workers : SetFailed(w) /\ cur[w] = j
    BY <1>0, <1>2 DEF Next, Step, Submit, Read, SetRunning, AnalyzeOk, AnalyzeErr, SetDone, SetFailed,
       RecordFailure, Archive, HeartbeatTick, DbError, Crash, Restart, LostRead, ExtendLands,
       ExtendFails, Lapse, Slip, Expire, vars, TypeOK
  <2>2. starts' = starts /\ faults' = faults /\ slips' = slips
    BY <2>1 DEF SetFailed
  <2>3. w \in Handling(j) /\ IsFiniteSet(Handling(j) \ {w})
        /\ Cardinality(Handling(j) \ {w}) = Cardinality(Handling(j)) - 1
    <3>1. w \in Handling(j)
      BY <2>1 DEF Handling
    <3> QED
      BY <3>1, HandlersFinite, FS_RemoveElement
  <2>4. Cardinality(Handling(j) \ {w}) <= slips
    <3>1. Cardinality(Handling(j)) <= slips + Hidden(j) /\ Hidden(j) \in {0, 1}
      BY DEF HandlerInv, Hidden
    <3> QED
      BY <1>t, <2>3, <3>1
  <2>5. Starting(j) \subseteq Handling(j) \ {w} /\ Attempting(j)' \subseteq Handling(j) \ {w}
    BY <1>0, <2>1 DEF SetFailed, Goto, Starting, Attempting, Handling, TypeOK
  <2>6. Cardinality(Starting(j)) <= slips /\ Cardinality(Attempting(j)') <= slips
    <3>1. /\ Cardinality(Starting(j)) <= Cardinality(Handling(j) \ {w})
          /\ Cardinality(Attempting(j)') <= Cardinality(Handling(j) \ {w})
          /\ Cardinality(Attempting(j)') \in Nat
      BY <2>3, <2>5, FS_Subset, FS_CardinalityType
    <3> QED
      BY <1>t, <2>3, <2>4, <3>1
  <2>7. Allowance(j) = MaxAttempts
    <3>1. ct[w] > MaxAttempts /\ ct[w] <= readCt[j] /\ ct[w] \in Nat /\ readCt[j] \in Nat
      BY <1>0, <2>1 DEF SetFailed, BaseInv, DeliveryInv, TypeOK
    <3> QED
      BY <1>t, <3>1 DEF Allowance
  <2>8. MaxAttempts <= starts[j] + Cardinality(Starting(j)) + faults
    BY <2>7 DEF SpentInv
  <2> QED
    BY <1>t, <2>2, <2>6, <2>8
<1> QED
  BY <1>1, <1>2

-----------------------------------------------------------------------------
(* The invariant, and what follows from it.                                *)

\* The invariant holds before the first job is submitted.
LEMMA InitIInv == Init => IInv
<1> SUFFICES ASSUME Init PROVE IInv
  OBVIOUS
<1>1. BaseInv
  BY BaseInit
<1>2. LeaseInv /\ CleanInv
  BY NoJobAssumption DEF Init, LeaseInv, CleanInv
<1>3. AttemptInv
  <2>1. \A j \in Jobs : Starting(j) = {}
    BY DEF Init, Starting
  <2> QED
    BY <2>1, FS_EmptySet, AttemptsAssumption DEF Init, AttemptInv, Allowance
<1>4. PatienceInv
  <2>1. \A j \in Jobs : Starting(j) = {} /\ Handling(j) = {}
    BY NoJobAssumption DEF Init, Starting, Handling
  <2>2. HandlerInv /\ SpentInv
    <3>1. \A j \in Jobs : Cardinality(Starting(j)) = 0 /\ Cardinality(Handling(j)) = 0
      BY <2>1, FS_EmptySet
    <3> QED
      BY <3>1, AttemptsAssumption DEF Init, HandlerInv, SpentInv, Hidden, Allowance
  <2> QED
    BY <2>2 DEF Init, PatienceInv, PatientFailure
<1> QED
  BY <1>1, <1>2, <1>3, <1>4 DEF IInv

\* The layers together are an invariant of every behaviour of the queue.
THEOREM Invariance == Spec => []IInv
<1>1. IInv /\ [Next]_vars => IInv'
  BY BaseNext, LeaseNext, CleanNext, AttemptNext, HandlerNext, SpentNext, PatientNext
     DEF IInv, PatienceInv
<1> QED
  BY InitIInv, <1>1, PTL DEF Spec

\* Whatever interleaving of handlers writes a row, its columns keep their types
\* and the CHECK constraint of the table.
THEOREM TypeCorrect == Spec => []TypeOK
<1>1. IInv => TypeOK
  BY DEF IInv, BaseInv
<1> QED
  BY Invariance, <1>1, PTL

\* No accepted job is dropped from the queue before it has settled.
THEOREM JobsAreKept == Spec => []NoLostJob
<1>1. IInv => NoLostJob
  BY DEF IInv, BaseInv, TypeOK, QueueInv, NoLostJob
<1> QED
  BY Invariance, <1>1, PTL

\* A job is given up after `max_attempts` analyses, less what faults and lost
\* leases cost, and with no attempt under way that no lost lease accounts for.
THEOREM FailurePatient == Spec => []PatientFailure
<1>1. IInv => PatientFailure
  BY DEF IInv, PatienceInv
<1> QED
  BY Invariance, <1>1, PTL

\* Until a lease is lost under its handler, a message has one handler.
THEOREM LeasesExclude == Spec => []LeaseExclusive
<1>1. IInv => LeaseExclusive
  BY DEF IInv, BaseInv, TypeOK, LeaseInv, LeaseExclusive
<1> QED
  BY Invariance, <1>1, PTL

\* Until something goes wrong, no settled job is analysed again.
THEOREM NothingWasted == Spec => []NoWastedAnalysis
<1>1. IInv => NoWastedAnalysis
  BY DEF IInv, CleanInv, NoWastedAnalysis
<1> QED
  BY Invariance, <1>1, PTL

\* The first terminal write of a row is the last.
THEOREM SettledFinally == Spec => SettledRowFinal
<1> DEFINE Kept == \A j \in Jobs : status[j] \in Terminal =>
                     /\ status'[j] = status[j] /\ result'[j] = result[j]
                     /\ error'[j] = error[j] /\ lastError'[j] = lastError[j]
<1>1. IInv /\ [Next]_vars => Kept
  <2> SUFFICES ASSUME TypeOK, [Next]_vars PROVE Kept
    BY DEF IInv, BaseInv
  <2> USE NoJobAssumption DEF TypeOK, rowVars
  <2>1. ASSUME NEW S \in SUBSET Jobs, Submit(S) PROVE Kept
    BY <2>1 DEF Submit
  <2>2. ASSUME NEW w \in Workers, NEW j \in Jobs, Read(w, j) PROVE Kept
    BY <2>2 DEF Read
  <2>3. ASSUME NEW w \in Workers, SetRunning(w) PROVE Kept
    BY <2>3 DEF SetRunning
  <2>4. ASSUME NEW w \in Workers, SetDone(w) \/ SetFailed(w) PROVE Kept
    BY <2>4 DEF SetDone, SetFailed
  <2>5. ASSUME NEW w \in Workers, RecordFailure(w) PROVE Kept
    <3> SUFFICES ASSUME NEW j \in Jobs, status[j] \in Terminal
                 PROVE  lastError'[j] = lastError[j]
      BY <2>5 DEF RecordFailure
    <3>1. CASE j = cur[w]
      BY <2>5, <3>1 DEF RecordFailure
    <3>2. CASE j # cur[w]
      BY <2>5, <3>2 DEF RecordFailure
    <3> QED
      BY <3>1, <3>2
  <2>6. ASSUME NEW w \in Workers,
               \/ AnalyzeOk(w) \/ AnalyzeErr(w) \/ Archive(w) \/ HeartbeatTick(w)
               \/ DbError(w) \/ Crash(w) \/ Restart(w)
        PROVE Kept
    BY <2>6 DEF AnalyzeOk, AnalyzeErr, Archive, HeartbeatTick, DbError, Crash, Restart
  <2>7. ASSUME NEW j \in Jobs, ExtendLands(j) \/ ExtendFails(j) \/ Lapse(j) \/ Slip(j)
        PROVE Kept
    BY <2>7 DEF ExtendLands, ExtendFails, Lapse, Slip, Expire
  <2>8. ASSUME NEW w \in Workers, NEW j \in Jobs, NEW label \in {"idle", "down"},
               LostRead(w, j, label)
        PROVE Kept
    BY <2>8 DEF LostRead
  <2>9. ASSUME UNCHANGED vars PROVE Kept
    BY <2>9 DEF vars
  <2> QED
    BY <2>1, <2>2, <2>3, <2>4, <2>5, <2>6, <2>7, <2>8, <2>9 DEF Next, Step
<1>2. [][Kept]_vars => SettledRowFinal
  BY DEF SettledRowFinal
<1> QED
  BY Invariance, <1>1, <1>2, PTL DEF Spec

-----------------------------------------------------------------------------
(* Refinement.                                                             *)

\* Every behaviour of table, queue and loops is one JobLifecycle allows: the
\* statements that write `status` are its actions, all others stutter.
THEOREM QueueImplementsLifecycle == Spec => ImplementsLifecycle
<1>1. Init => Lifecycle!Init
  BY DEF Init, Lifecycle!Init
<1>2. IInv /\ [Next]_vars => [Lifecycle!Next]_(Lifecycle!lvars)
  <2> SUFFICES ASSUME IInv, [Next]_vars PROVE [Lifecycle!Next]_(Lifecycle!lvars)
    OBVIOUS
  <2>0. BaseInv /\ TypeOK /\ AttemptInv
    BY DEF IInv, BaseInv
  <2> USE NoJobAssumption, AttemptsAssumption DEF TypeOK, rowVars
  <2>1. ASSUME NEW S \in SUBSET Jobs, Submit(S) PROVE Lifecycle!Next
    BY <2>1 DEF Submit, Lifecycle!Submit, Lifecycle!Next
  <2>2. ASSUME NEW w \in Workers, SetRunning(w) PROVE Lifecycle!Next
    <3>1. PICK j \in Jobs : cur[w] = j
      BY <2>0, <2>2 DEF SetRunning
    <3>2. w \in Starting(j)
      BY <2>2, <3>1 DEF SetRunning, Starting
    <3>3. Cardinality(Starting(j)) > 0
      BY <3>2, StartingFinite, FS_EmptySet
    <3>4. starts[j] < MaxAttempts
      <4>1. starts[j] + Cardinality(Starting(j)) <= Allowance(j)
        BY <2>0 DEF AttemptInv
      <4> QED
        BY <2>0, <3>3, <4>1, StartingFinite, AllowanceType
    <3>5. status[j] # "absent"
      BY <2>0, <3>1 DEF BaseInv, QueueInv
    <3>6. Lifecycle!Attempt(j)
      BY <2>2, <3>1, <3>4, <3>5 DEF SetRunning, Lifecycle!Attempt, Lifecycle!Accepted
    <3> QED
      BY <3>6 DEF Lifecycle!Next
  <2>3. ASSUME NEW w \in Workers, SetDone(w)
        PROVE  Lifecycle!Next \/ UNCHANGED Lifecycle!lvars
    <3>1. PICK j \in Jobs : cur[w] = j
      BY <2>0, <2>3 DEF SetDone
    <3>2. CASE status[j] \in NonTerminal
      <4>1. starts[j] > 0
        BY <2>0, <2>3, <3>1 DEF SetDone, AttemptInv
      <4>2. Lifecycle!Complete(j)
        BY <2>3, <3>1, <3>2, <4>1 DEF SetDone, Lifecycle!Complete, Lifecycle!Accepted
      <4> QED
        BY <4>2 DEF Lifecycle!Next, Lifecycle!Settle
    <3>3. CASE status[j] \notin NonTerminal
      BY <2>3, <3>1, <3>3 DEF SetDone, Lifecycle!lvars
    <3> QED
      BY <3>2, <3>3
  <2>4. ASSUME NEW w \in Workers, SetFailed(w)
        PROVE  Lifecycle!Next \/ UNCHANGED Lifecycle!lvars
    <3>1. PICK j \in Jobs : cur[w] = j
      BY <2>0, <2>4 DEF SetFailed
    <3>2. CASE status[j] \in NonTerminal
      <4>1. Lifecycle!GiveUp(j)
        BY <2>4, <3>1, <3>2 DEF SetFailed, Lifecycle!GiveUp, Lifecycle!Accepted
      <4> QED
        BY <4>1 DEF Lifecycle!Next, Lifecycle!Settle
    <3>3. CASE status[j] \notin NonTerminal
      BY <2>4, <3>1, <3>3 DEF SetFailed, Lifecycle!lvars
    <3> QED
      BY <3>2, <3>3
  <2>5. ASSUME NEW w \in Workers,
               \/ \E j \in Jobs : Read(w, j)
               \/ AnalyzeOk(w) \/ AnalyzeErr(w) \/ RecordFailure(w) \/ Archive(w)
               \/ HeartbeatTick(w) \/ DbError(w) \/ Crash(w) \/ Restart(w)
               \/ \E j \in Jobs, label \in {"idle", "down"} : LostRead(w, j, label)
        PROVE  UNCHANGED Lifecycle!lvars
    BY <2>5 DEF Read, AnalyzeOk, AnalyzeErr, RecordFailure, Archive, HeartbeatTick,
                DbError, Crash, Restart, LostRead, Lifecycle!lvars
  <2>6. ASSUME NEW j \in Jobs, ExtendLands(j) \/ ExtendFails(j) \/ Lapse(j) \/ Slip(j)
        PROVE  UNCHANGED Lifecycle!lvars
    BY <2>6 DEF ExtendLands, ExtendFails, Lapse, Slip, Expire, Lifecycle!lvars
  <2>7. ASSUME UNCHANGED vars PROVE UNCHANGED Lifecycle!lvars
    BY <2>7 DEF vars, Lifecycle!lvars
  <2> QED
    BY <2>1, <2>2, <2>3, <2>4, <2>5, <2>6, <2>7 DEF Next, Step
<1> QED
  BY Invariance, <1>1, <1>2, PTL DEF Spec, ImplementsLifecycle, Lifecycle!Spec

=============================================================================
