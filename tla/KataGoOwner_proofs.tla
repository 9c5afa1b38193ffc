-------------------------- MODULE KataGoOwner_proofs ------------------------
(***************************************************************************)
(* Answers reach the callers they belong to, complete, and a shutdown that *)
(* has returned leaves no process, for any number of queries, turns and    *)
(* calls of shutdown, whatever the capacities and however often KataGo     *)
(* ends on its own.                                                        *)
(***************************************************************************)
EXTENDS KataGoOwner, FiniteSetTheorems, TLAPS

\* All there is of queries on the way to the process and back.
Traffic == stdin \cup work \cup lines

\* The owner works on a query exactly when it writes; while it is down, or has
\* stopped, it holds nothing of a process.
HandInv ==
    /\ pc = "write" => hand \in Queries
    /\ pc \in {"down", "stopped"} => pending = {}

\* Ids are handed out once, so a line's id tells whose answer it is.
IdInv ==
    /\ \A x \in Traffic \cup pending : x.id < nextId
    /\ \A e \in pending, x \in Traffic : x.id = e.id => x.query = e.query

\* What an entry has collected are turns of its own query.
CollectInv == \A e \in pending : e.got \subseteq Batch(e.query)

\* A process is gone once the owner is down, and once it has stopped, unless it
\* stopped because nobody is left who could have called `shutdown`.
GoneInv ==
    /\ pc = "down" => os = "gone"
    /\ pc = "stopped" /\ handles => os = "gone"
    /\ \A c \in Closers : closing[c] \in {"sending", "waiting"} => handles
    /\ ShutdownMeansGone

IInv == TypeOK /\ HandInv /\ IdInv /\ CollectInv /\ GoneInv /\ NoDeafEntry /\ AnswersMatch

EngineStep == EngineNext /\ UNCHANGED <<callerVars, ownerVars>>

-----------------------------------------------------------------------------
\* A batch has as many turns as a query asks for, so that many turns of one
\* query are all of them.
LEMMA BatchIsWhole ==
    ASSUME NEW q \in Queries, NEW S \in SUBSET Batch(q), Cardinality(S) >= Turns
    PROVE  S = Batch(q)
<1> DEFINE f == [t \in 1..Turns |-> [query |-> q, turn |-> t]]
<1>1. Turns \in Nat
  BY EngineAssumption
<1>2. IsFiniteSet(1..Turns) /\ Cardinality(1..Turns) = Turns
  <2>1. 1 \in Int /\ Turns \in Int /\ ~(1 > Turns) /\ Turns - 1 + 1 = Turns
    BY EngineAssumption
  <2> QED
    BY <2>1, FS_Interval
<1>3. f \in Surjection(1..Turns, Batch(q))
  BY DEF Surjection, Batch
<1>4. IsFiniteSet(Batch(q)) /\ Cardinality(Batch(q)) <= Turns
  BY <1>2, <1>3, FS_Surjection
<1>5. /\ IsFiniteSet(S)
      /\ Cardinality(S) <= Cardinality(Batch(q))
      /\ Cardinality(Batch(q)) = Cardinality(S) => Batch(q) = S
  BY <1>4, FS_Subset
<1>6. Cardinality(S) \in Nat /\ Cardinality(Batch(q)) \in Nat
  BY <1>4, <1>5, FS_CardinalityType
<1>7. Cardinality(Batch(q)) = Cardinality(S)
  BY <1>1, <1>4, <1>5, <1>6
<1> QED
  BY <1>5, <1>7

\* An error reaches callers that wait, and nobody else.
LEMMA FailedType ==
    ASSUME TypeOK, NEW Q
    PROVE  /\ Failed(Q) \in [Queries -> {"idle", "sending", "waiting", "ok", "err"}]
           /\ \A q \in Queries : Failed(Q)[q] = "ok" => call[q] = "ok"
  BY DEF TypeOK, Failed

\* A return of the owner keeps what does not depend on the process.
LEMMA StopInv ==
    ASSUME IInv, Stop
    PROVE  /\ call' \in [Queries -> {"idle", "sending", "waiting", "ok", "err"}]
           /\ closing' \in [Closers -> {"idle", "sending", "waiting", "done"}]
           /\ cmds' \in Seq(Queries \cup Closers) /\ Len(cmds') <= CmdCapacity
           /\ backlog' \in Seq(Queries)
           /\ HandInv' /\ CollectInv' /\ NoDeafEntry' /\ AnswersMatch'
<1>1. call' \in [Queries -> {"idle", "sending", "waiting", "ok", "err"}]
  BY FailedType DEF IInv, Stop
<1>2. closing' \in [Closers -> {"idle", "sending", "waiting", "done"}]
  BY DEF IInv, TypeOK, Stop
<1>3. /\ cmds' \in Seq(Queries \cup Closers) /\ Len(cmds') <= CmdCapacity
      /\ backlog' \in Seq(Queries)
  BY OwnerAssumption DEF Stop
<1>4. HandInv' /\ CollectInv' /\ NoDeafEntry'
  BY DEF Stop, HandInv, CollectInv, NoDeafEntry
<1>5. AnswersMatch'
  BY FailedType DEF IInv, Stop, AnswersMatch, Batch
<1> QED
  BY <1>1, <1>2, <1>3, <1>4, <1>5

\* A command joins the channel at its end, or leaves it at its head.
LEMMA Enqueued ==
    ASSUME NEW S, NEW s \in Seq(S), NEW x \in S
    PROVE  Append(s, x) \in Seq(S) /\ Len(Append(s, x)) = Len(s) + 1
  OBVIOUS

LEMMA Dequeued ==
    ASSUME NEW S, NEW s \in Seq(S), s # <<>>
    PROVE  /\ Head(s) \in S /\ Tail(s) \in Seq(S)
           /\ Len(Tail(s)) \in Nat /\ Len(Tail(s)) <= Len(s)
  OBVIOUS

-----------------------------------------------------------------------------
(* One lemma per group of steps.                                           *)

\* Calling, giving up and dropping handles.
LEMMA CallerInv == IInv /\ CallerNext => IInv'
<1> SUFFICES ASSUME IInv, CallerNext PROVE IInv'
  OBVIOUS
<1> USE OwnerAssumption DEF IInv
<1>1. ASSUME NEW q \in Queries, Ask(q) \/ TimeOut(q) PROVE IInv'
  <2>1. TypeOK'
    <3>1. call' \in [Queries -> {"idle", "sending", "waiting", "ok", "err"}]
      BY <1>1 DEF TypeOK, Ask, TimeOut
    <3> QED
      BY <1>1, <3>1 DEF TypeOK, EngineTypeOK, Ask, TimeOut, engineVars, ownerVars
  <2>2. (HandInv /\ IdInv /\ CollectInv /\ GoneInv /\ NoDeafEntry)'
    BY <1>1 DEF HandInv, IdInv, Traffic, CollectInv, GoneInv, ShutdownMeansGone, NoDeafEntry,
                Ask, TimeOut, engineVars, ownerVars
  <2>3. AnswersMatch'
    BY <1>1 DEF TypeOK, AnswersMatch, Ask, TimeOut
  <2> QED
    BY <2>1, <2>2, <2>3
<1>2. ASSUME NEW q \in Queries, SendQuery(q) PROVE IInv'
  <2>1. TypeOK'
    <3>1. cmds' \in Seq(Queries \cup Closers) /\ Len(cmds') <= CmdCapacity
      <4>1. CASE UNCHANGED cmds
        BY <4>1 DEF TypeOK
      <4>2. CASE Len(cmds) < CmdCapacity /\ cmds' = Append(cmds, q)
        <5>1. q \in Queries \cup Closers
          OBVIOUS
        <5>2. cmds \in Seq(Queries \cup Closers)
          BY DEF TypeOK
        <5>3. cmds' \in Seq(Queries \cup Closers) /\ Len(cmds') = Len(cmds) + 1
          BY <4>2, <5>1, <5>2, Enqueued
        <5> QED
          BY <4>2, <5>2, <5>3
      <4> QED
        BY <1>2, <4>1, <4>2 DEF SendQuery
    <3> QED
      BY <1>2, <3>1 DEF TypeOK, EngineTypeOK, SendQuery, engineVars
  <2>2. (HandInv /\ IdInv /\ CollectInv /\ GoneInv /\ NoDeafEntry)'
    BY <1>2 DEF HandInv, IdInv, Traffic, CollectInv, GoneInv, ShutdownMeansGone, NoDeafEntry,
                SendQuery, engineVars
  <2>3. AnswersMatch'
    BY <1>2 DEF TypeOK, AnswersMatch, SendQuery
  <2> QED
    BY <2>1, <2>2, <2>3
<1>3. ASSUME NEW c \in Closers, Close(c) \/ SendClose(c) PROVE IInv'
  <2>1. TypeOK'
    <3>1. cmds' \in Seq(Queries \cup Closers) /\ Len(cmds') <= CmdCapacity
      <4>1. CASE UNCHANGED cmds
        BY <4>1 DEF TypeOK
      <4>2. CASE Len(cmds) < CmdCapacity /\ cmds' = Append(cmds, c)
        <5>1. c \in Queries \cup Closers
          OBVIOUS
        <5>2. cmds \in Seq(Queries \cup Closers)
          BY DEF TypeOK
        <5>3. cmds' \in Seq(Queries \cup Closers) /\ Len(cmds') = Len(cmds) + 1
          BY <4>2, <5>1, <5>2, Enqueued
        <5> QED
          BY <4>2, <5>2, <5>3
      <4> QED
        BY <1>3, <4>1, <4>2 DEF Close, SendClose, ownerVars
    <3> QED
      BY <1>3, <3>1 DEF TypeOK, EngineTypeOK, Close, SendClose, engineVars, ownerVars
  <2>2. (HandInv /\ IdInv /\ CollectInv /\ NoDeafEntry /\ AnswersMatch)'
    BY <1>3 DEF HandInv, IdInv, Traffic, CollectInv, NoDeafEntry, AnswersMatch,
                Close, SendClose, engineVars, ownerVars
  <2>3. GoneInv'
    BY <1>3 DEF TypeOK, GoneInv, ShutdownMeansGone, Close, SendClose, engineVars, ownerVars
  <2> QED
    BY <2>1, <2>2, <2>3
<1>4. CASE DropHandles
  <2>1. TypeOK'
    BY <1>4 DEF TypeOK, EngineTypeOK, DropHandles, engineVars, ownerVars
  <2>2. (HandInv /\ IdInv /\ CollectInv /\ GoneInv /\ NoDeafEntry /\ AnswersMatch)'
    BY <1>4 DEF HandInv, IdInv, Traffic, CollectInv, GoneInv, ShutdownMeansGone, NoDeafEntry,
                AnswersMatch, DropHandles, engineVars, ownerVars
  <2> QED
    BY <2>1, <2>2
<1> QED
  BY <1>1, <1>2, <1>3, <1>4 DEF CallerNext

\* KataGo starts, reads, answers and ends.
LEMMA EngineInv == IInv /\ EngineStep => IInv'
<1> SUFFICES ASSUME IInv, EngineStep PROVE IInv'
  OBVIOUS
<1> USE EngineAssumption DEF IInv
<1>1. TypeOK' /\ HandInv' /\ CollectInv' /\ AnswersMatch'
  <2>1. EngineTypeOK'
    <3>1. ASSUME NEW x \in stdin, ReadQuery(x) PROVE EngineTypeOK'
      <4>1. work' \subseteq Answers
        BY <3>1 DEF TypeOK, EngineTypeOK, ReadQuery, Written, Answers, Answer, NoTurn
      <4> QED
        BY <3>1, <4>1 DEF TypeOK, EngineTypeOK, ReadQuery
    <3>2. ASSUME NEW a \in work, WriteAnswer(a) PROVE EngineTypeOK'
      BY <3>2 DEF TypeOK, EngineTypeOK, WriteAnswer
    <3>3. ASSUME NEW end \in {"mute", "gone"}, Crash(end) PROVE EngineTypeOK'
      BY <3>3 DEF TypeOK, EngineTypeOK, Crash
    <3>4. CASE Announce \/ Exits
      BY <3>4 DEF TypeOK, EngineTypeOK, Announce, Exits
    <3> QED
      BY <3>1, <3>2, <3>3, <3>4 DEF EngineStep, EngineNext
  <2>2. UNCHANGED <<callerVars, ownerVars>>
    BY DEF EngineStep
  <2> QED
    BY <2>1, <2>2 DEF TypeOK, HandInv, CollectInv, AnswersMatch, callerVars, ownerVars
<1>2. IdInv'
  <2>1. ASSUME NEW y \in Traffic'
        PROVE  \E x \in Traffic : x.id = y.id /\ x.query = y.query
    BY <2>1 DEF EngineStep, EngineNext, Announce, ReadQuery, WriteAnswer, Crash, Exits, Traffic, Answer
  <2> QED
    BY <2>1 DEF EngineStep, ownerVars, IdInv
<1>3. GoneInv'
  BY DEF EngineStep, EngineNext, Announce, ReadQuery, WriteAnswer, Crash, Exits,
         GoneInv, ShutdownMeansGone, callerVars, ownerVars
<1>4. NoDeafEntry'
  <2>1. UNCHANGED pending
    BY DEF EngineStep, ownerVars
  <2>2. ASSUME NEW x \in stdin, ReadQuery(x) PROVE NoDeafEntry'
    <3> SUFFICES ASSUME NEW e \in pending
                 PROVE  \/ \E y \in stdin' : y.id = e.id
                        \/ \E a \in work' \cup lines' : a.id = e.id /\ a.turn = NoTurn
                        \/ \A t \in 1..Turns :
                              [query |-> e.query, turn |-> t] \in e.got
                              \/ Answer(e, t) \in work' \cup lines'
      BY <2>1 DEF NoDeafEntry
    <3>1. CASE x.id = e.id
      <4>1. x.query = e.query
        BY <3>1 DEF IdInv, Traffic
      <4>2. CASE work' = work \cup {Answer(x, t) : t \in 1..Turns}
        <5>1. ASSUME NEW t \in 1..Turns PROVE Answer(e, t) \in work'
          <6>1. Answer(e, t) = Answer(x, t)
            BY <3>1, <4>1 DEF Answer
          <6> QED
            BY <4>2, <6>1
        <5> QED
          BY <5>1
      <4>3. CASE work' = work \cup {Answer(x, NoTurn)}
        <5>1. Answer(x, NoTurn) \in work'
          BY <4>3
        <5>2. Answer(x, NoTurn).id = e.id /\ Answer(x, NoTurn).turn = NoTurn
          BY <3>1 DEF Answer
        <5> QED
          BY <5>1, <5>2
      <4> QED
        BY <2>2, <4>2, <4>3 DEF ReadQuery
    <3>2. CASE x.id # e.id
      BY <2>2, <3>2 DEF NoDeafEntry, ReadQuery
    <3> QED
      BY <3>1, <3>2
  <2>3. ASSUME NEW a \in work, WriteAnswer(a) PROVE NoDeafEntry'
    <3>1. work' \cup lines' = work \cup lines /\ stdin' = stdin /\ os' = os
      BY <2>3 DEF WriteAnswer
    <3> QED
      BY <2>1, <3>1 DEF NoDeafEntry
  <2>4. CASE (\E end \in {"mute", "gone"} : Crash(end)) \/ Exits
    BY <2>4 DEF NoDeafEntry, Crash, Exits
  <2>5. CASE Announce
    BY <2>1, <2>5 DEF NoDeafEntry, Announce
  <2> QED
    BY <2>2, <2>3, <2>4, <2>5 DEF EngineStep, EngineNext
<1> QED
  BY <1>1, <1>2, <1>3, <1>4

\* The owner sends a query, or cannot, and takes its next command.
LEMMA SubmitInv == IInv /\ (TakeBacklog \/ TakeQuery \/ TakeClose \/ Submit \/ SubmitFails) => IInv'
<1> SUFFICES ASSUME IInv, TakeBacklog \/ TakeQuery \/ TakeClose \/ Submit \/ SubmitFails PROVE IInv'
  OBVIOUS
<1> USE OwnerAssumption, EngineAssumption DEF IInv
<1>1. CASE TakeBacklog \/ TakeQuery \/ TakeClose
  <2>1. TypeOK'
    <3>1. /\ cmds' \in Seq(Queries \cup Closers) /\ Len(cmds') <= CmdCapacity
          /\ backlog' \in Seq(Queries)
          /\ hand' \in Queries \cup Closers
      <4>1. CASE TakeBacklog
        <5>1. backlog \in Seq(Queries) /\ backlog # <<>>
          BY <4>1 DEF TypeOK, TakeBacklog
        <5>2. Head(backlog) \in Queries /\ Tail(backlog) \in Seq(Queries)
          BY <5>1, Dequeued
        <5> QED
          BY <4>1, <5>2 DEF TypeOK, TakeBacklog
      <4>2. CASE TakeQuery \/ TakeClose
        <5>1. cmds \in Seq(Queries \cup Closers) /\ cmds # <<>> /\ Len(cmds) <= CmdCapacity
          BY <4>2 DEF TypeOK, TakeQuery, TakeClose
        <5>2. /\ Head(cmds) \in Queries \cup Closers /\ Tail(cmds) \in Seq(Queries \cup Closers)
              /\ Len(Tail(cmds)) \in Nat /\ Len(Tail(cmds)) <= Len(cmds)
          BY <5>1, Dequeued
        <5>3. Len(cmds) \in Nat /\ CmdCapacity \in Nat
          BY <5>1
        <5>4. Len(Tail(cmds)) <= CmdCapacity
          BY <5>1, <5>2, <5>3
        <5> QED
          BY <4>2, <5>2, <5>4 DEF TypeOK, TakeQuery, TakeClose
      <4> QED
        BY <1>1, <4>1, <4>2
    <3> QED
      BY <1>1, <3>1 DEF TypeOK, EngineTypeOK, TakeBacklog, TakeQuery, TakeClose, engineVars, callerVars
  <2>2. HandInv'
    BY <1>1 DEF TypeOK, HandInv, Selecting, TakeBacklog, TakeQuery, TakeClose
  <2>3. (IdInv /\ CollectInv /\ GoneInv /\ NoDeafEntry /\ AnswersMatch)'
    BY <1>1 DEF IdInv, Traffic, CollectInv, GoneInv, ShutdownMeansGone, NoDeafEntry, AnswersMatch,
                Selecting, TakeBacklog, TakeQuery, TakeClose, engineVars, callerVars
  <2> QED
    BY <2>1, <2>2, <2>3
<1>2. CASE Submit
  <2>1. hand \in Queries
    BY <1>2 DEF HandInv, Submit
  <2>2. TypeOK'
    <3>1. stdin' \subseteq Written
      BY <1>2, <2>1 DEF TypeOK, EngineTypeOK, Submit, Written
    <3>2. pending' \subseteq Entries
      BY <1>2, <2>1 DEF TypeOK, Submit, Entries
    <3>3. nextId' \in Nat
      BY <1>2 DEF TypeOK, Submit
    <3> QED
      BY <1>2, <3>1, <3>2, <3>3 DEF TypeOK, EngineTypeOK, Submit, callerVars
  <2>3. IdInv'
    <3>1. \A x \in Traffic \cup pending : x.id \in Nat
      BY DEF TypeOK, EngineTypeOK, Traffic, Written, Answers, Entries
    <3>2. /\ Traffic' = Traffic \cup {[id |-> nextId, query |-> hand]}
          /\ pending' = pending \cup {[id |-> nextId, query |-> hand, got |-> {}]}
          /\ nextId' = nextId + 1 /\ nextId \in Nat
      BY <1>2 DEF Submit, Traffic, TypeOK
    <3> QED
      BY <3>1, <3>2 DEF IdInv
  <2>4. NoDeafEntry'
    <3> SUFFICES ASSUME os = "running", NEW e \in pending'
                 PROVE  \/ \E y \in stdin' : y.id = e.id
                        \/ \E a \in work \cup lines : a.id = e.id /\ a.turn = NoTurn
                        \/ \A t \in 1..Turns :
                              [query |-> e.query, turn |-> t] \in e.got
                              \/ Answer(e, t) \in work \cup lines
      BY <1>2 DEF NoDeafEntry, Submit
    <3>1. CASE e \in pending
      BY <1>2, <3>1 DEF NoDeafEntry, Submit
    <3>2. CASE e = [id |-> nextId, query |-> hand, got |-> {}]
      <4>1. [id |-> nextId, query |-> hand] \in stdin'
        BY <1>2 DEF Submit
      <4> QED
        BY <3>2, <4>1
    <3> QED
      BY <1>2, <3>1, <3>2 DEF Submit
  <2>5. (HandInv /\ CollectInv /\ GoneInv /\ AnswersMatch)'
    BY <1>2 DEF HandInv, CollectInv, GoneInv, ShutdownMeansGone, AnswersMatch, Submit, callerVars
  <2> QED
    BY <2>2, <2>3, <2>4, <2>5
<1>3. CASE SubmitFails
  <2>1. TypeOK'
    BY <1>3, FailedType DEF TypeOK, EngineTypeOK, SubmitFails, engineVars
  <2>2. IdInv'
    <3>1. \A x \in Traffic \cup pending : x.id \in Nat
      BY DEF TypeOK, EngineTypeOK, Traffic, Written, Answers, Entries
    <3> QED
      BY <1>3, <3>1 DEF IdInv, Traffic, TypeOK, SubmitFails, engineVars
  <2>3. AnswersMatch'
    BY <1>3, FailedType DEF AnswersMatch, SubmitFails
  <2>4. (HandInv /\ CollectInv /\ GoneInv /\ NoDeafEntry)'
    BY <1>3 DEF HandInv, CollectInv, GoneInv, ShutdownMeansGone, NoDeafEntry, SubmitFails, engineVars
  <2> QED
    BY <2>1, <2>2, <2>3, <2>4
<1> QED
  BY <1>1, <1>2, <1>3

\* The owner hears of the process's start and of its end.
LEMMA SignalInv == IInv /\ (TakeReady \/ SeeEof) => IInv'
<1> SUFFICES ASSUME IInv, TakeReady \/ SeeEof PROVE IInv'
  OBVIOUS
<1> USE DEF IInv, Selecting, TakeReady, SeeEof, engineVars, callerVars
<1>1. TypeOK'
  BY DEF TypeOK, EngineTypeOK
<1>2. (HandInv /\ IdInv /\ CollectInv /\ GoneInv /\ NoDeafEntry /\ AnswersMatch)'
  BY DEF HandInv, IdInv, Traffic, CollectInv, GoneInv, ShutdownMeansGone, NoDeafEntry, AnswersMatch
<1> QED
  BY <1>1, <1>2

\* An error ends the query it is about; the entries of others lose nothing.
LEMMA ErrorInv == ASSUME IInv, NEW a \in lines, HandleError(a) PROVE IInv'
<1> USE DEF IInv
<1>1. TypeOK'
  <2>1. call' \in [Queries -> {"idle", "sending", "waiting", "ok", "err"}]
    BY FailedType DEF HandleError
  <2> QED
    BY <2>1 DEF TypeOK, EngineTypeOK, HandleError
<1>2. AnswersMatch'
  BY FailedType DEF AnswersMatch, HandleError
<1>3. NoDeafEntry'
  <2> SUFFICES ASSUME os = "running", NEW e \in pending, e.id # a.id
               PROVE  \/ \E y \in stdin : y.id = e.id
                      \/ \E b \in work \cup lines' : b.id = e.id /\ b.turn = NoTurn
                      \/ \A t \in 1..Turns :
                            [query |-> e.query, turn |-> t] \in e.got
                            \/ Answer(e, t) \in work \cup lines'
    BY DEF NoDeafEntry, HandleError, Hits
  <2>1. \A b \in lines : b.id = e.id => b \in lines'
    BY DEF HandleError
  <2>2. \A t \in 1..Turns : Answer(e, t).id = e.id
    BY DEF Answer
  <2> QED
    BY <2>1, <2>2 DEF NoDeafEntry
<1>4. (HandInv /\ IdInv /\ CollectInv /\ GoneInv)'
  BY DEF HandInv, IdInv, Traffic, CollectInv, GoneInv, ShutdownMeansGone, HandleError, Selecting
<1> QED
  BY <1>1, <1>2, <1>3, <1>4

\* A turn joins its own query's entry, and a full entry is delivered whole.
LEMMA TurnInv == ASSUME IInv, NEW a \in lines, HandleTurn(a) PROVE IInv'
<1> USE DEF IInv
<1> DEFINE b == [query |-> a.query, turn |-> a.turn]
<1> DEFINE heard == {e \in Full(a) : call[e.query] = "waiting"}
<1>1. b \in [query : Queries, turn : 1..Turns] /\ a.id \in Nat /\ b \in Batch(a.query)
  BY EngineAssumption DEF TypeOK, EngineTypeOK, Answers, HandleTurn, NoTurn, Batch
<1>2. ASSUME NEW e \in Hits(a)
      PROVE  /\ e \in Entries /\ e.query = a.query /\ e.id = a.id
             /\ Grown(e, a) \in Entries
             /\ Grown(e, a).got \subseteq Batch(e.query)
  <2>1. e \in Entries /\ e.id = a.id
    BY DEF Hits, TypeOK
  <2>2. e.query = a.query
    BY DEF Hits, IdInv, Traffic
  <2>3. Grown(e, a) \in Entries
    BY <1>1, <2>1 DEF Grown, Entries
  <2>4. Grown(e, a).got = e.got \cup {b}
    BY DEF Grown
  <2>5. e.got \subseteq Batch(e.query)
    BY DEF Hits, CollectInv
  <2> QED
    BY <1>1, <2>1, <2>2, <2>3, <2>4, <2>5
<1>3. ASSUME NEW e \in Full(a) PROVE Grown(e, a).got = Batch(e.query) /\ e.query \in Queries
  <2>1. e \in Hits(a) /\ Cardinality(Grown(e, a).got) >= Turns
    BY DEF Full
  <2>2. e.query \in Queries /\ Grown(e, a).got \subseteq Batch(e.query)
    BY <1>2, <2>1 DEF Entries
  <2> QED
    BY <2>1, <2>2, BatchIsWhole
<1>4. ASSUME NEW q \in Queries
      PROVE  \/ call'[q] = call[q] /\ answer'[q] = answer[q]
             \/ call'[q] = "ok" /\ answer'[q] = Batch(q)
  <2>1. CASE \E e \in heard : e.query = q
    <3> DEFINE d == CHOOSE e \in heard : e.query = q
    <3>1. d \in heard /\ d.query = q
      BY <2>1
    <3>2. answer'[q] = Grown(d, a).got /\ call'[q] = "ok"
      BY <2>1 DEF HandleTurn
    <3>3. Grown(d, a).got = Batch(d.query)
      BY <1>3, <3>1
    <3> QED
      BY <3>1, <3>2, <3>3
  <2>2. CASE ~ \E e \in heard : e.query = q
    BY <2>2 DEF HandleTurn
  <2> QED
    BY <2>1, <2>2
<1>5. /\ call' \in [Queries -> {"idle", "sending", "waiting", "ok", "err"}]
      /\ answer' \in [Queries -> SUBSET [query : Queries, turn : 1..Turns]]
  <2>1. \A q \in Queries : Batch(q) \subseteq [query : Queries, turn : 1..Turns]
    BY DEF Batch
  <2>2. DOMAIN call' = Queries /\ call' = [q \in Queries |-> call'[q]]
    BY DEF HandleTurn
  <2>3. DOMAIN answer' = Queries /\ answer' = [q \in Queries |-> answer'[q]]
    BY DEF HandleTurn
  <2> QED
    BY <1>4, <2>1, <2>2, <2>3 DEF TypeOK
<1>6. TypeOK'
  <2>1. pending' \subseteq Entries
    BY <1>2 DEF HandleTurn, TypeOK
  <2> QED
    BY <1>5, <2>1 DEF TypeOK, EngineTypeOK, HandleTurn
<1>7. AnswersMatch'
  BY <1>4 DEF AnswersMatch
<1>8. ASSUME NEW e \in pending'
      PROVE  \/ e \in pending /\ e.id # a.id
             \/ \E d \in Hits(a) : e = Grown(d, a)
  BY DEF HandleTurn, Hits
<1>9. IdInv' /\ CollectInv'
  <2>1. ASSUME NEW e \in pending'
        PROVE  /\ e.id < nextId
               /\ \A x \in Traffic : x.id = e.id => x.query = e.query
               /\ e.got \subseteq Batch(e.query)
    <3>1. CASE e \in pending
      BY <3>1 DEF IdInv, CollectInv
    <3>2. ASSUME NEW d \in Hits(a), e = Grown(d, a)
          PROVE  /\ e.id < nextId
                 /\ \A x \in Traffic : x.id = e.id => x.query = e.query
                 /\ e.got \subseteq Batch(e.query)
      <4>1. d \in pending /\ e.id = d.id /\ e.query = d.query
        BY <3>2 DEF Hits, Grown
      <4> QED
        BY <1>2, <3>2, <4>1 DEF IdInv
    <3> QED
      BY <1>8, <3>1, <3>2
  <2>2. Traffic' \subseteq Traffic /\ nextId' = nextId
    BY DEF Traffic, HandleTurn
  <2> QED
    BY <2>1, <2>2 DEF IdInv, CollectInv
<1>10. NoDeafEntry'
  <2> SUFFICES ASSUME os = "running", NEW e \in pending'
               PROVE  \/ \E y \in stdin : y.id = e.id
                      \/ \E c \in work \cup lines' : c.id = e.id /\ c.turn = NoTurn
                      \/ \A t \in 1..Turns :
                            [query |-> e.query, turn |-> t] \in e.got
                            \/ Answer(e, t) \in work \cup lines'
    BY DEF NoDeafEntry, HandleTurn
  <2>1. \A c \in lines : c # a => c \in lines'
    BY DEF HandleTurn
  <2>2. a.turn # NoTurn
    BY DEF HandleTurn
  <2>3. CASE e \in pending /\ e.id # a.id
    <3>1. \A t \in 1..Turns : Answer(e, t) # a
      BY <2>3 DEF Answer
    <3> QED
      BY <2>1, <2>2, <2>3, <3>1 DEF NoDeafEntry
  <2>4. ASSUME NEW d \in Hits(a), e = Grown(d, a)
        PROVE  \/ \E y \in stdin : y.id = e.id
               \/ \E c \in work \cup lines' : c.id = e.id /\ c.turn = NoTurn
               \/ \A t \in 1..Turns :
                     [query |-> e.query, turn |-> t] \in e.got
                     \/ Answer(e, t) \in work \cup lines'
    <3>1. /\ d \in pending /\ d.id = e.id /\ d.query = e.query /\ e.got = d.got \cup {b}
      BY <2>4 DEF Hits, Grown
    <3>2. CASE \E y \in stdin : y.id = d.id
      BY <3>1, <3>2
    <3>3. CASE \E c \in work \cup lines : c.id = d.id /\ c.turn = NoTurn
      BY <2>1, <2>2, <3>1, <3>3
    <3>4. ASSUME NEW t \in 1..Turns,
                 [query |-> d.query, turn |-> t] \in d.got \/ Answer(d, t) \in work \cup lines
          PROVE  [query |-> e.query, turn |-> t] \in e.got \/ Answer(e, t) \in work \cup lines'
      <4>1. Answer(e, t) = Answer(d, t)
        BY <3>1 DEF Answer
      <4>2. CASE Answer(d, t) = a
        <5>1. a.query = d.query /\ a.turn = t
          BY <4>2 DEF Answer
        <5> QED
          BY <3>1, <5>1
      <4>3. CASE Answer(d, t) # a
        BY <2>1, <3>1, <3>4, <4>1, <4>3
      <4> QED
        BY <4>2, <4>3
    <3> QED
      BY <3>1, <3>2, <3>3, <3>4 DEF NoDeafEntry
  <2> QED
    BY <1>8, <2>3, <2>4
<1>11. HandInv' /\ GoneInv'
  BY DEF HandInv, GoneInv, ShutdownMeansGone, HandleTurn, Selecting
<1> QED
  BY <1>6, <1>7, <1>9, <1>10, <1>11

\* The process is destroyed, and the owner returns or waits for a relaunch.
LEMMA EndInv == IInv /\ (Killed \/ Reap \/ HandlesGone \/ CloseDown) => IInv'
<1> SUFFICES ASSUME IInv, Killed \/ Reap \/ HandlesGone \/ CloseDown PROVE IInv'
  OBVIOUS
<1> USE OwnerAssumption DEF IInv
<1>1. CASE Killed \/ (Reap /\ Stop)
  <2>1. Destroyed /\ Stop /\ status' = "exited"
    BY <1>1 DEF Killed, Reap
  <2>2. TypeOK'
    BY <2>1, StopInv DEF TypeOK, EngineTypeOK, Destroyed, Stop
  <2>3. IdInv'
    BY <2>1 DEF IdInv, Traffic, Destroyed, Stop
  <2>4. GoneInv'
    BY <2>1 DEF GoneInv, ShutdownMeansGone, TypeOK, Destroyed, Stop
  <2> QED
    BY <2>1, <2>2, <2>3, <2>4, StopInv
<1>2. CASE Reap /\ supervised /\ started
  <2>1. /\ Destroyed /\ status' = "exited" /\ pc' = "down" /\ pending' = {}
        /\ call' = Failed({e.query : e \in pending})
        /\ backoff' \in {BackoffMin, backoff}
        /\ UNCHANGED <<answer, closing, handles, cmds, hand, supervised, started, nextId, backlog>>
    BY <1>2 DEF Reap
  <2>2. TypeOK'
    <3>1. BackoffMin \in BackoffMin..BackoffMax
      BY OwnerAssumption
    <3> QED
      BY <2>1, <3>1, FailedType DEF TypeOK, EngineTypeOK, Destroyed
  <2>3. AnswersMatch'
    BY <2>1, FailedType DEF AnswersMatch
  <2>4. (HandInv /\ IdInv /\ CollectInv /\ NoDeafEntry)'
    BY <2>1 DEF HandInv, IdInv, Traffic, CollectInv, NoDeafEntry, Destroyed
  <2>5. GoneInv'
    <3>1. pc = "reap"
      BY <1>2 DEF Reap
    <3> QED
      BY <2>1, <3>1 DEF GoneInv, ShutdownMeansGone, Destroyed
  <2> QED
    BY <2>2, <2>3, <2>4, <2>5
<1>3. CASE HandlesGone
  <2>1. Stop /\ ~handles
    BY <1>3 DEF HandlesGone
  <2>2. TypeOK'
    BY <1>3, <2>1, StopInv DEF TypeOK, EngineTypeOK, HandlesGone, Stop
  <2>3. IdInv'
    BY <1>3, <2>1 DEF IdInv, Traffic, HandlesGone, Stop
  <2>4. GoneInv'
    <3>1. pc # "stopped"
      BY <1>3 DEF HandlesGone, Selecting
    <3>2. \A c \in Closers : closing[c] \notin {"sending", "waiting", "done"}
      BY <2>1, <3>1 DEF GoneInv, ShutdownMeansGone
    <3>3. \A c \in Closers : closing'[c] = closing[c]
      BY <2>1, <3>2 DEF Stop
    <3> QED
      BY <2>1, <3>2, <3>3 DEF Stop, GoneInv, ShutdownMeansGone
  <2> QED
    BY <2>1, <2>2, <2>3, <2>4, StopInv
<1>4. CASE CloseDown
  <2>1. Stop /\ status' = "exited" /\ UNCHANGED engineVars /\ pc = "down"
    BY <1>4 DEF CloseDown
  <2>2. TypeOK'
    BY <2>1, StopInv DEF TypeOK, EngineTypeOK, Stop, engineVars
  <2>3. IdInv'
    BY <2>1 DEF IdInv, Traffic, Stop, engineVars
  <2>4. GoneInv'
    BY <2>1 DEF GoneInv, ShutdownMeansGone, TypeOK, Stop, engineVars
  <2> QED
    BY <2>1, <2>2, <2>3, <2>4, StopInv
<1> QED
  BY <1>1, <1>2, <1>3, <1>4 DEF Reap

\* While the owner is down it holds queries back, and launches.
LEMMA DownInv == IInv /\ (HoldQuery \/ Relaunch \/ RelaunchFails) => IInv'
<1> SUFFICES ASSUME IInv, HoldQuery \/ Relaunch \/ RelaunchFails PROVE IInv'
  OBVIOUS
<1> USE OwnerAssumption DEF IInv
<1>1. CASE HoldQuery
  <2>1. TypeOK'
    <3>1. cmds \in Seq(Queries \cup Closers) /\ cmds # <<>> /\ Len(cmds) <= CmdCapacity
      BY <1>1 DEF TypeOK, HoldQuery
    <3>2. /\ Tail(cmds) \in Seq(Queries \cup Closers)
          /\ Len(Tail(cmds)) \in Nat /\ Len(Tail(cmds)) <= Len(cmds)
      BY <3>1, Dequeued
    <3>3. Len(cmds) \in Nat /\ CmdCapacity \in Nat
      BY <3>1
    <3>4. Len(Tail(cmds)) <= CmdCapacity
      BY <3>1, <3>2, <3>3
    <3>5. backlog' \in Seq(Queries)
      BY <1>1, Enqueued DEF TypeOK, HoldQuery
    <3> QED
      BY <1>1, <3>2, <3>4, <3>5 DEF TypeOK, EngineTypeOK, HoldQuery, engineVars, callerVars
  <2>2. (HandInv /\ IdInv /\ CollectInv /\ GoneInv /\ NoDeafEntry /\ AnswersMatch)'
    BY <1>1 DEF HandInv, IdInv, Traffic, CollectInv, GoneInv, ShutdownMeansGone, NoDeafEntry,
                AnswersMatch, HoldQuery, engineVars, callerVars
  <2> QED
    BY <2>1, <2>2
<1>2. CASE Relaunch \/ RelaunchFails
  <2>1. Doubled \in BackoffMin..BackoffMax
    BY DEF Doubled, TypeOK
  <2>2. TypeOK'
    BY <1>2, <2>1 DEF TypeOK, EngineTypeOK, Relaunch, RelaunchFails, Launched, engineVars, callerVars
  <2>3. pending = {} /\ pending' = {} /\ pc = "down"
    BY <1>2 DEF HandInv, Relaunch, RelaunchFails
  <2>4. (HandInv /\ IdInv /\ CollectInv /\ GoneInv /\ NoDeafEntry /\ AnswersMatch)'
    BY <1>2, <2>3 DEF HandInv, IdInv, Traffic, CollectInv, GoneInv, ShutdownMeansGone, NoDeafEntry,
                AnswersMatch, Relaunch, RelaunchFails, Launched, engineVars, callerVars
  <2> QED
    BY <2>2, <2>4
<1> QED
  BY <1>1, <1>2

LEMMA InitIInv == Init => IInv
<1> SUFFICES ASSUME Init PROVE IInv
  OBVIOUS
<1> USE OwnerAssumption, EngineAssumption DEF Init, EngineInit
<1>1. TypeOK
  <2>1. BackoffMin \in BackoffMin..BackoffMax /\ Len(<<>>) <= CmdCapacity
    BY OwnerAssumption
  <2>2. EngineTypeOK
    BY DEF EngineTypeOK
  <2>3. cmds \in Seq(Queries \cup Closers) /\ backlog \in Seq(Queries)
    OBVIOUS
  <2>4. /\ call \in [Queries -> {"idle", "sending", "waiting", "ok", "err"}]
        /\ answer \in [Queries -> SUBSET [query : Queries, turn : 1..Turns]]
        /\ closing \in [Closers -> {"idle", "sending", "waiting", "done"}]
    OBVIOUS
  <2> QED
    BY <2>1, <2>2, <2>3, <2>4 DEF TypeOK
<1>2. HandInv /\ IdInv /\ CollectInv /\ GoneInv /\ NoDeafEntry /\ AnswersMatch
  BY DEF HandInv, IdInv, Traffic, CollectInv, GoneInv, ShutdownMeansGone, NoDeafEntry, AnswersMatch
<1> QED
  BY <1>1, <1>2 DEF IInv

-----------------------------------------------------------------------------
\* The inductive invariant: whose answers are on the way, what the table has
\* collected, and when the process is gone.
THEOREM Invariance == Spec => []IInv
<1>1. IInv /\ [Next]_vars => IInv'
  <2> SUFFICES ASSUME IInv, [Next]_vars PROVE IInv'
    OBVIOUS
  <2>1. CASE CallerNext
    BY <2>1, CallerInv
  <2>2. CASE OwnerNext
    BY <2>2, SubmitInv, SignalInv, ErrorInv, TurnInv, EndInv, DownInv DEF OwnerNext
  <2>3. CASE EngineNext /\ UNCHANGED <<callerVars, ownerVars>>
    BY <2>3, EngineInv DEF EngineStep
  <2>4. CASE UNCHANGED vars
    <3>1. TypeOK'
      BY <2>4 DEF IInv, TypeOK, EngineTypeOK, vars, engineVars, callerVars, ownerVars
    <3>2. (HandInv /\ IdInv /\ CollectInv /\ GoneInv /\ NoDeafEntry /\ AnswersMatch)'
      BY <2>4 DEF IInv, HandInv, IdInv, Traffic, CollectInv, GoneInv, ShutdownMeansGone, NoDeafEntry,
                  AnswersMatch, vars, engineVars, callerVars, ownerVars
    <3> QED
      BY <3>1, <3>2 DEF IInv
  <2> QED
    BY <2>1, <2>2, <2>3, <2>4 DEF Next
<1> QED
  BY <1>1, InitIInv, PTL DEF Spec

\* Types, the bound of the command channel, and the cap of the back-off.
THEOREM TypeCorrect == Spec => []TypeOK
  BY Invariance, PTL DEF IInv

\* A call of `analyze` returns all its own turns and nothing else.
THEOREM AnswersAreOwn == Spec => []AnswersMatch
  BY Invariance, PTL DEF IInv

\* On a running process no entry of the table waits for what nobody will send.
THEOREM EntriesAreAnswered == Spec => []NoDeafEntry
  BY Invariance, PTL DEF IInv

\* When a call of `shutdown` has returned the process has exited.
THEOREM ShutdownWaits == Spec => []ShutdownMeansGone
  BY Invariance, PTL DEF IInv, GoneInv

\* No process is launched while the one before still lives.
THEOREM EnginesAlternate == Spec => OneEngineAtATime
<1>1. IInv /\ [Next]_vars => [os' = "running" => os # "mute"]_vars
  <2> SUFFICES ASSUME IInv, Next, os = "mute" PROVE os' # "running"
    BY DEF vars
  <2>1. CASE CallerNext
    BY <2>1 DEF CallerNext, Ask, SendQuery, TimeOut, Close, SendClose, DropHandles, engineVars
  <2>2. CASE OwnerNext
    <3>1. pc # "down"
      BY DEF IInv, GoneInv
    <3> QED
      BY <2>2, <3>1 DEF OwnerNext, TakeBacklog, TakeQuery, Submit, SubmitFails, TakeReady, HandleError,
                  HandleTurn, TakeClose, Killed, SeeEof, Reap, HandlesGone, HoldQuery, CloseDown,
                  Relaunch, RelaunchFails, Destroyed, engineVars
  <2>3. CASE EngineNext
    BY <2>3 DEF EngineNext, Announce, ReadQuery, WriteAnswer, Crash, Exits
  <2> QED
    BY <2>1, <2>2, <2>3 DEF Next
<1> QED
  BY <1>1, Invariance, PTL DEF Spec, OneEngineAtATime
=============================================================================
