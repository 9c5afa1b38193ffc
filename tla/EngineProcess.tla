---------------------------- MODULE EngineProcess ---------------------------
(***************************************************************************)
(* One KataGo process at a time, seen through its pipes.  KataGo reads     *)
(* queries with one thread and writes answers with others, so a full       *)
(* stdout does not keep it from reading.  It answers the turns of its      *)
(* queries in any order, which is why neither pipe needs an order here.    *)
(* `lines` is stdout, the task that reads it and its channel in one: what  *)
(* was written before the process ended can still be read after it.        *)
(* Warnings and lines that cannot be parsed change nothing and are left    *)
(* out.                                                                    *)
(***************************************************************************)
EXTENDS Integers, FiniteSets

CONSTANTS
    Queries,        \* the calls of `analyze`, each made once
    Turns,          \* how many turns a query asks for
    PipeCapacity,   \* queries that fit into stdin
    LineCapacity,   \* lines that fit between the process and its owner
    MaxCrashes      \* bounds the model: ends of a process on its own

ASSUME EngineAssumption ==
    /\ Turns \in Nat \ {0}
    /\ PipeCapacity \in Nat \ {0}
    /\ LineCapacity \in Nat \ {0}
    /\ MaxCrashes \in Nat

VARIABLES
    os,        \* "running", "mute" (stdout closed, not yet exited) or "gone"
    ready,     \* "starting", "announced" (on stderr) or "taken" (by the owner)
    stdin,     \* queries written, not yet read
    work,      \* answers KataGo owes
    lines,     \* answers written, not yet handled by the owner
    crashes    \* how often a process ended on its own

engineVars == <<os, ready, stdin, work, lines, crashes>>

\* The number of the turn of an error, which is about a whole query.
NoTurn == 0

Written == [id : Nat, query : Queries]
Answer(x, t) == [id |-> x.id, query |-> x.query, turn |-> t]
Answers == [id : Nat, query : Queries, turn : 0..Turns]

EngineInit ==
    /\ os = "running"
    /\ ready = "starting"
    /\ stdin = {}
    /\ work = {}
    /\ lines = {}
    /\ crashes = 0

\* A new process with pipes of its own; nothing of an old one is left in them.
Launched ==
    /\ os' = "running"
    /\ ready' = "starting"
    /\ stdin' = {}
    /\ work' = {}
    /\ lines' = {}
    /\ UNCHANGED crashes

\* Mutant: the kill is sent, and the exit not waited for.
KillSent ==
    /\ os' = "mute"
    /\ stdin' = {}
    /\ work' = {}
    /\ lines' = {}
    /\ UNCHANGED <<ready, crashes>>

\* The process is killed, or found dead; its answers are not read any more.
Destroyed ==
    /\ os' = "gone"
    /\ stdin' = {}
    /\ work' = {}
    /\ lines' = {}
    /\ UNCHANGED <<ready, crashes>>

\* "Started, ready to begin handling requests".
Announce ==
    /\ os = "running"
    /\ ready = "starting"
    /\ ready' = "announced"
    /\ UNCHANGED <<os, stdin, work, lines, crashes>>

\* A query is read, and accepted or refused as a whole.
ReadQuery(x) ==
    /\ os = "running"
    /\ ready # "starting"
    /\ x \in stdin
    /\ stdin' = stdin \ {x}
    /\ \/ work' = work \cup {Answer(x, t) : t \in 1..Turns}
       \/ work' = work \cup {Answer(x, NoTurn)}
    /\ UNCHANGED <<os, ready, lines, crashes>>

WriteAnswer(a) ==
    /\ os = "running"
    /\ a \in work
    /\ Cardinality(lines) < LineCapacity
    /\ work' = work \ {a}
    /\ lines' = lines \cup {a}
    /\ UNCHANGED <<os, ready, stdin, crashes>>

\* The process ends on its own, at once or by closing stdout first.
Crash(end) ==
    /\ os = "running"
    /\ crashes < MaxCrashes
    /\ crashes' = crashes + 1
    /\ os' = end
    /\ stdin' = {}
    /\ work' = {}
    /\ UNCHANGED <<ready, lines>>

Exits ==
    /\ os = "mute"
    /\ os' = "gone"
    /\ stdin' = {}
    /\ UNCHANGED <<ready, work, lines, crashes>>

EngineNext ==
    \/ Announce
    \/ \E x \in stdin : ReadQuery(x)
    \/ \E a \in work : WriteAnswer(a)
    \/ \E end \in {"mute", "gone"} : Crash(end)
    \/ Exits

EngineTypeOK ==
    /\ os \in {"running", "mute", "gone"}
    /\ ready \in {"starting", "announced", "taken"}
    /\ stdin \subseteq Written
    /\ work \subseteq Answers
    /\ lines \subseteq Answers
    /\ crashes \in 0..MaxCrashes
=============================================================================
