------------------------- MODULE RunExecutorProofs -------------------------
(***************************************************************************)
(* Theorems about RunExecutor for every set of runs, calls, assistants and *)
(* keys and every budget of mishaps.                                       *)
(***************************************************************************)
EXTENDS RunExecutor, SequenceTheorems, TLAPS

\* Between the first step of a driver and its last update the row is active,
\* as long as there is a row.
HoldPcs == {"ready", "setRunning", "pubStarted", "handling", "setCompleted"}

\* Past its last update it is not.
OverPcs == {"pubCompleted", "bcastCompleted", "pubCancelled", "pubFailed"}

Occupies(r) == status[r] \in Active \/ task[r] = "handling"

\* An id that was never inserted has no driver and no log; all the rows go with
\* their thread and none before.
InvRows == /\ \A r \in Runs : status[r] = "absent" => task[r] = "none" /\ log[r] = <<>>
           /\ \A r \in Runs : status[r] = "deleted" => ~exists
           /\ \A r \in Runs : ~exists => status[r] \in {"absent", "deleted"}

\* A requester about to start a driver is alone in doing so for that run.
InvSpawn ==
  /\ \A q \in Requesters : rpc[q] = "spawn" =>
       /\ answer[q] \in Runs
       /\ status[answer[q]] \in {"pending", "deleted"}
       /\ task[answer[q]] = "none"
  /\ \A p, q \in Requesters :
       rpc[p] = "spawn" /\ rpc[q] = "spawn" /\ answer[p] = answer[q] => p = q

InvHeld == \A r \in Runs : exists /\ task[r] \in HoldPcs => status[r] \in Active

InvOver == /\ \A r \in Runs : task[r] \in OverPcs => status[r] \notin Active
           /\ FinishedMeansFree

InvExclusive ==
  \A r, o \in Runs : Occupies(r) /\ Occupies(o) /\ assistantOf[r] = assistantOf[o] => r = o

\* The inductive invariant.
IInv == /\ TypeOK
        /\ InvRows
        /\ InvSpawn
        /\ InvHeld
        /\ InvOver
        /\ InvExclusive
        /\ OneRunPerKey
        /\ LiveDriverCancellable

-----------------------------------------------------------------------------
\* Init establishes the invariant: no row, no driver, no request.
LEMMA InitIInv == Init => IInv
<1> SUFFICES ASSUME Init PROVE IInv
  OBVIOUS
<1>1. TypeOK
  <2>1. [assistant |-> CHOOSE a \in Assistants : TRUE, key |-> NoKey, via |-> "api"] \in Asks
    BY IdsAssumption DEF Asks, Vias
  <2>2. ask \in [Requesters -> Asks] /\ rpc \in [Requesters -> RequestPcs]
    BY <2>1 DEF Init, RequestPcs
  <2>3. log \in [Runs -> Seq(Events)] /\ left \in [Mishaps -> Nat]
    BY BoundsAssumption DEF Init
  <2> QED
    BY <2>2, <2>3 DEF Init, TypeOK, Statuses, TaskPcs
<1>2. InvRows /\ InvSpawn /\ InvHeld
  BY DEF Init, InvRows, InvSpawn, InvHeld, HoldPcs, Requesters
<1>3. InvOver /\ InvExclusive
  BY DEF Init, InvOver, FinishedMeansFree, Finished, InvExclusive, Occupies, OverPcs, Active
<1>4. OneRunPerKey /\ LiveDriverCancellable
  BY DEF Init, OneRunPerKey, Row, LiveDriverCancellable, Live, LivePcs, TryPcs, ExceptPcs,
         Active, Terminal
<1> QED BY <1>1, <1>2, <1>3, <1>4 DEF IInv

\* Where a requester stands matters to the invariant only when it is about to
\* start a driver.
LEMMA RequestFrame ==
  ASSUME IInv, NEW q \in Requesters, NEW pc \in RequestPcs \ {"spawn"},
         NEW r \in Runs \cup {NoRun}, NEW A \in Asks,
         rpc' = [rpc EXCEPT ![q] = pc],
         ask' = [ask EXCEPT ![q] = A],
         answer' = [answer EXCEPT ![q] = r],
         UNCHANGED <<rows, drivers, log>>,
         left' \in [Mishaps -> Nat]
  PROVE  IInv'
<1> USE DEF IInv, rows, drivers
<1>1. TypeOK'
  BY DEF TypeOK
<1>2. InvSpawn'
  BY <1>1 DEF InvSpawn, TypeOK
<1>3. InvRows' /\ InvHeld' /\ OneRunPerKey' /\ LiveDriverCancellable'
  BY DEF InvRows, InvHeld, OneRunPerKey, Row, LiveDriverCancellable, Live
<1>4. InvOver' /\ InvExclusive'
  BY DEF InvOver, FinishedMeansFree, Finished, InvExclusive, Occupies
<1> QED BY <1>1, <1>2, <1>3, <1>4

\* A requester that moves without an answer.
LEMMA GotoFrame ==
  ASSUME IInv, NEW q \in Requesters, NEW pc \in RequestPcs \ {"spawn"}, Goto(q, pc),
         UNCHANGED <<rows, drivers, log>>, left' \in [Mishaps -> Nat]
  PROVE  IInv'
<1>1. ask' = [ask EXCEPT ![q] = ask[q]] /\ answer' = [answer EXCEPT ![q] = answer[q]]
  BY DEF Goto, IInv, TypeOK
<1>2. ask[q] \in Asks /\ answer[q] \in Runs \cup {NoRun}
  BY DEF IInv, TypeOK
<1> QED BY <1>1, <1>2, RequestFrame DEF Goto

\* A lookup leaves execute() with a run or goes on: it starts no driver.
LEMMA LookupFrame ==
  ASSUME IInv, NEW q \in Requesters, NEW found \in SUBSET Runs,
         NEW pc \in RequestPcs \ {"spawn"}, Lookup(q, found, pc)
  PROVE  IInv'
<1>0. left' \in [Mishaps -> Nat]
  BY DEF Lookup, IInv, TypeOK
<1>1. CASE found = {} /\ Goto(q, pc)
  BY <1>0, <1>1, GotoFrame DEF Lookup
<1>2. CASE \E r \in found : /\ rpc' = [rpc EXCEPT ![q] = "returned"]
                            /\ answer' = [answer EXCEPT ![q] = r]
                            /\ UNCHANGED ask
  <2>1. PICK r \in found : /\ rpc' = [rpc EXCEPT ![q] = "returned"]
                           /\ answer' = [answer EXCEPT ![q] = r]
                           /\ UNCHANGED ask
    BY <1>2
  <2>2. ask' = [ask EXCEPT ![q] = ask[q]] /\ ask[q] \in Asks
    BY <2>1 DEF IInv, TypeOK
  <2> QED BY <1>0, <2>1, <2>2, RequestFrame DEF Lookup, RequestPcs
<1> QED BY <1>1, <1>2 DEF Lookup

\* What a cancel, a fault, a time-out or an exception does to the invariant:
\* the driver moves outside the hold and over regions, its request is dropped.
LEMMA UnwindFrame ==
  ASSUME IInv, NEW r \in Runs, Live(r),
         NEW to \in {"setFailed", "setCancelled", "flush", "done"}, Unwind(r, to),
         left' \in [Mishaps -> Nat]
  PROVE  IInv'
<1> USE DEF IInv, rows, Unwind
<1>1. TypeOK'
  BY DEF TypeOK, TaskPcs, LivePcs, ExceptPcs, RequestPcs, Requesters
<1>2. InvRows' /\ InvHeld' /\ InvOver'
  BY DEF TypeOK, InvRows, InvHeld, InvOver, FinishedMeansFree, Finished, HoldPcs, OverPcs,
         Live, LivePcs, TryPcs, ExceptPcs
<1>3. InvSpawn'
  BY DEF TypeOK, InvSpawn, Requesters, Live, LivePcs, TryPcs, ExceptPcs
<1>4. InvExclusive' /\ OneRunPerKey'
  BY DEF TypeOK, InvExclusive, Occupies, OneRunPerKey, Row
<1>5. LiveDriverCancellable'
  BY DEF TypeOK, LiveDriverCancellable, Live, LivePcs
<1> QED BY <1>1, <1>2, <1>3, <1>4, <1>5

\* The insert is the one step that makes a row active: the indexes let it
\* through only while no row has the assistant or the key.
LEMMA InsertStep ==
  ASSUME IInv, NEW q \in Requesters, NEW r \in Runs,
         exists, ~Conflict(q), Insert(q, r), UNCHANGED <<drivers, log, left>>
  PROVE  IInv'
<1> USE DEF IInv, Insert, drivers, TypeOK
<1>1. ask[q] \in Asks
  OBVIOUS
<1>2. TypeOK'
  <2>1. status' \in [Runs -> Statuses] /\ rpc' \in [Requesters -> RequestPcs]
    BY DEF Statuses, Active, RequestPcs
  <2>2. assistantOf' \in [Runs -> Assistants \cup {NoAssistant}]
        /\ keyOf' \in [Runs -> Keys \cup {NoKey}]
    BY <1>1 DEF Asks
  <2> QED BY <2>1, <2>2
<1>3. InvRows' /\ InvHeld' /\ InvOver'
  BY DEF InvRows, InvHeld, InvOver, FinishedMeansFree, Finished, Active, HoldPcs, OverPcs
<1>4. InvSpawn'
  <2>1. \A p \in Requesters : rpc[p] = "spawn" => answer[p] # r
    BY DEF InvSpawn
  <2>2. task[r] = "none"
    BY DEF InvRows
  <2> QED BY <2>1, <2>2 DEF InvSpawn
<1>5. InvExclusive'
  <2>1. \A o \in Runs : Occupies(o) => assistantOf[o] # ask[q].assistant
    BY DEF Conflict, ActiveOf, InvHeld, HoldPcs, Occupies
  <2>2. \A o \in Runs : o # r /\ Occupies(o)' => Occupies(o) /\ assistantOf'[o] = assistantOf[o]
    BY DEF Occupies
  <2> QED BY <2>1, <2>2 DEF InvExclusive
<1>6. OneRunPerKey'
  <2>1. \A o \in Runs : Row(o) => keyOf[o] # ask[q].key \/ ask[q].key = NoKey
    BY DEF Conflict, WithKey
  <2>2. \A o \in Runs : o # r /\ Row(o)' => Row(o) /\ keyOf'[o] = keyOf[o]
    BY DEF Row
  <2> QED BY <2>1, <2>2 DEF OneRunPerKey
<1>7. LiveDriverCancellable'
  BY DEF LiveDriverCancellable, Live
<1> QED BY <1>2, <1>3, <1>4, <1>5, <1>6, <1>7

\* A driver starts for a run nobody else is about to start.
LEMMA SpawnStep == ASSUME IInv, NEW q \in Requesters, Spawn(q) PROVE IInv'
<1> USE DEF IInv, Spawn, Goto, rows
<1>1. /\ answer[q] \in Runs /\ task[answer[q]] = "none"
      /\ status[answer[q]] \in {"pending", "deleted"}
  BY DEF InvSpawn
<1>2. Depth(q) \in Nat
  BY DEF Depth, TypeOK, Requesters
<1>3. TypeOK'
  BY <1>1, <1>2 DEF TypeOK, TaskPcs, LivePcs, RequestPcs
<1>4. InvRows' /\ InvHeld' /\ InvOver'
  BY <1>1 DEF TypeOK, InvRows, InvHeld, InvOver, FinishedMeansFree, Finished, OverPcs, Active
<1>5. InvSpawn'
  BY <1>1 DEF TypeOK, InvSpawn
<1>6. InvExclusive' /\ OneRunPerKey'
  BY <1>1 DEF TypeOK, InvExclusive, Occupies, OneRunPerKey, Row
<1>7. LiveDriverCancellable'
  BY <1>1 DEF TypeOK, LiveDriverCancellable, Live
<1> QED BY <1>3, <1>4, <1>5, <1>6, <1>7

\* A driver that moves on without touching its row or its log.
LEMMA MoveFrame ==
  ASSUME IInv, NEW r \in Runs, NEW from \in LivePcs, NEW to \in LivePcs,
         task[r] = from, task' = [task EXCEPT ![r] = to],
         to \in HoldPcs => from \in HoldPcs,
         to = "handling" => from \in HoldPcs /\ exists,
         to \in OverPcs => from \in OverPcs,
         UNCHANGED <<rows, requests, tasks, chainDepths, log, left>>
  PROVE  IInv'
<1> USE DEF IInv, rows, requests
<1>1. TypeOK'
  BY DEF TypeOK, TaskPcs
<1>2. from # "none" /\ to # "none"
  BY DEF LivePcs, TryPcs, ExceptPcs
<1>3. InvRows' /\ InvHeld' /\ InvOver'
  BY <1>2 DEF TypeOK, InvRows, InvHeld, InvOver, FinishedMeansFree, Finished
<1>4. InvSpawn'
  BY <1>2 DEF TypeOK, InvSpawn
<1>5. InvExclusive' /\ OneRunPerKey'
  BY DEF TypeOK, InvHeld, InvExclusive, Occupies, OneRunPerKey, Row
<1>6. LiveDriverCancellable'
  BY DEF TypeOK, LiveDriverCancellable, Live
<1> QED BY <1>1, <1>3, <1>4, <1>5, <1>6

\* A driver writes its row.  Only a driver in the hold region writes "running".
LEMMA UpdateStep ==
  ASSUME IInv, NEW r \in Runs, NEW from \in TryPcs \cup ExceptPcs, NEW to \in LivePcs,
         NEW s \in Terminal \cup {"running"}, Update(r, from, s, to),
         s = "running" => from \in HoldPcs /\ to \in HoldPcs \ {"handling"},
         s # "running" => to \notin HoldPcs
  PROVE  IInv'
<1> USE DEF IInv, Update, Step, requests
<1>1. CASE ~exists
  <2>1. Handler(from) \in LivePcs /\ Handler(from) \notin HoldPcs \cup OverPcs \cup {"handling"}
    BY DEF Handler, LivePcs, ExceptPcs, HoldPcs, OverPcs
  <2>2. from \in LivePcs
    BY DEF LivePcs
  <2> QED BY <1>1, <2>1, <2>2, MoveFrame DEF rows
<1>2. CASE exists
  <2>1. from # "none" /\ to # "none"
    BY DEF LivePcs, TryPcs, ExceptPcs
  <2>2. status[r] # "absent" /\ s \notin {"absent", "deleted", "pending"}
    BY <2>1 DEF InvRows, Terminal
  <2>3. TypeOK'
    BY <1>2 DEF TypeOK, TaskPcs, Statuses, Active
  <2>4. InvRows' /\ InvHeld'
    BY <1>2, <2>1, <2>2 DEF TypeOK, InvRows, InvHeld, HoldPcs, Active
  <2>5. InvOver'
    BY <1>2, <2>2 DEF TypeOK, InvOver, InvHeld, FinishedMeansFree, Finished,
                      Active, Terminal, HoldPcs, OverPcs
  <2>6. InvSpawn'
    BY <1>2, <2>1 DEF TypeOK, InvSpawn
  <2>7. InvExclusive'
    BY <1>2 DEF TypeOK, InvHeld, InvExclusive, Occupies, Active, Terminal, HoldPcs
  <2>8. Row(r)
    BY <1>2, <2>2 DEF Row, InvRows, TypeOK, Statuses
  <2>9. OneRunPerKey'
    BY <1>2, <2>8 DEF TypeOK, OneRunPerKey, Row
  <2>10. LiveDriverCancellable'
    BY <1>2 DEF TypeOK, LiveDriverCancellable, Live, LivePcs
  <2> QED BY <2>3, <2>4, <2>5, <2>6, <2>7, <2>9, <2>10
<1> QED BY <1>1, <1>2

\* A driver appends an event.  Only a driver past its last update appends a
\* terminal one.
LEMMA PublishStep ==
  ASSUME IInv, NEW r \in Runs, NEW from \in TryPcs \cup ExceptPcs, NEW to \in LivePcs,
         NEW e \in Events, Publish(r, from, e, to),
         e \in Terminal => from \in OverPcs,
         to \in HoldPcs => from \in HoldPcs,
         to \in OverPcs => from \in OverPcs
  PROVE  IInv'
<1> USE DEF IInv, Publish, Step, requests, rows
<1>1. CASE ~exists
  <2>1. Handler(from) \in LivePcs /\ Handler(from) \notin HoldPcs \cup OverPcs \cup {"handling"}
    BY DEF Handler, LivePcs, ExceptPcs, HoldPcs, OverPcs
  <2>2. from \in LivePcs
    BY DEF LivePcs
  <2> QED BY <1>1, <2>1, <2>2, MoveFrame DEF rows
<1>2. CASE exists
  <2>1. from # "none" /\ to # "none"
    BY DEF LivePcs, TryPcs, ExceptPcs
  <2>2. log' = [log EXCEPT ![r] = Append(log[r], e)] /\ Append(log[r], e) \in Seq(Events)
    BY <1>2 DEF TypeOK
  <2>3. TypeOK'
    BY <1>2, <2>2 DEF TypeOK, TaskPcs
  <2>4. InvRows' /\ InvHeld'
    BY <1>2, <2>1 DEF TypeOK, InvRows, InvHeld
  <2>5. \A o \in Runs : Finished(o)' => Finished(o) \/ (o = r /\ e \in Terminal)
    <3> SUFFICES ASSUME NEW o \in Runs, NEW i \in DOMAIN log'[o], log'[o][i] \in Terminal
                 PROVE  Finished(o) \/ (o = r /\ e \in Terminal)
      BY DEF Finished
    <3>1. CASE o # r
      BY <2>2, <3>1 DEF TypeOK, Finished
    <3>2. CASE o = r
      <4>1. log'[r] = Append(log[r], e) /\ log[r] \in Seq(Events)
        BY <2>2 DEF TypeOK
      <4>2. i \in 1 .. Len(log[r]) + 1
        BY <3>2, <4>1
      <4>3. i = Len(log[r]) + 1 \/ (i \in DOMAIN log[r] /\ log'[r][i] = log[r][i])
        BY <4>1, <4>2
      <4>4. i = Len(log[r]) + 1 => log'[r][i] = e
        BY <4>1
      <4> QED BY <3>2, <4>3, <4>4 DEF Finished
    <3> QED BY <3>1, <3>2
  <2>6. InvOver'
    BY <1>2, <2>5 DEF TypeOK, InvOver, FinishedMeansFree
  <2>7. InvSpawn'
    BY <1>2, <2>1 DEF TypeOK, InvSpawn
  <2>8. InvExclusive' /\ OneRunPerKey'
    BY <1>2 DEF TypeOK, InvHeld, InvExclusive, Occupies, OneRunPerKey, Row, HoldPcs
  <2>9. LiveDriverCancellable'
    BY <1>2 DEF TypeOK, LiveDriverCancellable, Live, LivePcs
  <2> QED BY <2>3, <2>4, <2>6, <2>7, <2>8, <2>9
<1> QED BY <1>1, <1>2

\* The driver is over and leaves _tasks.
LEMMA FlushStep == ASSUME IInv, NEW r \in Runs, Flush(r) PROVE IInv'
<1> USE DEF IInv, Flush, Step, rows, requests
<1>1. TypeOK'
  BY DEF TypeOK, TaskPcs
<1>2. InvRows' /\ InvHeld' /\ InvOver'
  BY DEF TypeOK, InvRows, InvHeld, InvOver, FinishedMeansFree, Finished, HoldPcs, OverPcs
<1>3. InvSpawn'
  BY DEF TypeOK, InvSpawn
<1>4. InvExclusive' /\ OneRunPerKey'
  BY DEF TypeOK, InvExclusive, Occupies, OneRunPerKey, Row
<1>5. LiveDriverCancellable'
  BY DEF TypeOK, LiveDriverCancellable, Live, LivePcs, TryPcs, ExceptPcs
<1> QED BY <1>1, <1>2, <1>3, <1>4, <1>5

\* A crash clears memory: the rows keep what they say, no driver is left to
\* contradict them.
LEMMA CrashStep == ASSUME IInv, Crash PROVE IInv'
<1> USE DEF IInv, Crash, Spend, rows
<1>1. TypeOK'
  <2>1. task' \in [Runs -> TaskPcs] /\ rpc' \in [Requesters -> RequestPcs]
    BY DEF TypeOK, TaskPcs, RequestPcs
  <2>2. left' \in [Mishaps -> Nat]
    BY DEF TypeOK, Mishaps
  <2> QED BY <2>1, <2>2 DEF TypeOK
<1>2. InvRows' /\ InvHeld' /\ InvOver'
  BY DEF TypeOK, InvRows, InvHeld, InvOver, FinishedMeansFree, Finished, HoldPcs, OverPcs
<1>3. InvSpawn'
  BY DEF TypeOK, InvSpawn, InExecute
<1>4. InvExclusive' /\ OneRunPerKey'
  BY DEF TypeOK, InvExclusive, Occupies, OneRunPerKey, Row
<1>5. LiveDriverCancellable'
  BY DEF TypeOK, LiveDriverCancellable, Live, LivePcs, TryPcs, ExceptPcs
<1> QED BY <1>1, <1>2, <1>3, <1>4, <1>5

\* Deletion takes rows and log; what a handler was doing it goes on doing.
LEMMA DeleteStep == ASSUME IInv, DeleteThread PROVE IInv'
<1> USE DEF IInv, DeleteThread, Spend, requests, drivers
<1>1. TypeOK'
  <2>1. status' \in [Runs -> Statuses] /\ left' \in [Mishaps -> Nat]
    BY DEF TypeOK, Statuses, Mishaps
  <2>2. log' \in [Runs -> Seq(Events)]
    OBVIOUS
  <2> QED BY <2>1, <2>2 DEF TypeOK
<1>2. \A r \in Runs : Row(r) <=> status[r] \notin {"absent", "deleted"}
  BY DEF TypeOK, Statuses, Row, Active, Terminal
<1>3. InvRows' /\ InvHeld'
  BY <1>2 DEF TypeOK, InvRows, InvHeld
<1>4. InvOver'
  <2>1. \A r \in Runs : ~Finished(r)'
    BY DEF Finished
  <2> QED BY <2>1 DEF TypeOK, InvOver, FinishedMeansFree, Active
<1>5. InvSpawn'
  BY <1>2 DEF TypeOK, InvSpawn
<1>6. InvExclusive' /\ OneRunPerKey'
  BY <1>2 DEF TypeOK, InvExclusive, Occupies, OneRunPerKey, Row, Active, Terminal
<1>7. LiveDriverCancellable'
  BY DEF TypeOK, LiveDriverCancellable, Live
<1> QED BY <1>1, <1>3, <1>4, <1>5, <1>6, <1>7

-----------------------------------------------------------------------------
\* Every step inside execute() keeps the invariant.
LEMMA ExecuteStep == ASSUME IInv, NEW q \in Requesters, Execute(q) PROVE IInv'
<1> USE DEF RequestPcs, DbPcs
<1>1. WithKey(ask[q].key) \in SUBSET Runs /\ ActiveOf(ask[q].assistant) \in SUBSET Runs
  BY DEF WithKey, ActiveOf
<1>2. CASE FindByKey(q)
  BY <1>1, <1>2, LookupFrame DEF FindByKey
<1>3. CASE FindActive(q)
  BY <1>1, <1>3, LookupFrame DEF FindActive
<1>4. CASE CreateRun(q)
  <2>1. left' \in [Mishaps -> Nat]
    BY <1>4 DEF CreateRun, IInv, TypeOK
  <2>2. CASE Goto(q, "raised") /\ UNCHANGED rows
    BY <1>4, <2>1, <2>2, GotoFrame DEF CreateRun
  <2>3. CASE Goto(q, "raceActive") /\ UNCHANGED rows
    BY <1>4, <2>1, <2>3, GotoFrame DEF CreateRun
  <2>4. CASE exists /\ ~Conflict(q) /\ \E r \in Runs : Insert(q, r)
    BY <1>4, <2>4, InsertStep DEF CreateRun
  <2> QED BY <1>4, <2>2, <2>3, <2>4 DEF CreateRun
<1>5. CASE RaceActive(q)
  <2>1. (IF ask[q].key = NoKey THEN "raised" ELSE "raceKey") \in RequestPcs \ {"spawn"}
    OBVIOUS
  <2> QED BY <1>1, <1>5, <2>1, LookupFrame DEF RaceActive
<1>6. CASE RaceKey(q)
  BY <1>1, <1>6, LookupFrame DEF RaceKey
<1>7. CASE Spawn(q)
  BY <1>7, SpawnStep
<1> QED BY <1>2, <1>3, <1>4, <1>5, <1>6, <1>7 DEF Execute

\* Every step a driver takes of its own keeps the invariant.
LEMMA DriveStep == ASSUME IInv, NEW r \in Runs, Drive(r) PROVE IInv'
<1> USE DEF HoldPcs, OverPcs, LivePcs, TryPcs, ExceptPcs
<1>1. left \in [Mishaps -> Nat]
  BY DEF IInv, TypeOK
<1>2. CASE Start(r)
  BY <1>2, MoveFrame DEF Start, Step
<1>3. CASE UpdateRunning(r)
  BY <1>3, UpdateStep DEF UpdateRunning
<1>4. CASE PublishStarted(r)
  BY <1>4, PublishStep DEF PublishStarted, Events, Terminal
<1>5. CASE HandlerDone(r)
  BY <1>5, MoveFrame DEF HandlerDone, Step
<1>6. CASE HandlerRaise(r)
  BY <1>1, <1>6, UnwindFrame DEF HandlerRaise, Live
<1>7. CASE Timeout(r)
  BY <1>1, <1>7, UnwindFrame DEF Timeout, Live
<1>8. CASE UpdateCompleted(r)
  BY <1>8, UpdateStep DEF UpdateCompleted, Terminal
<1>9. CASE PublishCompleted(r)
  BY <1>9, PublishStep DEF PublishCompleted, Events
<1>10. CASE BroadcastCompleted(r)
  BY <1>10, MoveFrame DEF BroadcastCompleted, Step
<1>11. CASE UpdateCancelled(r)
  BY <1>11, UpdateStep DEF UpdateCancelled, Terminal
<1>12. CASE PublishCancelled(r)
  BY <1>12, PublishStep DEF PublishCancelled, Events
<1>13. CASE UpdateFailed(r)
  BY <1>13, UpdateStep DEF UpdateFailed, Terminal
<1>14. CASE PublishFailed(r)
  BY <1>14, PublishStep DEF PublishFailed, Events
<1>15. CASE Flush(r)
  BY <1>15, FlushStep
<1> QED BY <1>2, <1>3, <1>4, <1>5, <1>6, <1>7, <1>8, <1>9, <1>10, <1>11, <1>12, <1>13,
           <1>14, <1>15 DEF Drive

\* Every step whatever keeps the invariant.
LEMMA NextIInv == IInv /\ [Next]_vars => IInv'
<1> SUFFICES ASSUME IInv, [Next]_vars PROVE IInv'
  OBVIOUS
<1>1. left \in [Mishaps -> Nat]
  BY DEF IInv, TypeOK
<1>2. ASSUME NEW m \in Mishaps, Spend(m) PROVE left' \in [Mishaps -> Nat]
  BY <1>1, <1>2 DEF Spend
<1>3. ASSUME NEW q \in Requesters, NEW a \in Assistants, NEW k \in Keys \cup {NoKey},
             NEW v \in Vias, Enter(q, a, k, v)
      PROVE  IInv'
  <2>1. [assistant |-> a, key |-> k, via |-> v] \in Asks
    BY DEF Asks
  <2>2. (IF k = NoKey THEN "byActive" ELSE "byKey") \in RequestPcs \ {"spawn"}
    BY DEF RequestPcs, DbPcs
  <2> QED BY <1>1, <1>3, <2>1, <2>2, RequestFrame DEF Enter
<1>4. ASSUME NEW c \in Calls, NEW a \in Assistants, NEW k \in Keys \cup {NoKey},
             NEW v \in Vias, Call(c, a, k, v)
      PROVE  IInv'
  BY <1>3, <1>4 DEF Call, Requesters
<1>5. ASSUME NEW r \in Runs, NEW a \in Assistants, NEW v \in Vias, Nested(r, a, v)
      PROVE  IInv'
  BY <1>3, <1>5 DEF Nested, Requesters
<1>6. ASSUME NEW q \in Requesters, RequestFault(q) PROVE IInv'
  BY <1>2, <1>6, GotoFrame DEF RequestFault, Mishaps, RequestPcs
<1>7. ASSUME NEW r \in Runs, Cancel(r) PROVE IInv'
  <2>1. Interrupted(task[r]) \in {"setCancelled", "flush", "done"}
    BY DEF Interrupted
  <2> QED BY <1>2, <1>7, <2>1, UnwindFrame DEF Cancel, Mishaps
<1>8. ASSUME NEW r \in Runs, DriverFault(r) PROVE IInv'
  <2>1. (IF task[r] = "flush" THEN "done" ELSE Handler(task[r])) \in {"setFailed", "flush", "done"}
    BY DEF Handler
  <2> QED BY <1>2, <1>8, <2>1, UnwindFrame DEF DriverFault, Mishaps
<1>9. CASE UNCHANGED vars
  BY <1>9 DEF vars, rows, requests, drivers, IInv, TypeOK, InvRows, InvSpawn, InvHeld, InvOver,
     FinishedMeansFree, Finished, InvExclusive, Occupies, OneRunPerKey, Row,
     LiveDriverCancellable, Live
<1> QED BY <1>4, <1>5, <1>6, <1>7, <1>8, <1>9, ExecuteStep, DriveStep, CrashStep, DeleteStep
        DEF Next

\* The invariant holds throughout.
THEOREM Invariance == Spec => []IInv
BY InitIInv, NextIInv, PTL DEF Spec

\* Types.
THEOREM TypeCorrect == Spec => []TypeOK
<1>1. IInv => TypeOK
  BY DEF IInv
<1> QED BY <1>1, Invariance, PTL

\* No assistant ever has two handlers at work in the thread.
THEOREM Exclusion == Spec => []HandlerExclusion
<1>1. IInv => HandlerExclusion
  BY DEF IInv, InvExclusive, Occupies, HandlerExclusion
<1> QED BY <1>1, Invariance, PTL

\* A run whose end is in the log has given its assistant back.
THEOREM FinishedIsFree == Spec => []FinishedMeansFree
<1>1. IInv => FinishedMeansFree
  BY DEF IInv, InvOver
<1> QED BY <1>1, Invariance, PTL

\* However many requests race with one key, one run carries it.
THEOREM KeyIsUnique == Spec => []OneRunPerKey
<1>1. IInv => OneRunPerKey
  BY DEF IInv
<1> QED BY <1>1, Invariance, PTL

\* cancel() finds every driver that still runs.
THEOREM Cancellable == Spec => []LiveDriverCancellable
<1>1. IInv => LiveDriverCancellable
  BY DEF IInv
<1> QED BY <1>1, Invariance, PTL

-----------------------------------------------------------------------------
\* A row written by a driver: what the two theorems below need to know of it.
LEMMA UpdateRow ==
  ASSUME IInv, NEW r \in Runs, NEW from \in TryPcs \cup ExceptPcs,
         NEW to \in LivePcs \ {"handling"}, NEW s \in Terminal \cup {"running"},
         from # "handling", Update(r, from, s, to),
         s = "running" => from \in HoldPcs, from \in HoldPcs \/ s \in Terminal
  PROVE  /\ UNCHANGED <<exists, assistantOf>>
         /\ \A o \in Runs : task'[o] = "handling" <=> task[o] = "handling"
         /\ \A o \in Runs : o # r => status'[o] = status[o]
         /\ status[r] # "absent" /\ status'[r] # "absent"
         /\ status'[r] \in Active => status[r] \in Active
<1> USE DEF IInv, TypeOK, Update, Step
<1>1. Handler(from) # "handling"
  BY DEF Handler
<1>2. status[r] # "absent"
  BY DEF InvRows, TryPcs, ExceptPcs
<1>3. s # "absent" /\ (s \in Active => s = "running")
  BY DEF Active, Terminal
<1> QED BY <1>1, <1>2, <1>3 DEF InvHeld

\* Nothing but the insert of a fresh id makes a row active again.
THEOREM NoReactivation == Spec => NeverReactivated
<1>1. ASSUME IInv, [Next]_vars, NEW r \in Runs, status[r] \in Terminal
      PROVE  status'[r] \notin Active
  <2> USE DEF HoldPcs, LivePcs, TryPcs, ExceptPcs, Terminal
  <2>1. CASE UNCHANGED status
    BY <1>1, <2>1 DEF Active
  <2>2. CASE \E q \in Requesters, o \in Runs : Insert(q, o)
    BY <1>1, <2>2 DEF Insert, IInv, TypeOK, Active
  <2>3. CASE DeleteThread
    BY <1>1, <2>3 DEF DeleteThread, Row, Active
  <2>4. CASE \E o \in Runs : \/ UpdateRunning(o) \/ UpdateCompleted(o)
                             \/ UpdateCancelled(o) \/ UpdateFailed(o)
    <3>1. PICK o \in Runs : \/ UpdateRunning(o) \/ UpdateCompleted(o)
                            \/ UpdateCancelled(o) \/ UpdateFailed(o)
      BY <2>4
    <3>2. (status'[o] \in Active => status[o] \in Active)
          /\ \A p \in Runs : p # o => status'[p] = status[p]
      BY <1>1, <3>1, UpdateRow
      DEF UpdateRunning, UpdateCompleted, UpdateCancelled, UpdateFailed
    <3> QED BY <1>1, <3>2 DEF Active
  <2>5. \/ UNCHANGED status \/ DeleteThread
        \/ \E q \in Requesters, o \in Runs : Insert(q, o)
        \/ \E o \in Runs : \/ UpdateRunning(o) \/ UpdateCompleted(o)
                           \/ UpdateCancelled(o) \/ UpdateFailed(o)
    <3>1. ASSUME NEW q \in Requesters, Execute(q)
          PROVE  UNCHANGED status \/ \E o \in Runs : Insert(q, o)
      BY <3>1 DEF Execute, FindByKey, FindActive, CreateRun, RaceActive, RaceKey, Spawn, Lookup, rows
    <3>2. ASSUME NEW o \in Runs, Drive(o)
          PROVE  \/ UNCHANGED status
                 \/ UpdateRunning(o) \/ UpdateCompleted(o)
                 \/ UpdateCancelled(o) \/ UpdateFailed(o)
      BY <3>2 DEF Drive, Start, PublishStarted, HandlerDone, HandlerRaise, Timeout, PublishCompleted,
         BroadcastCompleted, PublishCancelled, PublishFailed, Flush, Publish, Unwind, rows
    <3> QED BY <1>1, <3>1, <3>2
            DEF Next, Call, Nested, Enter, RequestFault, Cancel, DriverFault, Unwind, Crash, rows, vars
  <2> QED BY <2>1, <2>2, <2>3, <2>4, <2>5
<1>2. IInv /\ [Next]_vars => [\A r \in Runs : status[r] \in Terminal => status'[r] \notin Active]_vars
  BY <1>1
<1> QED BY <1>2, Invariance, PTL DEF Spec, NeverReactivated

-----------------------------------------------------------------------------
(* The executor implements AssistantSlot.                                  *)

\* Whether a handler works, and otherwise the status, decides the phase.
LEMMA PhaseFrame ==
  ASSUME UNCHANGED <<exists, assistantOf>>,
         \A r \in Runs : task'[r] = "handling" <=> task[r] = "handling",
         \A r \in Runs : \/ status'[r] = status[r]
                         \/ status[r] \in Active /\ status'[r] \in Active
                         \/ task[r] = "handling"
                         \/ {status[r], status'[r]} \cap (Active \cup {"absent"}) = {}
  PROVE  UNCHANGED Slot!slotVars
BY DEF phase, Slot!slotVars, Active

\* A handler comes to a stop.
LEMMA UnwindSlot ==
  ASSUME IInv, NEW r \in Runs, Live(r), NEW to \in TaskPcs \ {"handling"},
         task' = [task EXCEPT ![r] = to], UNCHANGED rows
  PROVE  [Slot!SlotNext]_(Slot!slotVars)
<1> USE DEF IInv, TypeOK, rows
<1>1. CASE task[r] # "handling"
  BY <1>1, PhaseFrame
<1>2. CASE task[r] = "handling"
  <2>1. phase[r] = "working" /\ phase' = [phase EXCEPT ![r] = IF ~exists THEN "left" ELSE "holding"]
    BY <1>2 DEF phase, InvRows, InvHeld, HoldPcs, Active
  <2> QED BY <2>1 DEF Slot!Stop, Slot!SlotNext
<1> QED BY <1>1, <1>2

\* An insert admits the run.
LEMMA InsertSlot ==
  ASSUME IInv, NEW q \in Requesters, NEW r \in Runs,
         exists, ~Conflict(q), Insert(q, r), UNCHANGED drivers
  PROVE  Slot!SlotNext
<1> USE DEF IInv, TypeOK, Insert, drivers
<1>1. ask[q].assistant \in Assistants
  BY DEF Asks
<1>2. phase[r] = "new" /\ phase' = [phase EXCEPT ![r] = "holding"]
  BY DEF phase, InvRows, Active
<1>3. \A o \in Runs : Slot!Occupies(o) => assistantOf[o] # ask[q].assistant
  BY DEF phase, Slot!Occupies, Conflict, ActiveOf, InvHeld, HoldPcs
<1>4. Slot!Admit(r, ask[q].assistant)
  BY <1>2, <1>3 DEF Slot!Admit
<1> QED BY <1>1, <1>4 DEF Slot!SlotNext

\* A terminal status gives the assistant back, unless it was given back before.
LEMMA UpdateSlot ==
  ASSUME IInv, NEW r \in Runs, NEW from \in TryPcs \cup ExceptPcs,
         NEW to \in LivePcs \ {"handling"}, NEW s \in Terminal \cup {"running"},
         from # "handling", Update(r, from, s, to),
         s = "running" => from \in HoldPcs, from \in HoldPcs \/ s \in Terminal
  PROVE  [Slot!SlotNext]_(Slot!slotVars)
<1> USE DEF IInv, TypeOK
<1>1. /\ UNCHANGED <<exists, assistantOf>>
      /\ \A o \in Runs : task'[o] = "handling" <=> task[o] = "handling"
      /\ \A o \in Runs : o # r => status'[o] = status[o]
      /\ status[r] # "absent" /\ status'[r] # "absent"
      /\ status'[r] \in Active => status[r] \in Active
  BY UpdateRow
<1>2. CASE status[r] \in Active => status'[r] \in Active
  BY <1>1, <1>2, PhaseFrame DEF Active
<1>3. CASE status[r] \in Active /\ status'[r] \notin Active
  <2>1. phase[r] = "holding" /\ phase' = [phase EXCEPT ![r] = "left"]
    BY <1>1, <1>3 DEF phase, Active, Update, Step
  <2> QED BY <1>1, <2>1 DEF Slot!Leave, Slot!SlotNext
<1> QED BY <1>2, <1>3

\* Every step of the executor is a step of AssistantSlot or none.
LEMMA NextSlot == IInv /\ [Next]_vars => [Slot!SlotNext]_(Slot!slotVars)
<1> SUFFICES ASSUME IInv, [Next]_vars PROVE [Slot!SlotNext]_(Slot!slotVars)
  OBVIOUS
<1> USE DEF HoldPcs, LivePcs, TryPcs, ExceptPcs, TaskPcs
<1>1. CASE UNCHANGED <<rows, task>>
  BY <1>1, PhaseFrame DEF rows
<1>2. ASSUME NEW q \in Requesters, Execute(q) PROVE [Slot!SlotNext]_(Slot!slotVars)
  <2>1. CASE Spawn(q)
    <3>1. answer[q] \in Runs /\ task[answer[q]] = "none"
      BY <2>1 DEF Spawn, IInv, InvSpawn
    <3> QED BY <2>1, <3>1, PhaseFrame DEF Spawn, rows, IInv, TypeOK
  <2>2. CASE CreateRun(q)
    <3>1. CASE exists /\ ~Conflict(q) /\ \E r \in Runs : Insert(q, r)
      BY <2>2, <3>1, InsertSlot DEF CreateRun
    <3>2. CASE UNCHANGED rows
      BY <1>1, <2>2, <3>2 DEF CreateRun, drivers
    <3> QED BY <2>2, <3>1, <3>2 DEF CreateRun
  <2>3. CASE ~Spawn(q) /\ ~CreateRun(q)
    BY <1>1, <1>2, <2>3 DEF Execute, FindByKey, FindActive, RaceActive, RaceKey, Lookup, drivers
  <2> QED BY <2>1, <2>2, <2>3
<1>3. ASSUME NEW r \in Runs, Drive(r) PROVE [Slot!SlotNext]_(Slot!slotVars)
  <2>1. CASE PublishStarted(r)
    <3>1. CASE ~exists
      <4>1. task' = [task EXCEPT ![r] = "setFailed"] /\ task[r] = "pubStarted" /\ UNCHANGED rows
        BY <2>1, <3>1 DEF PublishStarted, Publish, Step, Handler
      <4> QED BY <4>1, UnwindSlot DEF Live
    <3>2. CASE exists
      <4>1. phase[r] = "holding" /\ phase' = [phase EXCEPT ![r] = "working"]
        BY <2>1, <3>2 DEF PublishStarted, Publish, Step, phase, IInv, InvHeld, TypeOK, rows
      <4> QED BY <2>1, <4>1 DEF PublishStarted, Publish, Slot!Work, Slot!SlotNext, rows
    <3> QED BY <3>1, <3>2
  <2>2. CASE UpdateRunning(r)
    BY <2>2, UpdateSlot DEF UpdateRunning
  <2>3. CASE UpdateCompleted(r)
    BY <2>3, UpdateSlot DEF UpdateCompleted, Terminal
  <2>4. CASE UpdateCancelled(r)
    BY <2>4, UpdateSlot DEF UpdateCancelled, Terminal
  <2>5. CASE UpdateFailed(r)
    BY <2>5, UpdateSlot DEF UpdateFailed, Terminal
  <2>6. CASE Start(r) \/ HandlerDone(r) \/ BroadcastCompleted(r) \/ Flush(r)
    BY <2>6, UnwindSlot DEF Start, HandlerDone, BroadcastCompleted, Flush, Step, Live
  <2>7. CASE HandlerRaise(r) \/ Timeout(r)
    BY <2>7, UnwindSlot DEF HandlerRaise, Timeout, Unwind, Live, rows
  <2>8. CASE PublishCompleted(r)
    BY <2>8, UnwindSlot DEF PublishCompleted, Publish, Step, Handler, Live
  <2>9. CASE PublishCancelled(r)
    BY <2>9, UnwindSlot DEF PublishCancelled, Publish, Step, Handler, Live
  <2>10. CASE PublishFailed(r)
    BY <2>10, UnwindSlot DEF PublishFailed, Publish, Step, Handler, Live
  <2> QED BY <1>3, <2>1, <2>2, <2>3, <2>4, <2>5, <2>6, <2>7, <2>8, <2>9, <2>10 DEF Drive
<1>4. ASSUME NEW r \in Runs, Cancel(r) PROVE [Slot!SlotNext]_(Slot!slotVars)
  <2>1. Interrupted(task[r]) \in TaskPcs \ {"handling"}
    BY DEF Interrupted
  <2> QED BY <1>4, <2>1, UnwindSlot DEF Cancel, Unwind, rows
<1>5. ASSUME NEW r \in Runs, DriverFault(r) PROVE [Slot!SlotNext]_(Slot!slotVars)
  <2>1. (IF task[r] = "flush" THEN "done" ELSE Handler(task[r])) \in TaskPcs \ {"handling"}
    BY DEF Handler
  <2> QED BY <1>5, <2>1, UnwindSlot DEF DriverFault, Unwind, rows
<1>6. CASE Crash
  <2>1. phase' = [r \in Runs |-> IF phase[r] # "working" THEN phase[r]
                                 ELSE IF ~exists THEN "left" ELSE "holding"]
    BY <1>6 DEF Crash, Live, phase, IInv, TypeOK, InvRows, InvHeld, Active, rows
  <2> QED BY <1>6, <2>1 DEF Crash, Slot!StopAll, Slot!SlotNext, rows
<1>7. CASE DeleteThread
  <2>1. phase' = [r \in Runs |-> IF phase[r] = "holding" THEN "left" ELSE phase[r]]
    BY <1>7 DEF DeleteThread, Row, phase, IInv, TypeOK, Active, Terminal, drivers
  <2> QED BY <1>7, <2>1 DEF DeleteThread, Slot!Close, Slot!SlotNext
<1> QED BY <1>1, <1>2, <1>3, <1>4, <1>5, <1>6, <1>7
        DEF Next, Call, Nested, Enter, RequestFault, drivers, vars

LEMMA InitSlot == Init => Slot!SlotInit
BY DEF Init, Slot!SlotInit, phase, Active

\* Whatever the requests, cancels, faults, crashes and deletions, the executor
\* hands an assistant to one run at a time and its handler works inside a hold.
THEOREM SlotImplemented == Spec => SlotSpec
BY InitSlot, NextSlot, Invariance, PTL DEF Spec, SlotSpec, Slot!SlotSpec

-----------------------------------------------------------------------------
(* What a run says of itself.                                              *)

\* How far the log of a run can be while its driver is somewhere.
FreshPcs == {"ready", "setRunning", "pubStarted"}
BegunPcs == {"handling", "setCompleted", "pubCompleted"}
OpenPcs == {"bcastCompleted"} \cup ExceptPcs
FreePcs == {"none", "flush", "done"}

Ended(r) == \E i \in DOMAIN log[r] : log[r][i] \in {"failed", "cancelled"}

\* Nothing before run.started; run.started alone until run.completed; and after
\* run.failed or run.cancelled no more.
LogFits(r) == /\ task[r] \in FreshPcs => log[r] = <<>>
              /\ task[r] \in BegunPcs /\ exists => log[r] = <<"started">>
              /\ Ended(r) => task[r] \in FreePcs

LogInv == /\ LogShape
          /\ \A r \in Runs : LogFits(r)
          /\ \A r \in Runs : ~exists => log[r] = <<>>
          /\ \A q \in Requesters : rpc[q] = "spawn" => log[answer[q]] = <<>>

\* Nobody appends, and nobody new is about to start a driver.
LEMMA LogFrame ==
  ASSUME LogInv, UNCHANGED <<log, exists>>, \A r \in Runs : LogFits(r)',
         \A q \in Requesters : rpc'[q] = "spawn" => rpc[q] = "spawn" /\ answer'[q] = answer[q]
  PROVE  LogInv'
BY DEF LogInv, LogShape

\* A driver goes on where its log allows the same, or to where it is over.
LEMMA MoveLog ==
  ASSUME LogInv, TypeOK, NEW r \in Runs, NEW to \in TaskPcs, task' = [task EXCEPT ![r] = to],
         UNCHANGED <<log, exists>>,
         to \in FreshPcs => task[r] \in FreshPcs, to \in BegunPcs => task[r] \in BegunPcs,
         to \in OpenPcs => task[r] \notin FreePcs,
         \A q \in Requesters : rpc'[q] = "spawn" => rpc[q] = "spawn" /\ answer'[q] = answer[q]
  PROVE  LogInv'
<1>1. to \in FreshPcs \cup BegunPcs \cup OpenPcs \cup FreePcs
  BY DEF TaskPcs, LivePcs, TryPcs, ExceptPcs, FreshPcs, BegunPcs, OpenPcs, FreePcs
<1>2. \A pc : pc \in FreshPcs \cup BegunPcs => pc \notin FreePcs
  BY DEF FreshPcs, BegunPcs, FreePcs
<1>3. \A o \in Runs : LogFits(o)'
  <2>1. \A o \in Runs : task'[o] = IF o = r THEN to ELSE task[o]
    BY DEF TypeOK
  <2>2. \A o \in Runs : Ended(o)' <=> Ended(o)
    BY DEF Ended
  <2> QED
    BY <1>1, <1>2, <2>1, <2>2 DEF LogFits, LogInv
<1> QED BY <1>3, LogFrame

\* Whoever is thrown out of its try, except or finally clause.
LEMMA UnwindLog ==
  ASSUME LogInv, TypeOK, NEW r \in Runs, Live(r), NEW to \in {"setFailed", "setCancelled", "flush", "done"},
         to \in OpenPcs => task[r] \notin FreePcs, Unwind(r, to)
  PROVE  LogInv'
<1>1. to \in TaskPcs /\ to \notin FreshPcs \cup BegunPcs
  BY DEF TaskPcs, LivePcs, ExceptPcs, FreshPcs, BegunPcs
<1>2. \A q \in Requesters : rpc'[q] = "spawn" => rpc[q] = "spawn" /\ answer'[q] = answer[q]
  BY DEF Unwind, TypeOK, Requesters
<1> QED BY <1>1, <1>2, MoveLog DEF Unwind, rows

\* One event more.
LEMMA AppendLog ==
  ASSUME LogInv, IInv, exists, NEW r \in Runs, NEW from \in TryPcs \cup ExceptPcs, NEW to \in TaskPcs,
         NEW e \in Events, Publish(r, from, e, to),
         \/ e = "started" /\ from \in FreshPcs /\ to \in BegunPcs
         \/ e = "completed" /\ from \in BegunPcs /\ to \in OpenPcs
         \/ e \in {"failed", "cancelled"} /\ from \in OpenPcs /\ to \in FreePcs
  PROVE  LogInv'
<1>1. /\ TypeOK /\ task[r] = from /\ task' = [task EXCEPT ![r] = to]
      /\ log' = [log EXCEPT ![r] = Append(log[r], e)] /\ UNCHANGED <<exists, rpc, answer>>
  BY DEF IInv, Publish, Step, rows, requests
<1>2. \A o \in Runs : o # r => log'[o] = log[o] /\ task'[o] = task[o]
  BY <1>1 DEF TypeOK
<1>3. /\ log[r] \in Seq(Events) /\ log'[r] = Append(log[r], e) /\ Len(log[r]) \in Nat
      /\ DOMAIN log[r] = 1 .. Len(log[r]) /\ DOMAIN log'[r] = 1 .. Len(log[r]) + 1
      /\ Len(log'[r]) = Len(log[r]) + 1 /\ task'[r] = to
  BY <1>1 DEF TypeOK
<1>4. /\ \A i \in DOMAIN log[r] : log'[r][i] = log[r][i]
      /\ log'[r][Len(log[r]) + 1] = e
  BY <1>3
<1>5. LogFits(r)' /\ LogShape'
  <2>1. LogShape /\ LogFits(r)
    BY DEF LogInv
  <2>2. CASE e = "started" /\ from \in FreshPcs /\ to \in BegunPcs
    <3>0. log[r] = <<>> /\ log'[r] = Append(log[r], "started")
      BY <1>1, <1>3, <2>1, <2>2 DEF LogFits
    <3>1. log[r] = <<>> /\ log'[r] = <<"started">>
      BY <3>0
    <3>2. ~Ended(r)'
      BY <3>1 DEF Ended
    <3>3. to \notin FreshPcs
      BY <2>2 DEF BegunPcs, FreshPcs
    <3> QED BY <1>2, <1>3, <2>1, <2>2, <3>1, <3>2, <3>3 DEF LogFits, LogShape
  <2>3. CASE e = "completed" /\ from \in BegunPcs /\ to \in OpenPcs
    <3>0. log[r] = <<"started">> /\ log'[r] = Append(log[r], "completed")
      BY <1>1, <1>3, <2>1, <2>3 DEF LogFits
    <3>1. /\ Len(log'[r]) = 2 /\ DOMAIN log'[r] = 1 .. 2 /\ log'[r][1] = "started"
          /\ log'[r][2] = "completed"
      BY <1>3, <1>4, <3>0
    <3>2. ~Ended(r)'
      BY <3>1 DEF Ended
    <3>3. to \notin FreshPcs \cup BegunPcs
      BY <2>3 DEF BegunPcs, FreshPcs, OpenPcs, ExceptPcs
    <3> QED BY <1>2, <1>3, <2>1, <2>3, <3>1, <3>2, <3>3 DEF LogFits, LogShape
  <2>4. CASE e \in {"failed", "cancelled"} /\ from \in OpenPcs /\ to \in FreePcs
    <3>1. \A i \in DOMAIN log[r] : log[r][i] \notin {"failed", "cancelled"}
      BY <1>1, <2>1, <2>4 DEF LogFits, Ended, OpenPcs, FreePcs, ExceptPcs
    <3>2. to \notin FreshPcs \cup BegunPcs
      BY <2>4 DEF BegunPcs, FreshPcs, FreePcs
    <3>3. LogFits(r)'
      BY <1>3, <2>4, <3>2 DEF LogFits
    <3>4. ASSUME NEW i \in DOMAIN log'[r]
          PROVE  /\ log'[r][i] = "started" => i = 1
                 /\ log'[r][i] = "completed" => i = 2 /\ log'[r][1] = "started"
                 /\ log'[r][i] \in {"failed", "cancelled"} => i = Len(log'[r])
      <4>1. CASE i = Len(log[r]) + 1
        BY <1>3, <1>4, <2>4, <4>1
      <4>2. CASE i \in DOMAIN log[r]
        <5>1. /\ log[r][i] = "started" => i = 1
              /\ log[r][i] = "completed" => i = 2 /\ log[r][1] = "started"
          BY <2>1, <4>2 DEF LogShape
        <5>2. 1 \in DOMAIN log[r]
          BY <1>3, <4>2
        <5> QED BY <1>4, <3>1, <4>2, <5>1, <5>2
      <4> QED BY <1>3, <4>1, <4>2
    <3> QED BY <1>2, <2>1, <3>3, <3>4 DEF LogShape
  <2> QED BY <2>2, <2>3, <2>4
<1>6. \A o \in Runs : o # r => LogFits(o)'
  BY <1>1, <1>2 DEF LogInv, LogFits, Ended
<1>7. \A q \in Requesters : rpc'[q] = "spawn" => log'[answer'[q]] = <<>>
  <2>1. from # "none"
    BY DEF TryPcs, ExceptPcs
  <2> QED BY <1>1, <1>2, <2>1 DEF LogInv, IInv, InvSpawn
<1> QED BY <1>1, <1>5, <1>6, <1>7 DEF LogInv

\* Updates and publications.
LEMMA UpdateLog ==
  ASSUME LogInv, TypeOK, NEW r \in Runs, NEW from \in TryPcs \cup ExceptPcs, NEW to \in LivePcs,
         NEW s \in Statuses, Update(r, from, s, to),
         \/ from \in FreshPcs /\ to \in FreshPcs
         \/ from \in BegunPcs /\ to \in BegunPcs
         \/ from \in OpenPcs /\ to \in OpenPcs
  PROVE  LogInv'
<1> DEFINE pc == IF exists THEN to ELSE Handler(from)
<1>1. /\ task[r] = from /\ task' = [task EXCEPT ![r] = pc] /\ UNCHANGED <<log, exists, rpc, answer>>
  BY DEF Update, Step, requests
<1>2. /\ pc \in TaskPcs
      /\ pc \in FreshPcs => from \in FreshPcs
      /\ pc \in BegunPcs => from \in BegunPcs
      /\ from \notin FreePcs
  BY DEF Handler, TaskPcs, LivePcs, TryPcs, ExceptPcs, FreshPcs, BegunPcs, OpenPcs, FreePcs
<1> HIDE DEF pc
<1> QED BY <1>1, <1>2, MoveLog

LEMMA PublishLog ==
  ASSUME LogInv, IInv, NEW r \in Runs, NEW from \in TryPcs \cup ExceptPcs, NEW to \in TaskPcs,
         NEW e \in Events, Publish(r, from, e, to),
         \/ e = "started" /\ from \in FreshPcs /\ to \in BegunPcs
         \/ e = "completed" /\ from \in BegunPcs /\ to \in OpenPcs
         \/ e \in {"failed", "cancelled"} /\ from \in OpenPcs /\ to \in FreePcs
  PROVE  LogInv'
<1>1. CASE exists
  BY <1>1, AppendLog
<1>2. CASE ~exists
  <2>1. /\ task[r] = from /\ task' = [task EXCEPT ![r] = Handler(from)]
        /\ UNCHANGED <<log, exists, rpc, answer>>
    BY <1>2 DEF Publish, Step, rows, requests
  <2>2. Handler(from) \in TaskPcs \ (FreshPcs \cup BegunPcs) /\ from \notin FreePcs
    BY DEF Handler, TaskPcs, LivePcs, TryPcs, ExceptPcs, FreshPcs, BegunPcs, FreePcs
  <2> QED BY <2>1, <2>2, MoveLog DEF IInv
<1> QED BY <1>1, <1>2

LEMMA DriveLog == ASSUME LogInv, IInv, NEW r \in Runs, Drive(r) PROVE LogInv'
<1> USE DEF FreshPcs, BegunPcs, OpenPcs, FreePcs, TaskPcs, LivePcs, TryPcs, ExceptPcs, Statuses, Active, Terminal
<1>1. TypeOK
  BY DEF IInv
<1>2. CASE Start(r) \/ HandlerDone(r) \/ BroadcastCompleted(r) \/ Flush(r)
  BY <1>1, <1>2, MoveLog DEF Start, HandlerDone, BroadcastCompleted, Flush, Step, rows, requests
<1>3. CASE HandlerRaise(r) \/ Timeout(r)
  BY <1>1, <1>3, UnwindLog DEF HandlerRaise, Timeout, Live
<1>4. CASE UpdateRunning(r)
  BY <1>1, <1>4, UpdateLog DEF UpdateRunning
<1>5. CASE UpdateCompleted(r)
  BY <1>1, <1>5, UpdateLog DEF UpdateCompleted
<1>6. CASE UpdateCancelled(r)
  BY <1>1, <1>6, UpdateLog DEF UpdateCancelled
<1>7. CASE UpdateFailed(r)
  BY <1>1, <1>7, UpdateLog DEF UpdateFailed
<1>8. CASE PublishStarted(r)
  BY <1>8, PublishLog DEF PublishStarted, Events
<1>9. CASE PublishCompleted(r)
  BY <1>9, PublishLog DEF PublishCompleted, Events
<1>10. CASE PublishCancelled(r)
  BY <1>10, PublishLog DEF PublishCancelled, Events
<1>11. CASE PublishFailed(r)
  BY <1>11, PublishLog DEF PublishFailed, Events
<1> QED BY <1>2, <1>3, <1>4, <1>5, <1>6, <1>7, <1>8, <1>9, <1>10, <1>11 DEF Drive

LEMMA ExecuteLog == ASSUME LogInv, IInv, NEW q \in Requesters, Execute(q) PROVE LogInv'
<1>1. TypeOK
  BY DEF IInv
<1>2. CASE UNCHANGED <<log, exists, task>> /\ \A p \in Requesters : rpc'[p] = "spawn" =>
             rpc[p] = "spawn" /\ answer'[p] = answer[p]
  BY <1>2, LogFrame DEF LogInv, LogFits, Ended
<1>3. ASSUME NEW found \in SUBSET Runs, NEW pc \in RequestPcs \ {"spawn"}, Lookup(q, found, pc)
      PROVE  LogInv'
  <2>1. rpc'[q] # "spawn" /\ \A p \in Requesters : p # q => rpc'[p] = rpc[p] /\ answer'[p] = answer[p]
    BY <1>1, <1>3 DEF Lookup, Goto, TypeOK
  <2> QED BY <1>2, <1>3, <2>1 DEF Lookup, rows, drivers
<1>4. WithKey(ask[q].key) \in SUBSET Runs /\ ActiveOf(ask[q].assistant) \in SUBSET Runs
  BY DEF WithKey, ActiveOf
<1>5. CASE FindByKey(q) \/ FindActive(q) \/ RaceActive(q) \/ RaceKey(q)
  BY <1>3, <1>4, <1>5 DEF FindByKey, FindActive, RaceActive, RaceKey, RequestPcs, DbPcs
<1>6. CASE CreateRun(q)
  <2>1. CASE (Goto(q, "raised") \/ Goto(q, "raceActive")) /\ UNCHANGED rows
    BY <1>1, <1>2, <1>6, <2>1 DEF CreateRun, Goto, rows, drivers, TypeOK
  <2>2. CASE \E r \in Runs : Insert(q, r)
    <3>1. PICK r \in Runs : Insert(q, r)
      BY <2>2
    <3>2. log[r] = <<>> /\ answer' = [answer EXCEPT ![q] = r] /\ rpc' = [rpc EXCEPT ![q] = "spawn"]
      BY <3>1 DEF Insert, IInv, InvRows
    <3>3. UNCHANGED <<log, exists, task>>
      BY <1>6, <3>1 DEF CreateRun, Insert, drivers
    <3>4. \A p \in Requesters : rpc'[p] = "spawn" => log[answer'[p]] = <<>>
      BY <1>1, <3>2 DEF LogInv, TypeOK
    <3> QED BY <3>3, <3>4 DEF LogInv, LogFits, Ended, LogShape
  <2> QED BY <1>6, <2>1, <2>2 DEF CreateRun
<1>7. CASE Spawn(q)
  <2>1. PICK d \in Runs : d = answer[q]
    BY <1>7 DEF Spawn, IInv, InvSpawn
  <2>2. /\ log[d] = <<>> /\ task' = [task EXCEPT ![d] = "ready"] /\ UNCHANGED <<log, exists>>
        /\ \A p \in Requesters : rpc'[p] = "spawn" => rpc[p] = "spawn" /\ answer'[p] = answer[p]
    BY <1>1, <1>7, <2>1 DEF Spawn, Goto, rows, LogInv, TypeOK
  <2>3. \A r \in Runs : LogFits(r)'
    <3>1. ~Ended(d)'
      BY <2>2 DEF Ended
    <3>2. LogFits(d)'
      BY <1>1, <2>2, <3>1 DEF LogFits, BegunPcs, TypeOK
    <3>3. \A r \in Runs : r # d => LogFits(r)'
      BY <1>1, <2>2 DEF LogInv, LogFits, Ended, TypeOK
    <3> QED BY <3>2, <3>3
  <2> QED BY <2>2, <2>3, LogFrame
<1> QED BY <1>5, <1>6, <1>7 DEF Execute

LEMMA NextLog == IInv /\ LogInv /\ [Next]_vars => LogInv'
<1> SUFFICES ASSUME IInv, LogInv, [Next]_vars PROVE LogInv'
  OBVIOUS
<1>1. TypeOK
  BY DEF IInv
<1>2. CASE UNCHANGED <<log, exists, task>> /\ \A p \in Requesters : rpc'[p] = "spawn" =>
             rpc[p] = "spawn" /\ answer'[p] = answer[p]
  BY <1>2, LogFrame DEF LogInv, LogFits, Ended
<1>3. ASSUME NEW q \in Requesters, NEW a \in Assistants, NEW k \in Keys \cup {NoKey},
             NEW v \in Vias, Enter(q, a, k, v)
      PROVE  LogInv'
  <2>1. rpc'[q] # "spawn" /\ \A p \in Requesters : p # q => rpc'[p] = rpc[p] /\ answer'[p] = answer[p]
    BY <1>1, <1>3 DEF Enter, TypeOK
  <2> QED BY <1>2, <1>3, <2>1 DEF Enter, rows, drivers
<1>4. ASSUME NEW c \in Calls, NEW a \in Assistants, NEW k \in Keys \cup {NoKey},
             NEW v \in Vias, Call(c, a, k, v)
      PROVE  LogInv'
  BY <1>3, <1>4 DEF Call, Requesters
<1>5. ASSUME NEW r \in Runs, NEW a \in Assistants, NEW v \in Vias, Nested(r, a, v)
      PROVE  LogInv'
  BY <1>3, <1>5 DEF Nested, Requesters
<1>6. ASSUME NEW q \in Requesters, RequestFault(q) PROVE LogInv'
  BY <1>1, <1>2, <1>6 DEF RequestFault, Goto, rows, drivers, TypeOK
<1>7. ASSUME NEW r \in Runs, Cancel(r) PROVE LogInv'
  <2> DEFINE to == Interrupted(task[r])
  <2>1. /\ to \in {"setFailed", "setCancelled", "flush", "done"} /\ to # "setFailed"
        /\ to = "setCancelled" => task[r] \notin FreePcs
        /\ "flush" \notin OpenPcs /\ "done" \notin OpenPcs
    BY DEF Interrupted, FreePcs, OpenPcs, TryPcs, ExceptPcs
  <2>2. Live(r) /\ Unwind(r, to)
    BY <1>7 DEF Cancel
  <2> HIDE DEF to
  <2> QED BY <1>1, <2>1, <2>2, UnwindLog
<1>8. ASSUME NEW r \in Runs, DriverFault(r) PROVE LogInv'
  <2> DEFINE to == IF task[r] = "flush" THEN "done" ELSE Handler(task[r])
  <2>1. /\ to \in {"setFailed", "setCancelled", "flush", "done"} /\ to # "setCancelled"
        /\ to = "setFailed" => task[r] \notin FreePcs
        /\ "flush" \notin OpenPcs /\ "done" \notin OpenPcs
    BY DEF Handler, FreePcs, OpenPcs, TryPcs, ExceptPcs
  <2>2. Live(r) /\ Unwind(r, to)
    BY <1>8 DEF DriverFault
  <2> HIDE DEF to
  <2> QED BY <1>1, <2>1, <2>2, UnwindLog
<1>9. CASE Crash
  <2>1. /\ UNCHANGED <<log, exists>> /\ \A p \in Requesters : rpc'[p] # "spawn"
        /\ \A r \in Runs : task'[r] = task[r] \/ task'[r] = "none"
    BY <1>1, <1>9 DEF Crash, InExecute, rows, TypeOK
  <2>2. \A r \in Runs : LogFits(r)'
    BY <2>1 DEF LogInv, LogFits, Ended, FreshPcs, BegunPcs, FreePcs
  <2> QED BY <2>1, <2>2, LogFrame
<1>10. CASE DeleteThread
  <2>1. ~exists' /\ \A r \in Runs : log'[r] = <<>>
    BY <1>10 DEF DeleteThread
  <2>2. \A q \in Requesters : rpc'[q] = "spawn" => answer'[q] \in Runs
    BY <1>10 DEF DeleteThread, requests, IInv, InvSpawn
  <2>3. \A r \in Runs : ~Ended(r)'
    BY <2>1 DEF Ended
  <2>4. LogShape'
    BY <2>1 DEF LogShape
  <2> QED BY <2>1, <2>2, <2>3, <2>4 DEF LogInv, LogFits
<1>11. CASE UNCHANGED vars
  BY <1>2, <1>11 DEF vars, rows, requests, drivers
<1> QED BY <1>4, <1>5, <1>6, <1>7, <1>8, <1>9, <1>10, <1>11, ExecuteLog, DriveLog DEF Next

\* The lifecycle events of a run are run.started, then run.completed, then
\* run.failed or run.cancelled, each at most once and none after the last,
\* wherever in _drive the driver is cut off.
THEOREM LogShaped == Spec => []LogShape
<1>1. Init => LogInv
  BY DEF Init, LogInv, LogShape, LogFits, Ended, FreshPcs, BegunPcs
<1>2. LogInv => LogShape
  BY DEF LogInv
<1> QED BY <1>1, <1>2, NextLog, Invariance, PTL DEF Spec

-----------------------------------------------------------------------------
(* What a requester is given.                                              *)

Answered(q) == rpc[q] \in {"spawn", "returned"}
Serves(q) == /\ answer[q] \in Runs /\ status[answer[q]] # "absent"
             /\ \/ assistantOf[answer[q]] = ask[q].assistant
                \/ keyOf[answer[q]] = ask[q].key /\ ask[q].key # NoKey

AnswerInv == \A q \in Requesters : Answered(q) => Serves(q)

\* The columns of a row never change, and a row that was there stays known.
RowsKept == \A r \in Runs : status[r] # "absent" =>
              status'[r] # "absent" /\ assistantOf'[r] = assistantOf[r] /\ keyOf'[r] = keyOf[r]

SameAnswer(q) == Answered(q) /\ ask'[q] = ask[q] /\ answer'[q] = answer[q]

LEMMA AnswerFrame ==
  ASSUME AnswerInv, RowsKept, \A q \in Requesters : Answered(q)' => SameAnswer(q) \/ Serves(q)'
  PROVE  AnswerInv'
BY DEF AnswerInv, RowsKept, Serves, SameAnswer

\* A lookup finds rows that serve.
LEMMA LookupAnswers ==
  ASSUME AnswerInv, TypeOK, NEW q \in Requesters, NEW found \in SUBSET Runs,
         NEW pc \in RequestPcs \ {"spawn", "returned"}, Lookup(q, found, pc),
         \A r \in found : /\ status[r] # "absent"
                         /\ \/ assistantOf[r] = ask[q].assistant
                            \/ keyOf[r] = ask[q].key /\ ask[q].key # NoKey
  PROVE  AnswerInv'
<1>1. RowsKept /\ UNCHANGED <<status, assistantOf, keyOf, ask>>
  BY DEF Lookup, Goto, rows, RowsKept
<1>2. CASE Goto(q, pc)
  BY <1>1, <1>2, AnswerFrame DEF Goto, Answered, SameAnswer, TypeOK
<1>3. CASE \E r \in found : /\ rpc' = [rpc EXCEPT ![q] = "returned"]
                            /\ answer' = [answer EXCEPT ![q] = r]
                            /\ UNCHANGED ask
  <2>1. PICK r \in found : /\ rpc' = [rpc EXCEPT ![q] = "returned"]
                           /\ answer' = [answer EXCEPT ![q] = r]
    BY <1>3
  <2>2. Serves(q)'
    BY <1>1, <2>1 DEF Serves, TypeOK
  <2>3. \A p \in Requesters : p # q /\ Answered(p)' => SameAnswer(p)
    BY <1>1, <2>1 DEF Answered, SameAnswer, TypeOK
  <2> QED BY <1>1, <2>2, <2>3, AnswerFrame
<1> QED BY <1>2, <1>3 DEF Lookup

LEMMA ExecuteAnswers == ASSUME AnswerInv, IInv, NEW q \in Requesters, Execute(q) PROVE AnswerInv'
<1> USE DEF RequestPcs, DbPcs
<1>1. TypeOK
  BY DEF IInv
<1>2. /\ WithKey(ask[q].key) \in SUBSET Runs /\ ActiveOf(ask[q].assistant) \in SUBSET Runs
      /\ \A r \in WithKey(ask[q].key) : status[r] # "absent" /\ keyOf[r] = ask[q].key /\ ask[q].key # NoKey
      /\ \A r \in ActiveOf(ask[q].assistant) : status[r] # "absent" /\ assistantOf[r] = ask[q].assistant
  BY DEF WithKey, ActiveOf, Row, Active, Terminal
<1>3. CASE FindByKey(q)
  BY <1>1, <1>2, <1>3, LookupAnswers DEF FindByKey
<1>4. CASE FindActive(q)
  BY <1>1, <1>2, <1>4, LookupAnswers DEF FindActive
<1>5. CASE RaceActive(q)
  <2>1. (IF ask[q].key = NoKey THEN "raised" ELSE "raceKey") \in RequestPcs \ {"spawn", "returned"}
    OBVIOUS
  <2> QED BY <1>1, <1>2, <1>5, <2>1, LookupAnswers DEF RaceActive
<1>6. CASE RaceKey(q)
  BY <1>1, <1>2, <1>6, LookupAnswers DEF RaceKey
<1>7. CASE CreateRun(q)
  <2>1. CASE (Goto(q, "raised") \/ Goto(q, "raceActive")) /\ UNCHANGED rows
    <3>1. RowsKept
      BY <2>1 DEF rows, RowsKept
    <3> QED BY <1>1, <2>1, <3>1, AnswerFrame DEF Goto, Answered, SameAnswer, TypeOK
  <2>2. CASE \E r \in Runs : Insert(q, r)
    <3>1. PICK r \in Runs : Insert(q, r)
      BY <2>2
    <3>2. RowsKept
      BY <1>1, <3>1 DEF Insert, RowsKept, TypeOK
    <3>3. Serves(q)'
      BY <1>1, <3>1 DEF Insert, Serves, TypeOK
    <3>4. \A p \in Requesters : p # q /\ Answered(p)' => SameAnswer(p)
      BY <1>1, <3>1 DEF Insert, Answered, SameAnswer, TypeOK
    <3> QED BY <3>2, <3>3, <3>4, AnswerFrame
  <2> QED BY <1>7, <2>1, <2>2 DEF CreateRun
<1>8. CASE Spawn(q)
  <2>1. RowsKept
    BY <1>8 DEF Spawn, rows, RowsKept
  <2> QED BY <1>1, <1>8, <2>1, AnswerFrame DEF Spawn, Goto, Answered, SameAnswer, TypeOK
<1> QED BY <1>3, <1>4, <1>5, <1>6, <1>7, <1>8 DEF Execute

\* A driver drops what its handler was waiting for, or gives it nothing.
LEMMA UnwindAnswers ==
  ASSUME AnswerInv, TypeOK, NEW r \in Runs, NEW to, Unwind(r, to)
  PROVE  AnswerInv'
<1>1. RowsKept
  BY DEF Unwind, rows, RowsKept
<1> QED BY <1>1, AnswerFrame DEF Unwind, Answered, SameAnswer, TypeOK, Requesters

LEMMA UpdateAnswers ==
  ASSUME AnswerInv, TypeOK, NEW r \in Runs, NEW from, NEW to, NEW s, s # "absent", Update(r, from, s, to)
  PROVE  AnswerInv'
<1>1. RowsKept
  BY DEF Update, RowsKept, TypeOK
<1> QED BY <1>1, AnswerFrame DEF Update, requests, Answered, SameAnswer

LEMMA DriveAnswers == ASSUME AnswerInv, IInv, NEW r \in Runs, Drive(r) PROVE AnswerInv'
<1>1. TypeOK
  BY DEF IInv
<1>2. CASE UNCHANGED <<rows, requests>>
  BY <1>2, AnswerFrame DEF rows, requests, RowsKept, Answered, SameAnswer
<1>3. CASE HandlerRaise(r) \/ Timeout(r)
  BY <1>1, <1>3, UnwindAnswers DEF HandlerRaise, Timeout
<1>4. CASE UpdateRunning(r) \/ UpdateCompleted(r) \/ UpdateCancelled(r) \/ UpdateFailed(r)
  BY <1>1, <1>4, UpdateAnswers DEF UpdateRunning, UpdateCompleted, UpdateCancelled, UpdateFailed
<1>5. CASE PublishStarted(r) \/ PublishCompleted(r) \/ PublishCancelled(r) \/ PublishFailed(r)
  BY <1>2, <1>5 DEF PublishStarted, PublishCompleted, PublishCancelled, PublishFailed, Publish
<1>6. CASE Start(r) \/ HandlerDone(r) \/ BroadcastCompleted(r) \/ Flush(r)
  BY <1>2, <1>6 DEF Start, HandlerDone, BroadcastCompleted, Flush
<1> QED BY <1>3, <1>4, <1>5, <1>6 DEF Drive

LEMMA NextAnswers == IInv /\ AnswerInv /\ [Next]_vars => AnswerInv'
<1> SUFFICES ASSUME IInv, AnswerInv, [Next]_vars PROVE AnswerInv'
  OBVIOUS
<1>1. TypeOK
  BY DEF IInv
<1>2. ASSUME NEW q \in Requesters, NEW a \in Assistants, NEW k \in Keys \cup {NoKey},
             NEW v \in Vias, Enter(q, a, k, v)
      PROVE  AnswerInv'
  <2>1. RowsKept
    BY <1>2 DEF Enter, rows, RowsKept
  <2> QED BY <1>1, <1>2, <2>1, AnswerFrame DEF Enter, Answered, SameAnswer, TypeOK
<1>3. ASSUME NEW c \in Calls, NEW a \in Assistants, NEW k \in Keys \cup {NoKey},
             NEW v \in Vias, Call(c, a, k, v)
      PROVE  AnswerInv'
  BY <1>2, <1>3 DEF Call, Requesters
<1>4. ASSUME NEW r \in Runs, NEW a \in Assistants, NEW v \in Vias, Nested(r, a, v)
      PROVE  AnswerInv'
  BY <1>2, <1>4 DEF Nested, Requesters
<1>5. ASSUME NEW q \in Requesters, RequestFault(q) PROVE AnswerInv'
  <2>1. RowsKept
    BY <1>5 DEF RequestFault, rows, RowsKept
  <2> QED BY <1>1, <1>5, <2>1, AnswerFrame DEF RequestFault, Goto, Answered, SameAnswer, TypeOK
<1>6. ASSUME NEW r \in Runs, Cancel(r) \/ DriverFault(r) PROVE AnswerInv'
  BY <1>1, <1>6, UnwindAnswers DEF Cancel, DriverFault
<1>7. CASE Crash
  <2>1. RowsKept
    BY <1>7 DEF Crash, rows, RowsKept
  <2> QED BY <1>1, <1>7, <2>1, AnswerFrame DEF Crash, Answered, SameAnswer, TypeOK
<1>8. CASE DeleteThread
  <2>1. RowsKept
    BY <1>1, <1>8 DEF DeleteThread, RowsKept, TypeOK
  <2> QED BY <1>8, <2>1, AnswerFrame DEF DeleteThread, requests, Answered, SameAnswer
<1>9. CASE UNCHANGED vars
  BY <1>9, AnswerFrame DEF vars, rows, requests, RowsKept, Answered, SameAnswer
<1> QED BY <1>3, <1>4, <1>5, <1>6, <1>7, <1>8, <1>9, ExecuteAnswers, DriveAnswers DEF Next

\* A request without a key that returns was given a run of the assistant it
\* asked for, whoever won the race and whatever became of it (executor.py).
THEOREM AnswersServe == Spec => []AnswerServes
<1>1. Init => AnswerInv
  BY DEF Init, AnswerInv, Answered
<1>2. AnswerInv => AnswerServes
  BY DEF AnswerInv, Answered, Serves, AnswerServes
<1> QED BY <1>1, <1>2, NextAnswers, Invariance, PTL DEF Spec

-----------------------------------------------------------------------------
(* The executor implements RunRecord.                                      *)

\* What the row of a run says while its driver is somewhere.
RowFits(r) == /\ task[r] \in {"ready", "setRunning"} => status[r] = "pending"
              /\ task[r] \in {"pubStarted", "handling", "setCompleted"} => status[r] = "running"
              /\ task[r] \in {"pubCompleted", "bcastCompleted"} => status[r] = "completed"
              /\ task[r] = "pubCancelled" => status[r] = "cancelled"
              /\ task[r] = "pubFailed" => status[r] = "failed"
              /\ task[r] \in {"setCancelled", "setFailed"} => status[r] \in Active \cup {"completed"}

RowInv == \A r \in Runs : exists => RowFits(r)

\* A driver that goes on without its row must find the same row there.
LEMMA MoveRow ==
  ASSUME RowInv, IInv, NEW r \in Runs, NEW to \in TaskPcs, task' = [task EXCEPT ![r] = to],
         UNCHANGED <<status, exists>>, exists => RowFits(r)'
  PROVE  RowInv'
BY DEF RowInv, RowFits, IInv, TypeOK

\* Whoever is thrown out of the try has a row that is active or completed.
LEMMA UnwindRow ==
  ASSUME RowInv, IInv, NEW r \in Runs, NEW to \in {"setFailed", "setCancelled", "flush", "done"},
         to \in {"setFailed", "setCancelled"} => task[r] \in TryPcs,
         task' = [task EXCEPT ![r] = to], UNCHANGED <<status, exists>>
  PROVE  RowInv'
<1>1. exists => RowFits(r)'
  BY DEF RowInv, RowFits, IInv, TypeOK, TryPcs, Active
<1>2. to \in TaskPcs
  BY DEF TaskPcs, LivePcs, ExceptPcs
<1> QED BY <1>1, <1>2, MoveRow

\* A driver writes its row: the row fits where it goes.
LEMMA UpdateRowFits ==
  ASSUME RowInv, IInv, NEW r \in Runs, NEW from \in TryPcs \cup ExceptPcs, NEW to \in LivePcs, NEW s,
         Update(r, from, s, to),
         \/ s = "running" /\ to = "pubStarted"
         \/ s = "completed" /\ to = "pubCompleted"
         \/ s = "cancelled" /\ to = "pubCancelled"
         \/ s = "failed" /\ to = "pubFailed"
  PROVE  RowInv'
<1>1. CASE exists
  BY <1>1 DEF Update, Step, RowInv, RowFits, IInv, TypeOK
<1>2. CASE ~exists
  BY <1>2 DEF Update, Step, RowInv
<1> QED BY <1>1, <1>2

\* Every step keeps rows and drivers in accord.
LEMMA NextRow == IInv /\ RowInv /\ [Next]_vars => RowInv'
<1> SUFFICES ASSUME IInv, RowInv, [Next]_vars PROVE RowInv'
  OBVIOUS
<1> USE DEF LivePcs, TryPcs, ExceptPcs, TaskPcs
<1>1. CASE UNCHANGED <<status, exists, task>>
  BY <1>1 DEF RowInv, RowFits
<1>2. ASSUME NEW q \in Requesters, Execute(q) PROVE RowInv'
  <2>1. CASE Spawn(q)
    <3>1. PICK r \in Runs : r = answer[q]
      BY <2>1 DEF Spawn, IInv, InvSpawn
    <3>2. /\ status[r] \in {"pending", "deleted"} /\ task' = [task EXCEPT ![r] = "ready"]
          /\ UNCHANGED <<status, exists>>
      BY <2>1, <3>1 DEF Spawn, rows, IInv, InvSpawn
    <3>3. exists => RowFits(r)'
      BY <3>2 DEF RowFits, IInv, TypeOK, InvRows
    <3> QED BY <3>2, <3>3, MoveRow
  <2>2. CASE CreateRun(q)
    <3>1. CASE \E r \in Runs : Insert(q, r)
      <4>1. PICK r \in Runs : Insert(q, r)
        BY <3>1
      <4>2. task[r] = "none" /\ UNCHANGED <<exists, task>> /\ \A o \in Runs : o # r => status'[o] = status[o]
        BY <2>2, <4>1 DEF CreateRun, Insert, drivers, IInv, InvRows, TypeOK
      <4> QED BY <4>2 DEF RowInv, RowFits
    <3>2. CASE UNCHANGED rows
      BY <1>1, <2>2, <3>2 DEF CreateRun, drivers, rows
    <3> QED BY <2>2, <3>1, <3>2 DEF CreateRun
  <2>3. CASE ~Spawn(q) /\ ~CreateRun(q)
    BY <1>1, <1>2, <2>3 DEF Execute, FindByKey, FindActive, RaceActive, RaceKey, Lookup, drivers, rows
  <2> QED BY <2>1, <2>2, <2>3
<1>3. ASSUME NEW r \in Runs, Drive(r) PROVE RowInv'
  <2>1. CASE Start(r) \/ BroadcastCompleted(r) \/ Flush(r) \/ HandlerDone(r)
    <3>1. PICK to \in {"setRunning", "flush", "done", "setCompleted"} :
            /\ task' = [task EXCEPT ![r] = to] /\ UNCHANGED <<status, exists>>
            /\ to = "setRunning" => task[r] = "ready"
            /\ to = "setCompleted" => task[r] = "handling"
      BY <2>1 DEF Start, BroadcastCompleted, Flush, HandlerDone, Step, rows
    <3>2. exists => RowFits(r)'
      BY <3>1 DEF RowInv, RowFits, IInv, TypeOK
    <3> QED BY <3>1, <3>2, MoveRow
  <2>2. CASE HandlerRaise(r) \/ Timeout(r)
    BY <2>2, UnwindRow DEF HandlerRaise, Timeout, Unwind, rows
  <2>3. CASE UpdateRunning(r)
    BY <2>3, UpdateRowFits DEF UpdateRunning
  <2>4. CASE UpdateCompleted(r)
    BY <2>4, UpdateRowFits DEF UpdateCompleted
  <2>5. CASE UpdateCancelled(r)
    BY <2>5, UpdateRowFits DEF UpdateCancelled
  <2>6. CASE UpdateFailed(r)
    BY <2>6, UpdateRowFits DEF UpdateFailed
  <2>7. CASE PublishStarted(r) \/ PublishCompleted(r) \/ PublishCancelled(r) \/ PublishFailed(r)
    <3>1. PICK to \in {"handling", "bcastCompleted", "flush", "setFailed"} :
            /\ task' = [task EXCEPT ![r] = to] /\ UNCHANGED <<status, exists>>
            /\ to = "handling" => task[r] = "pubStarted"
            /\ to = "bcastCompleted" => task[r] = "pubCompleted"
            /\ to = "setFailed" => ~exists
      BY <2>7 DEF PublishStarted, PublishCompleted, PublishCancelled, PublishFailed,
                  Publish, Step, Handler, rows
    <3>2. exists => RowFits(r)'
      BY <3>1 DEF RowInv, RowFits, IInv, TypeOK
    <3> QED BY <3>1, <3>2, MoveRow
  <2> QED BY <1>3, <2>1, <2>2, <2>3, <2>4, <2>5, <2>6, <2>7 DEF Drive
<1>4. ASSUME NEW r \in Runs, Cancel(r) PROVE RowInv'
  <2>1. Interrupted(task[r]) \in {"setCancelled", "flush", "done"}
        /\ (Interrupted(task[r]) = "setCancelled" => task[r] \in TryPcs)
    BY DEF Interrupted
  <2> QED BY <1>4, <2>1, UnwindRow DEF Cancel, Unwind, rows
<1>5. ASSUME NEW r \in Runs, DriverFault(r) PROVE RowInv'
  <2> DEFINE to == IF task[r] = "flush" THEN "done" ELSE Handler(task[r])
  <2>1. to \in {"setFailed", "flush", "done"} /\ (to = "setFailed" => task[r] \in TryPcs)
    BY DEF Handler
  <2>2. task' = [task EXCEPT ![r] = to] /\ UNCHANGED <<status, exists>>
    BY <1>5 DEF DriverFault, Unwind, rows
  <2> HIDE DEF to
  <2> QED BY <2>1, <2>2, UnwindRow
<1>6. CASE Crash
  <2>1. \A r \in Runs : task'[r] = task[r] \/ task'[r] = "none"
    BY <1>6 DEF Crash
  <2> QED BY <1>6, <2>1 DEF Crash, rows, RowInv, RowFits
<1>7. CASE DeleteThread
  BY <1>7 DEF DeleteThread, RowInv
<1> QED BY <1>1, <1>2, <1>3, <1>4, <1>5, <1>6, <1>7
        DEF Next, Call, Nested, Enter, RequestFault, drivers, rows, vars

\* A row written by a driver is a step of the record.
LEMMA UpdateRecord ==
  ASSUME IInv, LogInv, RowInv, NEW r \in Runs, Drive(r),
         UpdateRunning(r) \/ UpdateCompleted(r) \/ UpdateCancelled(r) \/ UpdateFailed(r)
  PROVE  [Record!RecordNext]_(Record!recordVars)
<1> USE DEF Record!RecordNext, Record!Become, Record!Ends, Record!Unfinished
<1>1. CASE ~exists
  BY <1>1 DEF UpdateRunning, UpdateCompleted, UpdateCancelled, UpdateFailed, Update, Record!recordVars
<1>2. CASE exists /\ UpdateRunning(r)
  <2>1. Record!Begin(r)
    BY <1>2 DEF UpdateRunning, Update, Step, RowInv, RowFits, Record!Begin
  <2> QED BY <2>1
<1>3. CASE exists /\ UpdateCompleted(r)
  <2>1. log[r] = <<"started">>
    BY <1>3 DEF UpdateCompleted, Update, Step, LogInv, LogFits, BegunPcs
  <2>2. Record!Finish(r, "completed")
    BY <1>3, <2>1 DEF UpdateCompleted, Update, Step, RowInv, RowFits, Record!Finish
  <2> QED BY <2>2
<1>4. ASSUME NEW s \in {"cancelled", "failed"}, NEW from \in {"setCancelled", "setFailed"}, NEW to,
             exists, Update(r, from, s, to)
      PROVE  Record!RecordNext
  <2>1. status[r] \in Active \cup {"completed"} /\ status' = [status EXCEPT ![r] = s] /\ UNCHANGED <<log, exists>>
    BY <1>4 DEF Update, Step, RowInv, RowFits
  <2>2. Record!Finish(r, s) \/ Record!Revise(r, s)
    BY <2>1 DEF Active, Record!Finish, Record!Revise
  <2> QED BY <2>2
<1> QED BY <1>1, <1>2, <1>3, <1>4 DEF UpdateCancelled, UpdateFailed

\* An event appended by a driver is a step of the record.
LEMMA PublishRecord ==
  ASSUME IInv, LogInv, RowInv, NEW r \in Runs,
         PublishStarted(r) \/ PublishCompleted(r) \/ PublishCancelled(r) \/ PublishFailed(r)
  PROVE  [Record!RecordNext]_(Record!recordVars)
<1> USE DEF Record!RecordNext, Record!Tell
<1>1. CASE ~exists
  BY <1>1 DEF PublishStarted, PublishCompleted, PublishCancelled, PublishFailed, Publish, rows, Record!recordVars
<1>2. CASE exists /\ PublishStarted(r)
  <2>1. Record!TellStarted(r)
    BY <1>2 DEF PublishStarted, Publish, Step, rows, RowInv, RowFits, LogInv, LogFits, FreshPcs, Record!TellStarted
  <2> QED BY <2>1
<1>3. CASE exists /\ PublishCompleted(r)
  <2>1. log[r] = <<"started">> /\ status[r] = "completed"
    BY <1>3 DEF PublishCompleted, Publish, Step, RowInv, RowFits, LogInv, LogFits, BegunPcs
  <2>2. Record!TellEnd(r)
    BY <1>3, <2>1 DEF PublishCompleted, Publish, rows, Record!TellEnd, Record!Ends, Record!Told
  <2> QED BY <2>2
<1>4. ASSUME NEW e \in {"cancelled", "failed"}, NEW from \in {"pubCancelled", "pubFailed"}, NEW to,
             exists, Publish(r, from, e, to), status[r] = e
      PROVE  Record!RecordNext
  <2>1. ~Ended(r)
    BY <1>4 DEF Publish, Step, LogInv, LogFits, FreePcs
  <2>2. log' = [log EXCEPT ![r] = Append(@, e)] /\ UNCHANGED <<status, exists>>
    BY <1>4 DEF Publish, rows
  <2>3. Record!TellEnd(r)
    BY <1>4, <2>1, <2>2 DEF Ended, Record!TellEnd, Record!Ends, Record!Told
  <2> QED BY <2>3
<1>5. task[r] = "pubCancelled" /\ exists => status[r] = "cancelled"
  BY DEF RowInv, RowFits
<1>6. task[r] = "pubFailed" /\ exists => status[r] = "failed"
  BY DEF RowInv, RowFits
<1> QED BY <1>1, <1>2, <1>3, <1>4, <1>5, <1>6 DEF PublishCancelled, PublishFailed, Publish, Step

\* Every step of the executor is a step of RunRecord or none.
LEMMA NextRecord ==
  IInv /\ LogInv /\ RowInv /\ [Next]_vars => [Record!RecordNext]_(Record!recordVars)
<1> SUFFICES ASSUME IInv, LogInv, RowInv, [Next]_vars PROVE [Record!RecordNext]_(Record!recordVars)
  OBVIOUS
<1>1. CASE UNCHANGED <<rows, log>>
  BY <1>1 DEF rows, Record!recordVars
<1>2. ASSUME NEW q \in Requesters, NEW r \in Runs, exists, Insert(q, r), UNCHANGED log
      PROVE  Record!RecordNext
  <2>1. Record!Insert(r)
    BY <1>2 DEF Insert, Record!Insert, Record!Become
  <2> QED BY <2>1 DEF Record!RecordNext
<1>3. ASSUME NEW q \in Requesters, Execute(q) PROVE [Record!RecordNext]_(Record!recordVars)
  <2>1. CASE CreateRun(q)
    BY <1>1, <1>2, <2>1 DEF CreateRun
  <2>2. CASE ~CreateRun(q)
    BY <1>1, <1>3, <2>2 DEF Execute, FindByKey, FindActive, RaceActive, RaceKey, Lookup, Spawn
  <2> QED BY <2>1, <2>2
<1>4. ASSUME NEW r \in Runs, Drive(r) PROVE [Record!RecordNext]_(Record!recordVars)
  <2>1. CASE Start(r) \/ HandlerDone(r) \/ HandlerRaise(r) \/ Timeout(r) \/ BroadcastCompleted(r) \/ Flush(r)
    BY <1>1, <2>1 DEF Start, HandlerDone, HandlerRaise, Timeout, BroadcastCompleted, Flush, Unwind
  <2> QED BY <1>4, <2>1, UpdateRecord, PublishRecord DEF Drive
<1>5. CASE DeleteThread
  <2>1. status' = [r \in Runs |-> IF status[r] = "absent" THEN "absent" ELSE "deleted"]
    <3>1. \A r \in Runs : Row(r) <=> status[r] \notin {"absent", "deleted"}
      BY DEF IInv, TypeOK, Statuses, Row, Active, Terminal
    <3>2. \A r \in Runs : status[r] # "deleted"
      BY <1>5 DEF DeleteThread, IInv, InvRows
    <3>3. status' = [r \in Runs |-> IF Row(r) THEN "deleted" ELSE status[r]]
      BY <1>5 DEF DeleteThread
    <3> QED BY <3>1, <3>2, <3>3
  <2>2. Record!Drop
    BY <1>5, <2>1 DEF DeleteThread, Record!Drop
  <2> QED BY <2>2 DEF Record!RecordNext
<1> QED BY <1>1, <1>3, <1>4, <1>5
        DEF Next, Call, Nested, Enter, RequestFault, Cancel, DriverFault, Unwind, Crash, vars

\* Whatever the requests, cancels, faults, crashes and deletions, row and log
\* of a run tell one story, in the order RunRecord gives it.
THEOREM RecordImplemented == Spec => RecordSpec
<1>1. Init => LogInv
  BY DEF Init, LogInv, LogShape, LogFits, Ended, FreshPcs, BegunPcs
<1>2. Init => RowInv
  BY DEF Init, RowInv, RowFits
<1>3. Init => Record!RecordInit
  BY DEF Init, Record!RecordInit
<1> QED BY <1>1, <1>2, <1>3, NextLog, NextRow, NextRecord, Invariance, PTL
        DEF Spec, RecordSpec, Record!RecordSpec

-----------------------------------------------------------------------------
(* Drivers and requests only move forward: the part of their termination   *)
(* that does not rest on fairness.                                         *)

\* The steps a driver has at most ahead of it at pc.
DriverRank(pc) ==
  CASE pc = "ready" -> 10      [] pc = "setRunning" -> 9    [] pc = "pubStarted" -> 8
    [] pc = "handling" -> 7    [] pc = "setCompleted" -> 6  [] pc = "pubCompleted" -> 5
    [] pc = "bcastCompleted" -> 4
    [] pc \in {"setCancelled", "setFailed"} -> 3
    [] pc \in {"pubCancelled", "pubFailed"} -> 2
    [] pc = "flush" -> 1       [] OTHER -> 0

\* A driver that may still be started: its row is not there yet, or a requester
\* has inserted it and is about to start it.
Awaited(r) == status[r] = "absent" \/ \E q \in Requesters : rpc[q] = "spawn" /\ answer[q] = r

StepsLeft(r) == IF Awaited(r) THEN 11 ELSE DriverRank(task[r])

\* The store calls an execute() has at most ahead of it at pc.
RequestRank(pc) ==
  CASE pc = "byKey" -> 6       [] pc = "byActive" -> 5      [] pc = "create" -> 4
    [] pc = "raceActive" -> 3  [] pc = "raceKey" -> 2       [] pc = "spawn" -> 1
    [] OTHER -> 0

\* No driver does anything twice or is started twice, and every change of its
\* place, a cancel, a fault and a crash included, takes it nearer its end.
DriverForward ==
  [][\A r \in Runs : /\ StepsLeft(r)' <= StepsLeft(r)
                     /\ task'[r] # task[r] => StepsLeft(r)' < StepsLeft(r)]_vars

\* No execute() goes back to a lookup it has made.
RequestForward ==
  [][\A q \in Requesters : InExecute(q) /\ rpc'[q] # rpc[q] =>
                             RequestRank(rpc'[q]) < RequestRank(rpc[q])]_vars

\* Nobody is newly waited for: what was started stays started.
LEMMA AwaitedFrame ==
  ASSUME IInv, NEW r \in Runs, Awaited(r)' => Awaited(r),
         task'[r] # task[r] => DriverRank(task'[r]) < DriverRank(task[r])
  PROVE  /\ StepsLeft(r)' <= StepsLeft(r)
         /\ task'[r] # task[r] => StepsLeft(r)' < StepsLeft(r)
<1>1. \A pc : DriverRank(pc) \in 0 .. 10
  BY DEF DriverRank
<1>2. PICK new : new = task'[r]
  OBVIOUS
<1>3. PICK old : old = task[r]
  OBVIOUS
<1>4. Awaited(r) => task[r] = "none"
  BY DEF Awaited, IInv, InvRows, InvSpawn
<1>5. StepsLeft(r)' = IF Awaited(r)' THEN 11 ELSE DriverRank(new)
  BY <1>2 DEF StepsLeft
<1>6. StepsLeft(r) = IF Awaited(r) THEN 11 ELSE DriverRank(old)
  BY <1>3 DEF StepsLeft
<1>7. DriverRank("none") = 0
  BY DEF DriverRank
<1>8. new # old => DriverRank(new) < DriverRank(old)
  BY <1>2, <1>3
<1>9. DriverRank(new) \in 0 .. 10 /\ DriverRank(old) \in 0 .. 10
  BY <1>1
<1>10. new # old => ~Awaited(r)
  BY <1>3, <1>4, <1>7, <1>8, <1>9
<1> HIDE DEF StepsLeft, DriverRank, Awaited
<1>11. CASE Awaited(r)
  BY <1>2, <1>3, <1>5, <1>6, <1>9, <1>10, <1>11
<1>12. CASE ~Awaited(r)
  <2>1. StepsLeft(r)' = DriverRank(new) /\ StepsLeft(r) = DriverRank(old)
    BY <1>5, <1>6, <1>12
  <2>2. CASE new = old
    BY <1>2, <1>3, <1>9, <2>1, <2>2
  <2>3. CASE new # old
    BY <1>8, <1>9, <2>1, <2>3
  <2> QED BY <2>2, <2>3
<1> QED BY <1>11, <1>12

NoneAwaited == \A r \in Runs : Awaited(r)' => Awaited(r)

LEMMA NoneAwaitedFrame ==
  ASSUME \A r \in Runs : status'[r] = "absent" => status[r] = "absent",
         \A q \in Requesters : rpc'[q] = "spawn" => rpc[q] = "spawn" /\ answer'[q] = answer[q]
  PROVE  NoneAwaited
BY DEF NoneAwaited, Awaited

\* One driver at most moves, and it moves forward.
LEMMA AdvanceFrame ==
  ASSUME IInv, NoneAwaited, NEW d \in Runs, NEW to, task' = [task EXCEPT ![d] = to],
         to = task[d] \/ DriverRank(to) < DriverRank(task[d]), NEW r \in Runs
  PROVE  /\ StepsLeft(r)' <= StepsLeft(r)
         /\ task'[r] # task[r] => StepsLeft(r)' < StepsLeft(r)
<1>1. task'[r] = IF r = d THEN to ELSE task[r]
  BY DEF IInv, TypeOK
<1>2. Awaited(r)' => Awaited(r)
  BY DEF NoneAwaited
<1>3. PICK new : new = task'[r]
  OBVIOUS
<1>4. new # task[r] => DriverRank(new) < DriverRank(task[r])
  BY <1>1, <1>3
<1>5. task'[r] # task[r] => DriverRank(task'[r]) < DriverRank(task[r])
  BY <1>3, <1>4
<1> QED BY <1>2, <1>5, AwaitedFrame

\* The steps of a driver go down the ranks, and so does whatever interrupts it.
LEMMA DriveRank ==
  ASSUME IInv, NEW r \in Runs, Drive(r)
  PROVE  /\ NoneAwaited
         /\ \E to : task' = [task EXCEPT ![r] = to] /\ DriverRank(to) < DriverRank(task[r])
<1>1. NoneAwaited
  <2>1. CASE UNCHANGED <<rows, requests>>
    BY <2>1, NoneAwaitedFrame DEF rows, requests
  <2>2. CASE HandlerRaise(r) \/ Timeout(r)
    BY <2>2, NoneAwaitedFrame DEF HandlerRaise, Timeout, Unwind, rows, IInv, TypeOK, Requesters
  <2>3. ASSUME NEW from, NEW to, NEW s \in Terminal \cup {"running"}, Update(r, from, s, to)
        PROVE  NoneAwaited
    <3>1. s # "absent"
      BY DEF Terminal
    <3> QED BY <2>3, <3>1, NoneAwaitedFrame DEF Update, requests, IInv, TypeOK
  <2> QED BY <2>1, <2>2, <2>3
          DEF Drive, Start, UpdateRunning, PublishStarted, HandlerDone, UpdateCompleted, PublishCompleted,
              BroadcastCompleted, UpdateCancelled, PublishCancelled, UpdateFailed, PublishFailed, Flush,
              Publish, Terminal
<1>2. \E to : task' = [task EXCEPT ![r] = to] /\ DriverRank(to) < DriverRank(task[r])
  <2>0. ASSUME NEW from, NEW to, Step(r, from, IF exists THEN to ELSE Handler(from)),
               DriverRank(to) < DriverRank(from), DriverRank(Handler(from)) < DriverRank(from)
        PROVE  \E pc : task' = [task EXCEPT ![r] = pc] /\ DriverRank(pc) < DriverRank(task[r])
    BY <2>0 DEF Step
  <2>1. CASE Start(r) \/ HandlerDone(r) \/ BroadcastCompleted(r) \/ Flush(r)
    BY <2>1 DEF Start, HandlerDone, BroadcastCompleted, Flush, Step, DriverRank
  <2>2. CASE HandlerRaise(r) \/ Timeout(r)
    BY <2>2 DEF HandlerRaise, Timeout, Unwind, DriverRank
  <2>3. CASE UpdateRunning(r)
    <3>1. DriverRank("pubStarted") < DriverRank("setRunning") /\ DriverRank(Handler("setRunning")) < DriverRank("setRunning")
      BY DEF DriverRank, Handler, TryPcs
    <3> QED BY <2>0, <2>3, <3>1 DEF UpdateRunning, Update
  <2>4. CASE UpdateCompleted(r)
    <3>1. DriverRank("pubCompleted") < DriverRank("setCompleted") /\ DriverRank(Handler("setCompleted")) < DriverRank("setCompleted")
      BY DEF DriverRank, Handler, TryPcs
    <3> QED BY <2>0, <2>4, <3>1 DEF UpdateCompleted, Update
  <2>5. CASE UpdateCancelled(r)
    <3>1. DriverRank("pubCancelled") < DriverRank("setCancelled") /\ DriverRank(Handler("setCancelled")) < DriverRank("setCancelled")
      BY DEF DriverRank, Handler, TryPcs
    <3> QED BY <2>0, <2>5, <3>1 DEF UpdateCancelled, Update
  <2>6. CASE UpdateFailed(r)
    <3>1. DriverRank("pubFailed") < DriverRank("setFailed") /\ DriverRank(Handler("setFailed")) < DriverRank("setFailed")
      BY DEF DriverRank, Handler, TryPcs
    <3> QED BY <2>0, <2>6, <3>1 DEF UpdateFailed, Update
  <2>7. CASE PublishStarted(r)
    <3>1. DriverRank("handling") < DriverRank("pubStarted") /\ DriverRank(Handler("pubStarted")) < DriverRank("pubStarted")
      BY DEF DriverRank, Handler, TryPcs
    <3> QED BY <2>0, <2>7, <3>1 DEF PublishStarted, Publish
  <2>8. CASE PublishCompleted(r)
    <3>1. DriverRank("bcastCompleted") < DriverRank("pubCompleted") /\ DriverRank(Handler("pubCompleted")) < DriverRank("pubCompleted")
      BY DEF DriverRank, Handler, TryPcs
    <3> QED BY <2>0, <2>8, <3>1 DEF PublishCompleted, Publish
  <2>9. CASE PublishCancelled(r)
    <3>1. DriverRank("flush") < DriverRank("pubCancelled") /\ DriverRank(Handler("pubCancelled")) < DriverRank("pubCancelled")
      BY DEF DriverRank, Handler, TryPcs
    <3> QED BY <2>0, <2>9, <3>1 DEF PublishCancelled, Publish
  <2>10. CASE PublishFailed(r)
    <3>1. DriverRank("flush") < DriverRank("pubFailed") /\ DriverRank(Handler("pubFailed")) < DriverRank("pubFailed")
      BY DEF DriverRank, Handler, TryPcs
    <3> QED BY <2>0, <2>10, <3>1 DEF PublishFailed, Publish
  <2> QED BY <2>1, <2>2, <2>3, <2>4, <2>5, <2>6, <2>7, <2>8, <2>9, <2>10 DEF Drive
<1> QED BY <1>1, <1>2

LEMMA InterruptRank ==
  ASSUME IInv, NEW r \in Runs, Cancel(r) \/ DriverFault(r)
  PROVE  /\ NoneAwaited
         /\ \E to : task' = [task EXCEPT ![r] = to] /\ DriverRank(to) < DriverRank(task[r])
<1>1. NoneAwaited
  BY NoneAwaitedFrame DEF Cancel, DriverFault, Unwind, rows, IInv, TypeOK, Requesters
<1>2. CASE Cancel(r)
  <2>1. DriverRank(Interrupted(task[r])) < DriverRank(task[r])
    BY <1>2 DEF Cancel, Live, LivePcs, TryPcs, ExceptPcs, Interrupted, DriverRank
  <2> QED BY <1>1, <1>2, <2>1 DEF Cancel, Unwind
<1>3. CASE DriverFault(r)
  <2> DEFINE to == IF task[r] = "flush" THEN "done" ELSE Handler(task[r])
  <2>1. DriverRank(to) < DriverRank(task[r])
    BY <1>3 DEF DriverFault, Live, LivePcs, TryPcs, ExceptPcs, Handler, DriverRank
  <2>2. task' = [task EXCEPT ![r] = to]
    BY <1>3 DEF DriverFault, Unwind
  <2> HIDE DEF to
  <2> QED BY <1>1, <2>1, <2>2
<1> QED BY <1>2, <1>3

\* Whatever happens, no driver goes back: it ends after at most ten changes of
\* place, which with the fairness of FairSpec is what DriverEnds says.
THEOREM DriversAdvance == Spec => DriverForward
<1> DEFINE Forward(r) == /\ StepsLeft(r)' <= StepsLeft(r)
                         /\ task'[r] # task[r] => StepsLeft(r)' < StepsLeft(r)
<1>1. ASSUME IInv, [Next]_vars, NEW r \in Runs PROVE Forward(r)
  <2>0. IInv
    BY <1>1
  <2>1. CASE NoneAwaited /\ UNCHANGED task
    BY <2>0, <2>1, AwaitedFrame DEF NoneAwaited
  <2>2. ASSUME NEW d \in Runs, NoneAwaited,
               \E to : task' = [task EXCEPT ![d] = to] /\ DriverRank(to) < DriverRank(task[d])
        PROVE  Forward(r)
    BY <2>0, <2>2, AdvanceFrame
  <2>3. ASSUME NEW q \in Requesters, NEW a \in Assistants, NEW k \in Keys \cup {NoKey},
               NEW v \in Vias, Enter(q, a, k, v)
        PROVE  Forward(r)
    <3>1. NoneAwaited /\ UNCHANGED task
      BY <2>0, <2>3, NoneAwaitedFrame DEF Enter, rows, drivers, IInv, TypeOK
    <3> QED BY <2>1, <3>1
  <2>4. ASSUME NEW q \in Requesters, Execute(q) PROVE Forward(r)
    <3>1. CASE Spawn(q)
      <4>1. PICK d \in Runs : d = answer[q]
        BY <2>0, <3>1 DEF Spawn, IInv, InvSpawn
      <4>2. /\ task[d] = "none" /\ status[d] # "absent" /\ task' = [task EXCEPT ![d] = "ready"]
            /\ UNCHANGED <<rows, answer>> /\ rpc' = [rpc EXCEPT ![q] = "returned"]
        BY <2>0, <3>1, <4>1 DEF Spawn, Goto, IInv, InvSpawn
      <4>3. Awaited(d) /\ ~Awaited(d)'
        BY <2>0, <3>1, <4>1, <4>2 DEF Spawn, Awaited, rows, IInv, InvSpawn, TypeOK
      <4>4. CASE r = d
        <5>1. task'[r] = "ready"
          BY <2>0, <4>2, <4>4 DEF IInv, TypeOK
        <5>2. StepsLeft(r)' = 10 /\ StepsLeft(r) = 11
          BY <4>3, <4>4, <5>1 DEF StepsLeft, DriverRank
        <5> QED BY <5>2
      <4>5. CASE r # d
        <5>1. task'[r] = task[r]
          BY <2>0, <4>2, <4>5 DEF IInv, TypeOK
        <5>2. NoneAwaited
          BY <2>0, <4>2, NoneAwaitedFrame DEF rows, IInv, TypeOK
        <5> QED BY <2>0, <5>1, <5>2, AwaitedFrame DEF NoneAwaited
      <4> QED BY <4>4, <4>5
    <3>2. CASE CreateRun(q)
      <4>1. CASE (Goto(q, "raised") \/ Goto(q, "raceActive")) /\ UNCHANGED rows
        BY <2>0, <2>1, <3>2, <4>1, NoneAwaitedFrame DEF CreateRun, Goto, rows, drivers, IInv, TypeOK
      <4>2. CASE \E o \in Runs : Insert(q, o)
        <5>1. PICK o \in Runs : Insert(q, o)
          BY <4>2
        <5>2. Awaited(o) /\ UNCHANGED task
          BY <3>2, <5>1 DEF CreateRun, Insert, drivers, Awaited
        <5>3. NoneAwaited
          BY <2>0, <5>1, <5>2 DEF Insert, NoneAwaited, Awaited, IInv, TypeOK
        <5> QED BY <2>1, <5>2, <5>3
      <4> QED BY <3>2, <4>1, <4>2 DEF CreateRun
    <3>3. ASSUME NEW found \in SUBSET Runs, NEW pc, pc # "spawn", Lookup(q, found, pc)
          PROVE  Forward(r)
      <4>1. NoneAwaited /\ UNCHANGED task
        BY <2>0, <3>3, NoneAwaitedFrame DEF Lookup, Goto, rows, drivers, IInv, TypeOK
      <4> QED BY <2>1, <4>1
    <3>4. WithKey(ask[q].key) \in SUBSET Runs /\ ActiveOf(ask[q].assistant) \in SUBSET Runs
      BY DEF WithKey, ActiveOf
    <3> HIDE DEF Forward
    <3> QED BY <2>4, <3>1, <3>2, <3>3, <3>4 DEF Execute, FindByKey, FindActive, RaceActive, RaceKey
  <2>5. ASSUME NEW q \in Requesters, RequestFault(q) PROVE Forward(r)
    BY <2>0, <2>1, <2>5, NoneAwaitedFrame DEF RequestFault, Goto, rows, drivers, IInv, TypeOK
  <2>6. CASE Crash
    <3>1. NoneAwaited
      BY <2>0, <2>6, NoneAwaitedFrame DEF Crash, InExecute, rows, IInv, TypeOK
    <3>2. PICK new : new = task'[r]
      OBVIOUS
    <3>3. new = task[r] \/ (new = "none" /\ Live(r))
      BY <2>6, <3>2 DEF Crash
    <3>4. new = task[r] \/ DriverRank(new) < DriverRank(task[r])
      BY <3>3 DEF Live, LivePcs, TryPcs, ExceptPcs, DriverRank
    <3>5. task'[r] # task[r] => DriverRank(task'[r]) < DriverRank(task[r])
      BY <3>2, <3>4
    <3> QED BY <2>0, <3>1, <3>5, AwaitedFrame DEF NoneAwaited
  <2>7. CASE DeleteThread
    BY <2>1, <2>7, NoneAwaitedFrame DEF DeleteThread, Row, Active, requests, drivers
  <2>8. CASE UNCHANGED vars
    BY <2>1, <2>8, NoneAwaitedFrame DEF vars, rows, requests, drivers
  <2> HIDE DEF Forward
  <2>9. ASSUME NEW d \in Runs, Drive(d) PROVE Forward(r)
    BY <2>0, <2>2, <2>9, DriveRank
  <2>10. ASSUME NEW d \in Runs, Cancel(d) \/ DriverFault(d) PROVE Forward(r)
    BY <2>0, <2>2, <2>10, InterruptRank
  <2>11. ASSUME NEW c \in Calls, NEW a \in Assistants, NEW k \in Keys \cup {NoKey},
                NEW v \in Vias, Call(c, a, k, v)
         PROVE  Forward(r)
    BY <2>3, <2>11 DEF Call, Requesters
  <2>12. ASSUME NEW d \in Runs, NEW a \in Assistants, NEW v \in Vias, Nested(d, a, v)
         PROVE  Forward(r)
    BY <2>3, <2>12 DEF Nested, Requesters
  <2> QED BY <1>1, <2>4, <2>5, <2>6, <2>7, <2>8, <2>9, <2>10, <2>11, <2>12 DEF Next
<1>2. IInv /\ [Next]_vars => [\A r \in Runs : /\ StepsLeft(r)' <= StepsLeft(r)
                                              /\ task'[r] # task[r] => StepsLeft(r)' < StepsLeft(r)]_vars
  BY <1>1
<1> QED BY <1>2, Invariance, PTL DEF Spec, DriverForward

\* One requester at most moves, and it leaves execute() or moves forward in it.
LEMMA RequestMove ==
  ASSUME IInv, NEW p \in Requesters, NEW pc, rpc' = [rpc EXCEPT ![p] = pc],
         InExecute(p) => RequestRank(pc) < RequestRank(rpc[p]),
         NEW q \in Requesters, InExecute(q), rpc'[q] # rpc[q]
  PROVE  RequestRank(rpc'[q]) < RequestRank(rpc[q])
<1>1. q = p /\ rpc'[q] = pc
  BY DEF IInv, TypeOK
<1>2. PICK new : new = rpc'[q]
  OBVIOUS
<1> QED BY <1>1, <1>2

LEMMA LeaveRank ==
  ASSUME NEW q \in Requesters, InExecute(q), NEW pc \in {"idle", "returned", "raised"}
  PROVE  RequestRank(pc) < RequestRank(rpc[q])
BY DEF InExecute, DbPcs, RequestRank

LEMMA LookupRank ==
  ASSUME IInv, NEW p \in Requesters, NEW found, NEW pc, Lookup(p, found, pc),
         RequestRank(pc) < RequestRank(rpc[p]), InExecute(p),
         NEW q \in Requesters, InExecute(q), rpc'[q] # rpc[q]
  PROVE  RequestRank(rpc'[q]) < RequestRank(rpc[q])
<1>1. rpc' = [rpc EXCEPT ![p] = pc] \/ rpc' = [rpc EXCEPT ![p] = "returned"]
  BY DEF Lookup, Goto
<1>2. RequestRank("returned") < RequestRank(rpc[p])
  BY LeaveRank
<1> QED BY <1>1, <1>2, RequestMove

\* Whatever happens, no request goes back: it makes at most six store calls,
\* which with the fairness of FairSpec is what ExecuteEnds says.
THEOREM RequestsAdvance == Spec => RequestForward
<1>1. ASSUME IInv, [Next]_vars, NEW q \in Requesters, InExecute(q), rpc'[q] # rpc[q]
      PROVE  RequestRank(rpc'[q]) < RequestRank(rpc[q])
  <2>0. IInv /\ InExecute(q) /\ rpc'[q] # rpc[q]
    BY <1>1
  <2> DEFINE Goal == RequestRank(rpc'[q]) < RequestRank(rpc[q])
  <2>1. ASSUME UNCHANGED rpc PROVE Goal
    BY <2>0, <2>1
  <2>2. ASSUME NEW p \in Requesters, Execute(p) PROVE Goal
    <3>1. CASE FindByKey(p)
      <4>1. InExecute(p) /\ RequestRank("byActive") < RequestRank(rpc[p])
        BY <3>1 DEF FindByKey, InExecute, DbPcs, RequestRank
      <4> QED BY <2>0, <3>1, <4>1, LookupRank DEF FindByKey
    <3>2. CASE FindActive(p)
      <4>1. InExecute(p) /\ RequestRank("create") < RequestRank(rpc[p])
        BY <3>2 DEF FindActive, InExecute, DbPcs, RequestRank
      <4> QED BY <2>0, <3>2, <4>1, LookupRank DEF FindActive
    <3>3. CASE RaceActive(p)
      <4> DEFINE pc == IF ask[p].key = NoKey THEN "raised" ELSE "raceKey"
      <4>1. InExecute(p) /\ RequestRank(pc) < RequestRank(rpc[p])
        BY <3>3 DEF RaceActive, InExecute, DbPcs, RequestRank
      <4>2. Lookup(p, ActiveOf(ask[p].assistant), pc)
        BY <3>3 DEF RaceActive
      <4> HIDE DEF pc
      <4> QED BY <2>0, <4>1, <4>2, LookupRank
    <3>4. CASE RaceKey(p)
      <4>1. InExecute(p) /\ RequestRank("raised") < RequestRank(rpc[p])
        BY <3>4 DEF RaceKey, InExecute, DbPcs, RequestRank
      <4> QED BY <2>0, <3>4, <4>1, LookupRank DEF RaceKey
    <3>5. CASE CreateRun(p)
      <4>1. PICK pc \in {"raised", "raceActive", "spawn"} : rpc' = [rpc EXCEPT ![p] = pc]
        BY <3>5 DEF CreateRun, Goto, Insert
      <4>2. RequestRank(pc) < RequestRank(rpc[p])
        BY <3>5 DEF CreateRun, RequestRank
      <4> QED BY <2>0, <4>1, <4>2, RequestMove
    <3>6. CASE Spawn(p)
      <4>1. InExecute(p) /\ rpc' = [rpc EXCEPT ![p] = "returned"]
        BY <3>6 DEF Spawn, Goto, InExecute
      <4> QED BY <2>0, <4>1, LeaveRank, RequestMove
    <3> QED BY <2>2, <3>1, <3>2, <3>3, <3>4, <3>5, <3>6 DEF Execute
  <2>3. ASSUME NEW p \in Requesters, RequestFault(p) PROVE Goal
    <3>1. InExecute(p) /\ rpc' = [rpc EXCEPT ![p] = "raised"]
      BY <2>3 DEF RequestFault, Goto
    <3> QED BY <2>0, <3>1, LeaveRank, RequestMove
  <2>4. ASSUME NEW p \in Requesters, ~InExecute(p), NEW pc, rpc' = [rpc EXCEPT ![p] = pc] PROVE Goal
    BY <2>0, <2>4, RequestMove
  <2>5. ASSUME NEW c \in Calls, NEW a \in Assistants, NEW k \in Keys \cup {NoKey},
               NEW v \in Vias, Call(c, a, k, v)
        PROVE  Goal
    BY <2>4, <2>5 DEF Call, Enter, Requesters, InExecute, DbPcs
  <2>6. ASSUME NEW d \in Runs, NEW a \in Assistants, NEW v \in Vias, Nested(d, a, v) PROVE Goal
    BY <2>4, <2>6 DEF Nested, Enter, Requesters
  <2>7. ASSUME NEW d \in Runs, NEW to, Unwind(d, to) PROVE Goal
    <3>1. InExecute(d) => RequestRank("idle") < RequestRank(rpc[d])
      BY LeaveRank DEF Requesters
    <3> QED BY <2>0, <2>7, <3>1, RequestMove DEF Unwind, Requesters
  <2>8. ASSUME Crash PROVE Goal
    <3>1. rpc'[q] = "raised"
      BY <2>0, <2>8 DEF Crash
    <3>2. PICK new : new = rpc'[q]
      OBVIOUS
    <3> QED BY <2>0, <3>1, <3>2, LeaveRank
  <2>9. ASSUME NEW d \in Runs, Drive(d) PROVE Goal
    <3>1. UNCHANGED rpc \/ \E to : Unwind(d, to)
      BY <2>9 DEF Drive, Start, UpdateRunning, PublishStarted, HandlerDone, HandlerRaise, Timeout,
         UpdateCompleted, PublishCompleted, BroadcastCompleted, UpdateCancelled, PublishCancelled,
         UpdateFailed, PublishFailed, Flush, Update, Publish, requests
    <3> QED BY <2>1, <2>7, <3>1
  <2>10. ASSUME NEW d \in Runs, Cancel(d) \/ DriverFault(d) PROVE Goal
    BY <2>7, <2>10 DEF Cancel, DriverFault
  <2> HIDE DEF Goal
  <2>11. ASSUME DeleteThread \/ UNCHANGED vars PROVE Goal
    BY <2>1, <2>11 DEF DeleteThread, requests, vars
  <2>12. Goal
    BY <1>1, <2>2, <2>3, <2>5, <2>6, <2>8, <2>9, <2>10, <2>11 DEF Next
  <2> QED BY <2>12 DEF Goal
<1>2. IInv /\ [Next]_vars => [\A q \in Requesters : InExecute(q) /\ rpc'[q] # rpc[q] =>
                                RequestRank(rpc'[q]) < RequestRank(rpc[q])]_vars
  BY <1>1
<1> QED BY <1>2, Invariance, PTL DEF Spec, RequestForward

-----------------------------------------------------------------------------
(* How deep assistants that invoke each other can get.                     *)

\* A handler waits for the execute() it called and for no other.
InsideHandler == \A r \in Runs : InExecute(r) => task[r] = "handling"

\* _auto_invoke_recipients goes no deeper than the cap, however many runs it
\* goes through and whatever became of those before; a posted message is one
\* deep whatever the cap.
Capped(n) == n <= MaxChainDepth \/ n <= 1
DepthBounded == \A r \in Runs : Capped(chainDepths[r])

DepthInv == /\ InsideHandler
            /\ DepthBounded
            /\ \A r \in Runs : InExecute(r) /\ ask[r].via = "recipients" => chainDepths[r] < MaxChainDepth

LEMMA NextDepth == IInv /\ DepthInv /\ [Next]_vars => DepthInv'
<1> SUFFICES ASSUME IInv, DepthInv, [Next]_vars PROVE DepthInv'
  OBVIOUS
<1>0. IInv /\ TypeOK /\ DepthInv
  BY DEF IInv
<1> USE DEF DepthInv, InsideHandler, DepthBounded
<1>1. ASSUME UNCHANGED <<task, chainDepths>>, NEW q \in Requesters, NEW pc,
             InExecute(q) \/ pc \in {"idle", "returned", "raised"},
             rpc' = [rpc EXCEPT ![q] = pc], UNCHANGED ask
      PROVE  DepthInv'
  BY <1>0, <1>1 DEF InExecute, DbPcs, TypeOK, Capped
<1>2. ASSUME NEW d \in Runs, NEW to, task' = [task EXCEPT ![d] = to],
             rpc' = [rpc EXCEPT ![d] = "idle"], UNCHANGED <<ask, chainDepths>>
      PROVE  DepthInv'
  BY <1>0, <1>2 DEF InExecute, DbPcs, TypeOK, Capped, Requesters
<1>3. ASSUME NEW d \in Runs, NEW to, ~InExecute(d) \/ task[d] # "handling", task' = [task EXCEPT ![d] = to],
             UNCHANGED <<rpc, ask, chainDepths>>
      PROVE  DepthInv'
  BY <1>0, <1>3 DEF InExecute, TypeOK, Capped
<1>4. ASSUME NEW q \in Requesters, Execute(q) PROVE DepthInv'
  <2>1. CASE Spawn(q)
    <3>1. PICK d \in Runs : d = answer[q]
      BY <2>1 DEF Spawn, IInv, InvSpawn
    <3>2. task[d] = "none" /\ InExecute(q)
      BY <2>1, <3>1 DEF Spawn, IInv, InvSpawn, InExecute
    <3>3. Capped(Depth(q))
      BY <1>0, <3>2, BoundsAssumption DEF Depth, Capped, TypeOK
    <3>4. /\ chainDepths' = [chainDepths EXCEPT ![d] = Depth(q)] /\ task' = [task EXCEPT ![d] = "ready"]
          /\ rpc' = [rpc EXCEPT ![q] = "returned"] /\ UNCHANGED ask
      BY <2>1, <3>1 DEF Spawn, Goto
    <3>5. \A r \in Runs : InExecute(r)' => InExecute(r) /\ r # d
      BY <1>0, <3>2, <3>4 DEF InExecute, DbPcs, TypeOK, Requesters
    <3>6. \A r \in Runs : r # d => task'[r] = task[r] /\ chainDepths'[r] = chainDepths[r]
      BY <1>0, <3>4 DEF TypeOK
    <3>7. chainDepths'[d] = Depth(q)
      BY <1>0, <3>4 DEF TypeOK
    <3>8. DepthBounded'
      BY <3>3, <3>6, <3>7 DEF Capped
    <3> QED BY <3>4, <3>5, <3>6, <3>8
  <2>2. CASE CreateRun(q)
    <3>1. PICK pc : rpc' = [rpc EXCEPT ![q] = pc]
      BY <2>2 DEF CreateRun, Goto, Insert
    <3>2. UNCHANGED ask /\ InExecute(q)
      BY <2>2 DEF CreateRun, Goto, Insert, InExecute, DbPcs
    <3> QED BY <1>1, <2>2, <3>1, <3>2 DEF CreateRun, drivers
  <2>3. ASSUME NEW found, NEW pc, InExecute(q), Lookup(q, found, pc) PROVE DepthInv'
    <3>1. PICK to : rpc' = [rpc EXCEPT ![q] = to]
      BY <2>3 DEF Lookup, Goto
    <3> QED BY <1>1, <2>3, <3>1 DEF Lookup, Goto, drivers
  <2> QED BY <1>4, <2>1, <2>2, <2>3 DEF Execute, FindByKey, FindActive, RaceActive, RaceKey, InExecute, DbPcs
<1>5. ASSUME NEW q \in Requesters, RequestFault(q) PROVE DepthInv'
  BY <1>1, <1>5 DEF RequestFault, Goto, drivers
<1>6. ASSUME NEW c \in Calls, NEW a \in Assistants, NEW k \in Keys \cup {NoKey},
             NEW v \in Vias, Call(c, a, k, v)
      PROVE  DepthInv'
  <2>1. c \notin Runs /\ UNCHANGED <<task, chainDepths>>
    BY <1>6, IdsAssumption DEF Call, Enter, drivers
  <2>2. \A r \in Runs : rpc'[r] = rpc[r] /\ ask'[r] = ask[r]
    BY <1>0, <1>6, <2>1 DEF Call, Enter, TypeOK, Requesters
  <2> QED BY <2>1, <2>2 DEF InExecute, Capped
<1>7. ASSUME NEW d \in Runs, NEW a \in Assistants, NEW v \in Vias, Nested(d, a, v) PROVE DepthInv'
  <2>1. /\ task[d] = "handling" /\ UNCHANGED <<task, chainDepths>>
        /\ v = "recipients" => chainDepths[d] < MaxChainDepth
    BY <1>7 DEF Nested, Enter, drivers
  <2>2. ask'[d].via = v
    BY <1>0, <1>7 DEF Nested, Enter, TypeOK, Requesters
  <2>3. \A r \in Runs : r # d => rpc'[r] = rpc[r] /\ ask'[r] = ask[r]
    BY <1>0, <1>7 DEF Nested, Enter, TypeOK, Requesters
  <2> QED BY <2>1, <2>2, <2>3 DEF InExecute, Capped
<1>8. ASSUME NEW d \in Runs, Drive(d) PROVE DepthInv'
  <2>1. CASE HandlerRaise(d) \/ Timeout(d)
    BY <1>2, <2>1 DEF HandlerRaise, Timeout, Unwind
  <2>2. CASE Flush(d)
    <3>1. \A r \in Runs : chainDepths'[r] = IF r = d THEN 0 ELSE chainDepths[r]
      BY <1>0, <2>2 DEF Flush, TypeOK
    <3>2. \A r \in Runs : task'[r] = IF r = d THEN "done" ELSE task[r]
      BY <1>0, <2>2 DEF Flush, Step, TypeOK
    <3>3. ~InExecute(d) /\ UNCHANGED <<rpc, ask>>
      BY <2>2 DEF Flush, Step, requests
    <3> QED BY <3>1, <3>2, <3>3 DEF InExecute, Capped
  <2>3. CASE HandlerDone(d) \/ Start(d) \/ BroadcastCompleted(d)
    BY <1>3, <2>3 DEF HandlerDone, Start, BroadcastCompleted, Step, requests
  <2>4. ASSUME NEW from, NEW s, NEW to, from # "handling", Update(d, from, s, to) PROVE DepthInv'
    BY <1>3, <2>4 DEF Update, Step, requests
  <2>5. ASSUME NEW from, NEW e, NEW to, from # "handling", Publish(d, from, e, to) PROVE DepthInv'
    BY <1>3, <2>5 DEF Publish, Step, requests
  <2> QED BY <1>8, <2>1, <2>2, <2>3, <2>4, <2>5
          DEF Drive, UpdateRunning, PublishStarted, UpdateCompleted, PublishCompleted,
              UpdateCancelled, PublishCancelled, UpdateFailed, PublishFailed
<1>9. ASSUME NEW d \in Runs, Cancel(d) \/ DriverFault(d) PROVE DepthInv'
  BY <1>2, <1>9 DEF Cancel, DriverFault, Unwind
<1>10. CASE Crash
  <2>1. \A r \in Runs : ~InExecute(r)' /\ chainDepths'[r] = 0
    BY <1>0, <1>10 DEF Crash, InExecute, DbPcs, TypeOK, Requesters
  <2> QED BY <2>1 DEF Capped
<1>11. CASE UNCHANGED <<task, chainDepths, rpc, ask>>
  BY <1>11 DEF InExecute, Capped
<1> QED BY <1>4, <1>5, <1>6, <1>7, <1>8, <1>9, <1>10, <1>11
        DEF Next, DeleteThread, requests, drivers, vars

\* No driver ever stands deeper in a chain of recipients than the cap, counted
\* from the message that began it; and whatever cuts a handler off takes the
\* execute() it was in along.
THEOREM DepthsBounded == Spec => [](DepthBounded /\ InsideHandler)
<1>1. Init => DepthInv
  BY BoundsAssumption DEF Init, DepthInv, DepthBounded, InsideHandler, Capped, InExecute, DbPcs, Requesters
<1>2. DepthInv => DepthBounded /\ InsideHandler
  BY DEF DepthInv
<1> QED BY <1>1, <1>2, NextDepth, Invariance, PTL DEF Spec

-----------------------------------------------------------------------------
(* What RunRecord promises its readers, and so what the executor's database *)
(* tells them.                                                              *)

\* What the log says of the end of a run its row says too; a completion may
\* since have been taken back.  Nothing is logged of a run that has not begun.
LogAgrees == \A r \in Runs :
  /\ \A e \in {"failed", "cancelled"} : Record!Told(r, e) => status[r] = e
  /\ Record!Told(r, "completed") => status[r] \in Record!Ends
  /\ log[r] # <<>> => status[r] \in Record!Ends \cup {"running"}

LEMMA ToldMore ==
  ASSUME log \in [Runs -> Seq(Events)], NEW r \in Runs, NEW e \in Events, Record!Tell(r, e)
  PROVE  \A o \in Runs : /\ \A f : Record!Told(o, f)' <=> Record!Told(o, f) \/ (o = r /\ f = e)
                         /\ o # r => log'[o] = log[o]
<1>1. log' = [log EXCEPT ![r] = Append(log[r], e)]
  BY DEF Record!Tell
<1>2. log[r] \in Seq(Events) /\ Len(log[r]) \in Nat /\ DOMAIN log[r] = 1 .. Len(log[r])
  BY LenProperties
<1>3. PICK new : new = Append(log[r], e)
  OBVIOUS
<1>4. /\ new \in Seq(Events) /\ Len(new) = Len(log[r]) + 1
      /\ \A i \in 1 .. Len(log[r]) : new[i] = log[r][i]
      /\ new[Len(log[r]) + 1] = e
  BY <1>2, <1>3, AppendProperties
<1>5. DOMAIN new = 1 .. Len(log[r]) + 1
  BY <1>4, LenProperties
<1>6. log'[r] = new /\ \A o \in Runs \ {r} : log'[o] = log[o]
  BY <1>1, <1>3
<1>7. \A f : (\E i \in DOMAIN new : new[i] = f) <=> (\E i \in DOMAIN log[r] : log[r][i] = f) \/ f = e
  <2>1. DOMAIN new = DOMAIN log[r] \cup {Len(log[r]) + 1}
    BY <1>2, <1>5
  <2> QED
    BY <1>2, <1>4, <2>1
<1>8. ASSUME NEW o \in Runs, NEW f PROVE Record!Told(o, f)' <=> Record!Told(o, f) \/ (o = r /\ f = e)
  <2>1. CASE o = r
    BY <1>6, <1>7, <2>1 DEF Record!Told
  <2>2. CASE o # r
    BY <1>6, <2>2 DEF Record!Told
  <2> QED
    BY <2>1, <2>2
<1> QED
  BY <1>6, <1>8

\* A step of RunRecord keeps row and log in agreement.
LEMMA RecordAgrees ==
  ASSUME log \in [Runs -> Seq(Events)], status \in [Runs -> Statuses], LogAgrees,
         [Record!RecordNext]_(Record!recordVars)
  PROVE  LogAgrees'
<1> USE DEF Record!Ends, Record!Unfinished
<1>1. CASE UNCHANGED Record!recordVars
  BY <1>1 DEF LogAgrees, Record!Told, Record!recordVars
<1>2. CASE Record!Drop
  <2>1. \A r \in Runs : log'[r] = <<>> /\ DOMAIN log'[r] = {}
    BY <1>2, EmptySeq DEF Record!Drop
  <2> QED
    BY <2>1 DEF LogAgrees, Record!Told
<1>3. ASSUME NEW r \in Runs, NEW s, Record!Become(r, s),
             \/ log[r] = <<>> /\ s \in {"pending", "running", "completed", "failed", "cancelled"}
             \/ status[r] \in {"running", "completed"} /\ s \in Record!Ends
      PROVE  LogAgrees'
  <2>1. log' = log /\ \A o \in Runs : status'[o] = IF o = r THEN s ELSE status[o]
    BY <1>3 DEF Record!Become
  <2>2. \A o \in Runs : log[o] = <<>> => \A e : ~Record!Told(o, e)
    BY EmptySeq DEF Record!Told
  <2>3. \A o \in Runs : \A e : Record!Told(o, e)' <=> Record!Told(o, e)
    BY <2>1 DEF Record!Told
  <2> QED
    BY <1>3, <2>1, <2>2, <2>3 DEF LogAgrees
<1>4. ASSUME NEW r \in Runs, NEW e \in Events, Record!Tell(r, e), e = status[r] \/ e = "started",
             status[r] \in Record!Ends \cup {"running"}
      PROVE  LogAgrees'
  <2>1. status' = status
    BY <1>4 DEF Record!Tell
  <2> QED
    BY <1>4, <2>1, ToldMore DEF LogAgrees
<1>5. ASSUME NEW r \in Runs, Record!Insert(r) \/ Record!Begin(r) PROVE LogAgrees'
  <2>1. log[r] = <<>>
    BY <1>5 DEF LogAgrees, Record!Insert, Record!Begin
  <2> QED
    BY <1>3, <1>5, <2>1 DEF Record!Insert, Record!Begin
<1>6. ASSUME NEW r \in Runs, NEW s \in Record!Ends, Record!Finish(r, s) \/ Record!Revise(r, s)
      PROVE  LogAgrees'
  <2>1. log[r] = <<>> \/ status[r] \in {"running", "completed"}
    BY <1>6 DEF LogAgrees, Record!Finish, Record!Revise
  <2> QED
    BY <1>3, <1>6, <2>1 DEF Record!Finish, Record!Revise
<1>7. ASSUME NEW r \in Runs, Record!TellStarted(r) \/ Record!TellEnd(r) PROVE LogAgrees'
  BY <1>4, <1>7 DEF Record!TellStarted, Record!TellEnd, Events
<1> QED
  BY <1>1, <1>2, <1>5, <1>6, <1>7 DEF Record!RecordNext

\* Whoever reads row and log of a run in one state, with whatever races, fails
\* or crashes, finds them in agreement: a failure or a cancellation in the log is
\* the status of the row.
THEOREM DatabaseAgrees == Spec => []LogAgrees
<1>1. Record!RecordInit => LogAgrees
  BY EmptySeq DEF Record!RecordInit, LogAgrees, Record!Told
<1>2. IInv => log \in [Runs -> Seq(Events)] /\ status \in [Runs -> Statuses]
  BY DEF IInv, TypeOK
<1>3. IInv /\ LogAgrees /\ [Record!RecordNext]_(Record!recordVars) => LogAgrees'
  BY <1>2, RecordAgrees
<1> QED
  BY <1>1, <1>3, Invariance, RecordImplemented, PTL DEF RecordSpec, Record!RecordSpec

-----------------------------------------------------------------------------
(* No run is let go of before its row has ended: the part of RunEnds that   *)
(* does not rest on fairness.                                              *)

\* Somebody will still move the run on: its driver, or the client's call that
\* is about to start it.
InHand(r) == Live(r) \/ \E c \in Calls : rpc[c] = "spawn" /\ answer[c] = r

\* While no mishap has struck, whoever has a run in hand keeps it in hand until
\* its row is completed or failed: execute() never drops the run it inserted,
\* and _drive() never reaches its end past a row that is still active.
StaysInHand ==
  [][\A r \in Runs : InHand(r) /\ left' = Budget => InHand(r)' \/ status'[r] \notin Active]_vars

\* No more mishaps are left than there were.
Within == \A m \in Mishaps : left[m] <= Budget[m]

\* A driver at its finally clause has ended its row.
FlushEnded == \A r \in Runs : task[r] = "flush" => status[r] \notin Active

CalmInv == Within /\ (left = Budget => FlushEnded)

CalmNext == \/ \E q \in Requesters, a \in Assistants, k \in Keys \cup {NoKey}, v \in Vias :
                 Enter(q, a, k, v) /\ (q \in Runs => ~InExecute(q)) /\ (q \in Calls => rpc[q] = "idle")
            \/ \E q \in Requesters : Execute(q)
            \/ \E r \in Runs : Drive(r)
            \/ UNCHANGED vars

\* A mishap that has struck is seen in left for good.
LEMMA CalmStep ==
  ASSUME IInv, Within, [Next]_vars
  PROVE  Within' /\ (left' = Budget => left = Budget /\ CalmNext)
<1>1. \A m \in Mishaps : left[m] \in Nat /\ Budget[m] \in Nat
  BY BoundsAssumption DEF IInv, TypeOK
<1>2. ASSUME NEW m \in Mishaps, Spend(m) PROVE Within' /\ left' # Budget
  <2>1. left'[m] = left[m] - 1 /\ \A n \in Mishaps : n # m => left'[n] = left[n]
    BY <1>2 DEF Spend, IInv, TypeOK
  <2>2. left[m] <= Budget[m]
    BY DEF Within
  <2>3. left'[m] < Budget[m]
    BY <1>1, <2>1, <2>2
  <2>4. \A n \in Mishaps : left'[n] <= Budget[n]
    BY <1>1, <2>1, <2>3 DEF Within
  <2> QED BY <1>1, <2>3, <2>4 DEF Within
<1>3. ASSUME UNCHANGED left, CalmNext PROVE Within' /\ (left' = Budget => left = Budget /\ CalmNext)
  BY <1>3 DEF Within
<1> USE DEF Mishaps
<1>4. CASE \E r \in Runs : Drive(r)
  <2>1. UNCHANGED left
    BY <1>4 DEF Drive, Start, UpdateRunning, PublishStarted, HandlerDone, HandlerRaise, Timeout,
                UpdateCompleted, PublishCompleted, BroadcastCompleted, UpdateCancelled,
                PublishCancelled, UpdateFailed, PublishFailed, Flush, Update, Publish
  <2> QED BY <1>3, <1>4, <2>1 DEF CalmNext
<1>5. CASE \E q \in Requesters : Execute(q)
  <2>1. UNCHANGED left
    BY <1>5 DEF Execute, FindByKey, FindActive, CreateRun, RaceActive, RaceKey, Spawn, Lookup
  <2> QED BY <1>3, <1>5, <2>1 DEF CalmNext
<1>6. CASE \E c \in Calls, a \in Assistants, k \in Keys \cup {NoKey}, v \in Vias : Call(c, a, k, v)
  <2>1. UNCHANGED left /\ CalmNext
    BY <1>6, IdsAssumption DEF Call, Enter, CalmNext, Requesters
  <2> QED BY <1>3, <2>1
<1>7. CASE \E r \in Runs, a \in Assistants, v \in Vias : Nested(r, a, v)
  <2>1. UNCHANGED left /\ CalmNext
    BY <1>7, IdsAssumption DEF Nested, Enter, CalmNext, Requesters
  <2> QED BY <1>3, <2>1
<1>8. CASE UNCHANGED vars
  BY <1>3, <1>8 DEF CalmNext, vars
<1>9. CASE \E q \in Requesters : RequestFault(q)
  BY <1>2, <1>9 DEF RequestFault
<1>10. CASE \E r \in Runs : Cancel(r) \/ DriverFault(r)
  BY <1>2, <1>10 DEF Cancel, DriverFault
<1>11. CASE Crash \/ DeleteThread
  BY <1>2, <1>11 DEF Crash, DeleteThread
<1> QED BY <1>4, <1>5, <1>6, <1>7, <1>8, <1>9, <1>10, <1>11 DEF Next

\* What a driver's step makes of its place and its row.
LEMMA CalmDrive ==
  ASSUME IInv, FlushEnded, NEW r \in Runs, Drive(r)
  PROVE  /\ \A o \in Runs : o # r => task'[o] = task[o] /\ status'[o] = status[o]
         /\ task'[r] \in {"flush", "done"} => status'[r] \notin Active
         /\ task'[r] \in LivePcs \cup {"done"}
<1> USE DEF LivePcs, TryPcs, ExceptPcs
<1>1. ASSUME NEW to \in {"setRunning", "setCompleted", "setFailed"},
             task' = [task EXCEPT ![r] = to], UNCHANGED status
      PROVE  /\ \A o \in Runs : o # r => task'[o] = task[o] /\ status'[o] = status[o]
             /\ task'[r] \in {"flush", "done"} => status'[r] \notin Active
             /\ task'[r] \in LivePcs \cup {"done"}
  BY <1>1 DEF IInv, TypeOK
<1>2. ASSUME NEW to \in {"handling", "bcastCompleted", "flush", "done", "setFailed"},
             task' = [task EXCEPT ![r] = to],
             UNCHANGED status, to \in {"flush", "done"} => status[r] \notin Active
      PROVE  /\ \A o \in Runs : o # r => task'[o] = task[o] /\ status'[o] = status[o]
             /\ task'[r] \in {"flush", "done"} => status'[r] \notin Active
             /\ task'[r] \in LivePcs \cup {"done"}
  BY <1>2 DEF IInv, TypeOK
<1>3. ASSUME NEW from \in TryPcs \cup ExceptPcs, NEW s,
             NEW to \in {"pubStarted", "pubCompleted", "pubCancelled", "pubFailed"}, Update(r, from, s, to)
      PROVE  /\ \A o \in Runs : o # r => task'[o] = task[o] /\ status'[o] = status[o]
             /\ task'[r] \in {"flush", "done"} => status'[r] \notin Active
             /\ task'[r] \in LivePcs \cup {"done"}
  <2>1. CASE exists
    BY <1>3, <2>1 DEF Update, Step, IInv, TypeOK
  <2>2. CASE ~exists
    <3>1. status[r] \notin Active
      BY <2>2 DEF IInv, InvRows, Active
    <3>2. Handler(from) \in {"setFailed", "flush"}
      BY DEF Handler
    <3> QED BY <1>2, <1>3, <2>2, <3>1, <3>2 DEF Update, Step
  <2> QED BY <2>1, <2>2
<1>4. ASSUME NEW from \in TryPcs \cup ExceptPcs, NEW e,
             NEW to \in {"handling", "bcastCompleted", "flush"}, Publish(r, from, e, to),
             to = "flush" => from \in OverPcs
      PROVE  /\ \A o \in Runs : o # r => task'[o] = task[o] /\ status'[o] = status[o]
             /\ task'[r] \in {"flush", "done"} => status'[r] \notin Active
             /\ task'[r] \in LivePcs \cup {"done"}
  <2>1. task[r] = from /\ UNCHANGED status
    BY <1>4 DEF Publish, Step, rows
  <2>2. CASE exists
    BY <1>2, <1>4, <2>1, <2>2 DEF Publish, Step, IInv, InvOver
  <2>3. CASE ~exists
    <3>1. status[r] \notin Active
      BY <2>3 DEF IInv, InvRows, Active
    <3>2. Handler(from) \in {"setFailed", "flush"}
      BY DEF Handler
    <3> QED BY <1>2, <1>4, <2>1, <2>3, <3>1, <3>2 DEF Publish, Step
  <2> QED BY <2>2, <2>3
<1>5. CASE Start(r) \/ HandlerDone(r) \/ HandlerRaise(r) \/ Timeout(r)
  BY <1>1, <1>5 DEF Start, HandlerDone, HandlerRaise, Timeout, Unwind, Step, rows
<1>6. CASE BroadcastCompleted(r)
  <2>1. status[r] \notin Active
    BY <1>6 DEF BroadcastCompleted, Step, IInv, InvOver, OverPcs
  <2> QED BY <1>2, <1>6, <2>1 DEF BroadcastCompleted, Step, rows
<1>7. CASE Flush(r)
  BY <1>2, <1>7 DEF Flush, Step, FlushEnded, rows
<1>8. CASE UpdateRunning(r)
  BY <1>3, <1>8 DEF UpdateRunning
<1>9. CASE UpdateCompleted(r)
  BY <1>3, <1>9 DEF UpdateCompleted
<1>10. CASE UpdateCancelled(r)
  BY <1>3, <1>10 DEF UpdateCancelled
<1>11. CASE UpdateFailed(r)
  BY <1>3, <1>11 DEF UpdateFailed
<1>12. CASE PublishStarted(r)
  BY <1>4, <1>12 DEF PublishStarted
<1>13. CASE PublishCompleted(r)
  BY <1>4, <1>13 DEF PublishCompleted
<1>14. CASE PublishCancelled(r)
  BY <1>4, <1>14 DEF PublishCancelled, OverPcs
<1>15. CASE PublishFailed(r)
  BY <1>4, <1>15 DEF PublishFailed, OverPcs
<1> QED BY <1>5, <1>6, <1>7, <1>8, <1>9, <1>10, <1>11, <1>12, <1>13, <1>14, <1>15 DEF Drive

\* No driver comes to its finally clause past a row that is still active.
LEMMA CalmFlush == ASSUME IInv, FlushEnded, CalmNext PROVE FlushEnded'
<1>1. CASE UNCHANGED <<status, task>>
  BY <1>1 DEF FlushEnded
<1>2. ASSUME NEW q \in Requesters, Execute(q) PROVE FlushEnded'
  <2>1. CASE Spawn(q)
    BY <2>1 DEF Spawn, rows, FlushEnded, IInv, TypeOK, InvSpawn
  <2>2. CASE CreateRun(q)
    <3>1. CASE \E r \in Runs : Insert(q, r)
      <4>1. PICK r \in Runs : Insert(q, r)
        BY <3>1
      <4>2. task[r] = "none" /\ UNCHANGED task /\ \A o \in Runs : o # r => status'[o] = status[o]
        BY <2>2, <4>1 DEF CreateRun, Insert, drivers, IInv, InvRows, TypeOK
      <4> QED BY <4>2 DEF FlushEnded
    <3>2. CASE UNCHANGED rows
      BY <1>1, <2>2, <3>2 DEF CreateRun, drivers, rows
    <3> QED BY <2>2, <3>1, <3>2 DEF CreateRun
  <2>3. CASE ~Spawn(q) /\ ~CreateRun(q)
    BY <1>1, <1>2, <2>3 DEF Execute, FindByKey, FindActive, RaceActive, RaceKey, Lookup, drivers, rows
  <2> QED BY <2>1, <2>2, <2>3
<1>3. ASSUME NEW r \in Runs, Drive(r) PROVE FlushEnded'
  <2>1. /\ \A o \in Runs : o # r => task'[o] = task[o] /\ status'[o] = status[o]
        /\ task'[r] \in {"flush", "done"} => status'[r] \notin Active
    BY <1>3, CalmDrive
  <2> QED BY <2>1 DEF FlushEnded
<1> QED BY <1>1, <1>2, <1>3 DEF CalmNext, Enter, rows, drivers, vars

\* A step without a mishap lets go only of a run whose row has ended.
LEMMA CalmHand ==
  ASSUME IInv, FlushEnded, CalmNext, NEW r \in Runs, InHand(r)
  PROVE  InHand(r)' \/ status'[r] \notin Active
<1>1. ASSUME UNCHANGED task,
             \A c \in Calls : rpc[c] = "spawn" => rpc'[c] = "spawn" /\ answer'[c] = answer[c]
      PROVE  InHand(r)'
  BY <1>1 DEF InHand, Live
<1>2. ASSUME NEW q \in Requesters, Execute(q) PROVE InHand(r)'
  <2>1. CASE Spawn(q)
    <3>1. PICK d \in Runs : d = answer[q]
      BY <2>1 DEF Spawn, IInv, InvSpawn
    <3>2. task'[d] = "ready" /\ \A o \in Runs : o # d => task'[o] = task[o]
      BY <2>1, <3>1 DEF Spawn, IInv, TypeOK
    <3>3. \A c \in Requesters : c # q => rpc'[c] = rpc[c] /\ answer'[c] = answer[c]
      BY <2>1 DEF Spawn, Goto, IInv, TypeOK
    <3>4. CASE r = d
      BY <3>2, <3>4 DEF InHand, Live, LivePcs
    <3>5. CASE r # d
      BY <3>1, <3>2, <3>3, <3>5 DEF InHand, Live, Requesters
    <3> QED BY <3>4, <3>5
  <2>2. CASE ~Spawn(q)
    <3>1. UNCHANGED task /\ rpc[q] # "spawn"
      BY <1>2, <2>2 DEF Execute, FindByKey, FindActive, CreateRun, RaceActive, RaceKey, Lookup, drivers
    <3>2. \A c \in Requesters : c # q => rpc'[c] = rpc[c] /\ answer'[c] = answer[c]
      BY <1>2, <2>2 DEF Execute, FindByKey, FindActive, CreateRun, RaceActive, RaceKey, Lookup, Goto,
                        Insert, IInv, TypeOK
    <3> QED BY <1>1, <3>1, <3>2 DEF Requesters
  <2> QED BY <2>1, <2>2
<1>3. ASSUME NEW d \in Runs, Drive(d) PROVE InHand(r)' \/ status'[r] \notin Active
  <2>1. \A c \in Calls : rpc[c] = "spawn" => rpc'[c] = "spawn" /\ answer'[c] = answer[c]
    <3>1. CASE UNCHANGED requests
      BY <3>1 DEF requests
    <3>2. CASE HandlerRaise(d) \/ Timeout(d)
      BY <3>2, IdsAssumption DEF HandlerRaise, Timeout, Unwind, IInv, TypeOK, Requesters
    <3> QED BY <1>3, <3>1, <3>2
            DEF Drive, Start, UpdateRunning, PublishStarted, HandlerDone, UpdateCompleted,
                PublishCompleted, BroadcastCompleted, UpdateCancelled, PublishCancelled, UpdateFailed,
                PublishFailed, Flush, Update, Publish
  <2>2. /\ \A o \in Runs : o # d => task'[o] = task[o]
        /\ task'[d] \in {"flush", "done"} => status'[d] \notin Active
        /\ task'[d] \in LivePcs \cup {"done"}
    BY <1>3, CalmDrive
  <2>3. CASE \E c \in Calls : rpc[c] = "spawn" /\ answer[c] = r
    BY <2>1, <2>3 DEF InHand
  <2>4. CASE Live(r)
    BY <2>2, <2>4 DEF InHand, Live
  <2> QED BY <2>3, <2>4 DEF InHand
<1>4. ASSUME NEW q \in Requesters, NEW a \in Assistants, NEW k \in Keys \cup {NoKey}, NEW v \in Vias,
             Enter(q, a, k, v), q \in Calls => rpc[q] = "idle"
      PROVE  InHand(r)'
  BY <1>1, <1>4 DEF Enter, drivers, IInv, TypeOK, Requesters
<1>5. CASE UNCHANGED vars
  BY <1>1, <1>5 DEF vars, drivers, requests
<1> QED BY <1>2, <1>3, <1>4, <1>5 DEF CalmNext

\* A run that somebody has in hand is not let go of before its row has ended,
\* unless a mishap strikes; with DriversAdvance and fairness this is RunEnds.
THEOREM HandKept == Spec => StaysInHand
<1>1. Init => CalmInv
  BY BoundsAssumption DEF Init, CalmInv, Within, FlushEnded
<1>2. IInv /\ CalmInv /\ [Next]_vars => CalmInv'
  BY CalmStep, CalmFlush DEF CalmInv
<1>3. IInv /\ CalmInv /\ [Next]_vars =>
        [\A r \in Runs : InHand(r) /\ left' = Budget => InHand(r)' \/ status'[r] \notin Active]_vars
  BY CalmStep, CalmHand DEF CalmInv
<1> QED BY <1>1, <1>2, <1>3, Invariance, PTL DEF Spec, StaysInHand
=============================================================================
