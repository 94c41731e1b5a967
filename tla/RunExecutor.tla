---------------------------- MODULE RunExecutor ----------------------------
(***************************************************************************)
(* RunExecutor (handler/executor.py) for one thread: the rows of table     *)
(* runs with their two unique indexes, the coroutines that are inside      *)
(* execute(), the task that drives each run, and the lifecycle events each *)
(* run has appended to the thread's log.                                   *)
(*                                                                         *)
(* The event loop switches coroutines at an await and nowhere else, so an  *)
(* action is the code between two awaits together with the one store call  *)
(* it waited for.  A coroutine interrupted after its call was committed    *)
(* stands where one interrupted before its next call stands.               *)
(***************************************************************************)
EXTENDS Naturals, Sequences, FiniteSets

CONSTANTS Runs,           \* the ids execute() may draw
          Calls,          \* external calls of execute(): REST, socket, a posted message
          Assistants, Keys,
          NoKey, NoRun, NoAssistant,
          MaxChainDepth,  \* MAX_AUTO_INVOKE_CHAIN_DEPTH
          Budget          \* Budget[m]: bound on the mishaps of kind m

Mishaps == {"cancel", "fault", "crash", "delete"}

ASSUME IdsAssumption == /\ Assistants # {}
                        /\ NoKey \notin Keys
                        /\ NoRun \notin Runs
                        /\ NoAssistant \notin Assistants
                        /\ Runs \cap Calls = {}
ASSUME BoundsAssumption == /\ MaxChainDepth \in Nat
                           /\ Budget \in [Mishaps -> Nat]

VARIABLES
  exists,       \* the thread's row is there; deleting it cascades to runs and events
  status,       \* status[r]: column status, "absent" before the insert
  assistantOf,  \* column assistant
  keyOf,        \* column idempotency_key
  rpc,          \* rpc[q]: where requester q is inside execute()
  ask,          \* ask[q]: the arguments of q's current execute()
  answer,       \* answer[q]: the run q inserted or was given
  task,         \* task[r]: where the driver of r is inside _drive()
  tasks,        \* the ids in _tasks
  chainDepths,  \* _chain_depths, 0 when there is no entry
  log,          \* log[r]: the lifecycle events of r, in the order appended
  left          \* left[m]: mishaps of kind m that may still happen

rows == <<exists, status, assistantOf, keyOf>>
requests == <<rpc, ask, answer>>
drivers == <<task, tasks, chainDepths>>
vars == <<rows, requests, drivers, log, left>>

-----------------------------------------------------------------------------
Active == {"pending", "running"}
Terminal == {"completed", "failed", "cancelled"}
Statuses == {"absent", "deleted"} \cup Active \cup Terminal

\* A handler calls execute() too, from inside its own run.
Requesters == Calls \cup Runs
Vias == {"api", "recipients", "ctx"}
Asks == [assistant : Assistants, key : Keys \cup {NoKey}, via : Vias]

DbPcs == {"byKey", "byActive", "create", "raceActive", "raceKey"}
RequestPcs == {"idle", "spawn", "returned", "raised"} \cup DbPcs
InExecute(q) == rpc[q] \in DbPcs \cup {"spawn"}

TryPcs == {"setRunning", "pubStarted", "handling",
           "setCompleted", "pubCompleted", "bcastCompleted"}
ExceptPcs == {"setCancelled", "pubCancelled", "setFailed", "pubFailed"}
LivePcs == {"ready", "flush"} \cup TryPcs \cup ExceptPcs
TaskPcs == {"none", "done"} \cup LivePcs
Live(r) == task[r] \in LivePcs

Events == {"started", "completed", "failed", "cancelled"}

Row(r) == status[r] \in Active \cup Terminal

Init == /\ exists = TRUE
        /\ status = [r \in Runs |-> "absent"]
        /\ assistantOf = [r \in Runs |-> NoAssistant]
        /\ keyOf = [r \in Runs |-> NoKey]
        /\ rpc = [q \in Requesters |-> "idle"]
        /\ ask \in [Requesters -> {[assistant |-> CHOOSE a \in Assistants : TRUE,
                                    key |-> NoKey, via |-> "api"]}]
        /\ answer = [q \in Requesters |-> NoRun]
        /\ task = [r \in Runs |-> "none"]
        /\ tasks = {}
        /\ chainDepths = [r \in Runs |-> 0]
        /\ log = [r \in Runs |-> <<>>]
        /\ left = Budget

Spend(m) == left[m] > 0 /\ left' = [left EXCEPT ![m] = @ - 1]

-----------------------------------------------------------------------------
(* execute(): one action per store call.                                   *)

Enter(q, a, k, v) ==
  /\ rpc' = [rpc EXCEPT ![q] = IF k = NoKey THEN "byActive" ELSE "byKey"]
  /\ ask' = [ask EXCEPT ![q] = [assistant |-> a, key |-> k, via |-> v]]
  /\ answer' = [answer EXCEPT ![q] = NoRun]
  /\ UNCHANGED <<rows, drivers, log, left>>

\* There is an unused id for every coroutine inside execute().
SpareRun == Cardinality({r \in Runs : status[r] = "absent"})
              > Cardinality({q \in Requesters : InExecute(q) /\ rpc[q] # "spawn"})

Call(c, a, k, v) ==
  /\ exists /\ rpc[c] = "idle" /\ SpareRun
  /\ v = "api" \/ (v = "recipients" /\ k = NoKey)
  /\ Enter(c, a, k, v)

Goto(q, pc) == rpc' = [rpc EXCEPT ![q] = pc] /\ UNCHANGED <<ask, answer>>

\* Mutant: a run that was found is driven again.
LookupDriven(q, found, pc) ==
  /\ \/ found = {} /\ Goto(q, pc)
     \/ \E r \in found : /\ rpc' = [rpc EXCEPT ![q] = "spawn"]
                         /\ answer' = [answer EXCEPT ![q] = r]
                         /\ UNCHANGED ask
  /\ UNCHANGED <<rows, drivers, log, left>>

\* A lookup by q: return a row of the set found, or go on to pc.
Lookup(q, found, pc) ==
  /\ \/ /\ found = {}
        /\ Goto(q, pc)
     \/ \E r \in found :
          /\ rpc' = [rpc EXCEPT ![q] = "returned"]
          /\ answer' = [answer EXCEPT ![q] = r]
          /\ UNCHANGED ask
  /\ UNCHANGED <<rows, drivers, log, left>>

WithKey(k) == {r \in Runs : Row(r) /\ keyOf[r] = k /\ k # NoKey}
\* Mutant: any assistant's active run is as good.
ActiveOfAny(a) == {r \in Runs : status[r] \in Active}
ActiveOf(a) == {r \in Runs : status[r] \in Active /\ assistantOf[r] = a}

FindByKey(q) == rpc[q] = "byKey" /\ Lookup(q, WithKey(ask[q].key), "byActive")
\* Mutant: wait for the active run instead of returning it.
FindActiveWaits(q) ==
  /\ rpc[q] = "byActive" /\ ActiveOf(ask[q].assistant) = {}
  /\ Lookup(q, {}, "create")
FindActive(q) == rpc[q] = "byActive" /\ Lookup(q, ActiveOf(ask[q].assistant), "create")

\* Mutants: without the index on active runs; without the index on keys; with
\* an index that forgets pending runs.
ConflictKeyOnly(q) == WithKey(ask[q].key) # {}
ConflictActiveOnly(q) == ActiveOf(ask[q].assistant) # {}
ConflictRunning(q) == \/ WithKey(ask[q].key) # {}
                      \/ \E r \in ActiveOf(ask[q].assistant) : status[r] = "running"

\* The indexes runs_idempotency and runs_active_per_assistant refuse the row.
Conflict(q) == WithKey(ask[q].key) # {} \/ ActiveOf(ask[q].assistant) # {}

Insert(q, r) ==
  /\ status[r] = "absent"
  /\ status' = [status EXCEPT ![r] = "pending"]
  /\ assistantOf' = [assistantOf EXCEPT ![r] = ask[q].assistant]
  /\ keyOf' = [keyOf EXCEPT ![r] = ask[q].key]
  /\ rpc' = [rpc EXCEPT ![q] = "spawn"]
  /\ answer' = [answer EXCEPT ![q] = r]
  /\ UNCHANGED <<exists, ask>>

\* Only UniqueViolationError is caught; a foreign key violation leaves execute().
CreateRun(q) ==
  /\ rpc[q] = "create"
  /\ \/ ~exists /\ Goto(q, "raised") /\ UNCHANGED rows
     \/ exists /\ Conflict(q) /\ Goto(q, "raceActive") /\ UNCHANGED rows
     \/ exists /\ ~Conflict(q) /\ \E r \in Runs : Insert(q, r)
  /\ UNCHANGED <<drivers, log, left>>

RaceActive(q) ==
  /\ rpc[q] = "raceActive"
  /\ Lookup(q, ActiveOf(ask[q].assistant),
            IF ask[q].key = NoKey THEN "raised" ELSE "raceKey")

RaceKey(q) == rpc[q] = "raceKey" /\ Lookup(q, WithKey(ask[q].key), "raised")

\* chain_depth as _auto_invoke_recipients and invoke_from_handler compute it.
Depth(q) == IF ask[q].via # "recipients" THEN 0
            ELSE IF q \in Runs THEN chainDepths[q] + 1 ELSE 1

\* Mutant: the driver is registered under its requester.
SpawnUnderRequester(q) ==
  /\ rpc[q] = "spawn"
  /\ chainDepths' = [chainDepths EXCEPT ![answer[q]] = Depth(q)]
  /\ task' = [task EXCEPT ![answer[q]] = "ready"]
  /\ tasks' = tasks \cup {q}
  /\ Goto(q, "returned")
  /\ UNCHANGED <<rows, log, left>>

Spawn(q) ==
  /\ rpc[q] = "spawn"
  /\ chainDepths' = [chainDepths EXCEPT ![answer[q]] = Depth(q)]
  /\ task' = [task EXCEPT ![answer[q]] = "ready"]
  /\ tasks' = tasks \cup {answer[q]}
  /\ Goto(q, "returned")
  /\ UNCHANGED <<rows, log, left>>

\* A store call of execute() fails, or its answer is lost.
RequestFault(q) ==
  /\ InExecute(q)
  /\ Spend("fault")
  /\ Goto(q, "raised")
  /\ UNCHANGED <<rows, drivers, log>>

-----------------------------------------------------------------------------
(* _drive(): try, except, finally.                                         *)

Step(r, from, to) == task[r] = from /\ task' = [task EXCEPT ![r] = to]

\* Where an exception raised at pc is handled.
Handler(pc) == IF pc \in TryPcs THEN "setFailed" ELSE "flush"

\* Mutant: keep trying to update a row that is gone.
UpdateRetried(r, from, s, to) ==
  /\ exists
  /\ Step(r, from, to)
  /\ status' = [status EXCEPT ![r] = s]
  /\ UNCHANGED <<exists, assistantOf, keyOf, requests, tasks, chainDepths, log, left>>

\* update_run_status raises LookupError when the row went with its thread.
Update(r, from, s, to) ==
  /\ Step(r, from, IF exists THEN to ELSE Handler(from))
  /\ status' = IF exists THEN [status EXCEPT ![r] = s] ELSE status
  /\ UNCHANGED <<exists, assistantOf, keyOf, requests, tasks, chainDepths, log, left>>

\* publish_event appends to the log first; an event of a deleted thread is refused.
Publish(r, from, e, to) ==
  /\ Step(r, from, IF exists THEN to ELSE Handler(from))
  /\ log' = IF exists THEN [log EXCEPT ![r] = Append(@, e)] ELSE log
  /\ UNCHANGED <<rows, requests, tasks, chainDepths, left>>

Start(r) == /\ Step(r, "ready", "setRunning")
            /\ UNCHANGED <<rows, requests, tasks, chainDepths, log, left>>

UpdateRunning(r) == Update(r, "setRunning", "running", "pubStarted")
PublishStarted(r) == Publish(r, "pubStarted", "started", "handling")

\* An error inside _auto_invoke_recipients is raised in _consume, not in the
\* handler: the handler cannot catch it.
Doomed(r) == rpc[r] = "raised" /\ ask[r].via = "recipients"

\* ctx.invoke, or the handler yields a message with an assistant among its recipients.
Nested(r, a, v) ==
  /\ task[r] = "handling" /\ ~InExecute(r) /\ ~Doomed(r)
  /\ exists /\ SpareRun
  /\ \/ v = "ctx"
     \/ /\ v = "recipients"
        /\ a # assistantOf[r]
        /\ chainDepths[r] < MaxChainDepth
  /\ Enter(r, a, NoKey, v)

\* Mutant: run.completed is published before the row is updated.
HandlerDonePublishes(r) ==
  /\ ~InExecute(r) /\ ~Doomed(r)
  /\ Step(r, "handling", "pubCompleted")
  /\ UNCHANGED <<rows, requests, tasks, chainDepths, log, left>>

HandlerDone(r) ==
  /\ ~InExecute(r) /\ ~Doomed(r)
  /\ Step(r, "handling", "setCompleted")
  /\ UNCHANGED <<rows, requests, tasks, chainDepths, log, left>>

\* An exception or a cancellation thrown into the driver drops the execute()
\* the handler was waiting for.
Unwind(r, to) ==
  /\ task' = [task EXCEPT ![r] = to]
  /\ rpc' = [rpc EXCEPT ![r] = "idle"]
  /\ answer' = [answer EXCEPT ![r] = NoRun]
  /\ UNCHANGED <<rows, ask, tasks, chainDepths, log>>

\* Mutant: an exception of the handler goes straight to the finally clause.
HandlerRaiseUncaught(r) ==
  /\ task[r] = "handling" /\ ~InExecute(r)
  /\ Unwind(r, "flush") /\ UNCHANGED left

HandlerRaise(r) ==
  /\ task[r] = "handling" /\ ~InExecute(r)
  /\ Unwind(r, "setFailed") /\ UNCHANGED left

\* wait_for cuts the handler off wherever it waits.
Timeout(r) ==
  /\ task[r] = "handling"
  /\ Unwind(r, "setFailed") /\ UNCHANGED left

UpdateCompleted(r) == Update(r, "setCompleted", "completed", "pubCompleted")
PublishCompleted(r) == Publish(r, "pubCompleted", "completed", "bcastCompleted")

\* Mutant: the driver leaves _tasks before its event is broadcast.
BroadcastCompletedPops(r) ==
  /\ Step(r, "bcastCompleted", "flush")
  /\ tasks' = tasks \ {r}
  /\ UNCHANGED <<rows, requests, chainDepths, log, left>>

\* run.completed is in the log and being broadcast, still inside the try.
BroadcastCompleted(r) ==
  /\ Step(r, "bcastCompleted", "flush")
  /\ UNCHANGED <<rows, requests, tasks, chainDepths, log, left>>

UpdateCancelled(r) == Update(r, "setCancelled", "cancelled", "pubCancelled")

\* Mutant: a cancelled run is announced as a failed one.
PublishCancelledAsFailed(r) == Publish(r, "pubCancelled", "failed", "flush")

PublishCancelled(r) == Publish(r, "pubCancelled", "cancelled", "flush")
UpdateFailed(r) == Update(r, "setFailed", "failed", "pubFailed")
PublishFailed(r) == Publish(r, "pubFailed", "failed", "flush")

\* finally: analytics.flush(), then the two pops.
Flush(r) ==
  /\ Step(r, "flush", "done")
  /\ tasks' = tasks \ {r}
  /\ chainDepths' = [chainDepths EXCEPT ![r] = 0]
  /\ UNCHANGED <<rows, requests, log, left>>

-----------------------------------------------------------------------------
(* What interrupts a driver.                                               *)

\* cancel() throws CancelledError at the await the driver is suspended on.  A
\* task that has not taken its first step never enters _drive; an except or a
\* finally clause is abandoned where it stands.
Interrupted(pc) == IF pc \in TryPcs THEN "setCancelled"
                   ELSE IF pc \in ExceptPcs THEN "flush" ELSE "done"

Cancel(r) ==
  /\ r \in tasks /\ Live(r)
  /\ Spend("cancel")
  /\ Unwind(r, Interrupted(task[r]))

\* A store call, a broadcast or the analytics callback of the driver fails.
DriverFault(r) ==
  /\ Live(r) /\ task[r] # "ready"
  /\ Spend("fault")
  /\ Unwind(r, IF task[r] = "flush" THEN "done" ELSE Handler(task[r]))

\* The process stops and is started again: rows and log stay, memory is gone,
\* and nothing looks at the rows it left behind.
Crash ==
  /\ Spend("crash")
  /\ task' = [r \in Runs |-> IF Live(r) THEN "none" ELSE task[r]]
  /\ tasks' = {}
  /\ chainDepths' = [r \in Runs |-> 0]
  /\ rpc' = [q \in Requesters |-> IF InExecute(q) THEN "raised" ELSE rpc[q]]
  /\ UNCHANGED <<rows, ask, answer, log>>

\* delete_thread cascades to the runs and the events.
DeleteThread ==
  /\ exists
  /\ Spend("delete")
  /\ exists' = FALSE
  /\ status' = [r \in Runs |-> IF Row(r) THEN "deleted" ELSE status[r]]
  /\ log' = [r \in Runs |-> <<>>]
  /\ UNCHANGED <<assistantOf, keyOf, requests, drivers>>

-----------------------------------------------------------------------------
Execute(q) == \/ FindByKey(q) \/ FindActive(q) \/ CreateRun(q)
              \/ RaceActive(q) \/ RaceKey(q) \/ Spawn(q)

Drive(r) == \/ Start(r) \/ UpdateRunning(r) \/ PublishStarted(r)
            \/ HandlerDone(r) \/ HandlerRaise(r) \/ Timeout(r)
            \/ UpdateCompleted(r) \/ PublishCompleted(r) \/ BroadcastCompleted(r)
            \/ UpdateCancelled(r) \/ PublishCancelled(r)
            \/ UpdateFailed(r) \/ PublishFailed(r) \/ Flush(r)

Next == \/ \E c \in Calls, a \in Assistants, k \in Keys \cup {NoKey}, v \in Vias :
             Call(c, a, k, v)
        \/ \E q \in Requesters : Execute(q) \/ RequestFault(q)
        \/ \E r \in Runs : \/ Drive(r) \/ Cancel(r) \/ DriverFault(r)
                           \/ \E a \in Assistants, v \in Vias : Nested(r, a, v)
        \/ Crash \/ DeleteThread

Spec == Init /\ [][Next]_vars

\* The event loop runs every coroutine that is not waiting, the store answers,
\* and wait_for bounds how long a handler waits.
Fairness == /\ \A q \in Requesters : WF_vars(Execute(q))
            /\ \A r \in Runs : WF_vars(Drive(r))

FairSpec == Spec /\ Fairness

-----------------------------------------------------------------------------
TypeOK == /\ exists \in BOOLEAN
          /\ status \in [Runs -> Statuses]
          /\ assistantOf \in [Runs -> Assistants \cup {NoAssistant}]
          /\ keyOf \in [Runs -> Keys \cup {NoKey}]
          /\ rpc \in [Requesters -> RequestPcs]
          /\ ask \in [Requesters -> Asks]
          /\ answer \in [Requesters -> Runs \cup {NoRun}]
          /\ task \in [Runs -> TaskPcs]
          /\ tasks \subseteq Runs
          /\ chainDepths \in [Runs -> Nat]
          /\ log \in [Runs -> Seq(Events)]
          /\ left \in [Mishaps -> Nat]

\* No two handlers of one assistant are ever at work in the thread at once,
\* whatever races through execute() and whatever interrupts the drivers.
HandlerExclusion ==
  \A r, o \in Runs : task[r] = "handling" /\ task[o] = "handling"
                       /\ assistantOf[r] = assistantOf[o] => r = o

Finished(r) == \E i \in DOMAIN log[r] : log[r][i] \in Terminal

\* Whoever sees a run finish in the log may invoke its assistant again: the
\* run no longer occupies it (_drive writes the row before it publishes).
FinishedMeansFree == \A r \in Runs : Finished(r) => status[r] \notin Active

\* The driver publishes run.started first and once, run.completed only after
\* it, and never completes what it has failed or cancelled.
LogShape ==
  \A r \in Runs : \A i \in DOMAIN log[r] :
    /\ log[r][i] = "started" => i = 1
    /\ log[r][i] = "completed" => i = 2 /\ log[r][1] = "started"
    /\ log[r][i] \in {"failed", "cancelled"} => i = Len(log[r])

\* Of all the requests that race with one idempotency key, one inserts a run.
OneRunPerKey ==
  \A r, o \in Runs : Row(r) /\ Row(o) /\ keyOf[r] = keyOf[o] /\ keyOf[r] # NoKey => r = o

\* A request without a key is given a run of the assistant it asked for, whoever
\* wins the race for the slot.  Nothing is claimed of a request with a key: it is
\* given whatever run carries the key, another assistant's too, where the client
\* documents a conflict (ThreadClient.ts:59-63).
AnswerServes ==
  \A q \in Requesters :
    rpc[q] = "returned" /\ ask[q].key = NoKey => assistantOf[answer[q]] = ask[q].assistant

\* A driver that still has something to do can be found in _tasks, so that
\* cancel() reaches it.
LiveDriverCancellable == \A r \in Runs : Live(r) => r \in tasks

\* A finished run is never taken up again.
NeverReactivated ==
  [][\A r \in Runs : status[r] \in Terminal => status'[r] \notin Active]_vars

-----------------------------------------------------------------------------
\* Every driver comes to its end, interrupted or not.
DriverEnds == \A r \in Runs : Live(r) ~> ~Live(r)

\* Every execute() is answered, with a run or an exception.
ExecuteEnds == \A q \in Requesters : InExecute(q) ~> ~InExecute(q)

\* Every run a client's call created reaches a terminal status, unless a mishap
\* strikes somewhere.
RunEnds == \A r \in Runs : (\E c \in Calls : rpc[c] = "spawn" /\ answer[c] = r)
                             ~> status[r] \in Terminal \/ left # Budget

-----------------------------------------------------------------------------
(* What the repository says of runs and the code does not do.              *)

\* README.md: a run ends completed, failed or cancelled; the status it ends
\* with is the status it keeps.
TerminalIsFinal ==
  [][\A r \in Runs : status[r] \in Terminal => status'[r] \in {status[r], "deleted"}]_vars

\* test_executor.py, test_cancel_emits_run_cancelled: once a cancelled task is
\* over, its run is cancelled (or had already ended).
DoneMeansEnded == \A r \in Runs : task[r] = "done" => status[r] \notin Active

-----------------------------------------------------------------------------
(* The executor implements AssistantSlot.                                  *)

phase == [r \in Runs |-> IF task[r] = "handling" THEN "working"
                         ELSE IF status[r] \in Active THEN "holding"
                         ELSE IF status[r] = "absent" THEN "new" ELSE "left"]

Slot == INSTANCE AssistantSlot WITH slot <- assistantOf, closed <- ~exists

\* A run takes its assistant only while nobody has it, its handler works only
\* while it has it, and a run that has let go never comes back.
SlotSpec == Slot!SlotSpec

-----------------------------------------------------------------------------
(* The executor implements RunRecord.                                      *)

Record == INSTANCE RunRecord WITH gone <- ~exists

\* Row and log agree whatever races and breaks: the log says "started" only of
\* a running row and how a run ended only after the row does and in its words,
\* a finished row is touched again only to take back a completion, and a
\* failure or a cancellation in the log is final.
RecordSpec == Record!RecordSpec
=============================================================================
