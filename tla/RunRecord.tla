----------------------------- MODULE RunRecord -----------------------------
(***************************************************************************)
(* What the database says of the runs of one thread, for whoever reads it: *)
(* the status of a run, and its lifecycle events in the thread's log.  No  *)
(* task, no request and no mishap is in sight.  RunExecutor is shown to    *)
(* implement this module.                                                  *)
(***************************************************************************)
EXTENDS Sequences

CONSTANT Runs

VARIABLES status,  \* status[r]: column status, "absent" before the insert
          log,     \* log[r]: the lifecycle events of r, in the order appended
          gone     \* the thread has been deleted, with its runs and its log

recordVars == <<status, log, gone>>

Unfinished == {"pending", "running"}
Ends == {"completed", "failed", "cancelled"}

Told(r, e) == \E i \in DOMAIN log[r] : log[r][i] = e

RecordInit == /\ status = [r \in Runs |-> "absent"]
              /\ log = [r \in Runs |-> <<>>]
              /\ gone = FALSE

Become(r, s) == status' = [status EXCEPT ![r] = s] /\ UNCHANGED <<log, gone>>
Tell(r, e) == log' = [log EXCEPT ![r] = Append(@, e)] /\ UNCHANGED <<status, gone>>

Insert(r) == ~gone /\ status[r] = "absent" /\ Become(r, "pending")

Begin(r) == status[r] = "pending" /\ Become(r, "running")

\* The log says that a run started only while the row says that it runs.
TellStarted(r) == status[r] = "running" /\ log[r] = <<>> /\ Tell(r, "started")

\* A run fails or is cancelled wherever it is, and completes only after the log
\* has said that it started.
Finish(r, s) == /\ status[r] \in Unfinished
                /\ s = "completed" => status[r] = "running" /\ log[r] = <<"started">>
                /\ Become(r, s)

\* The one correction of a finished run: its completion did not get through.
Revise(r, s) == status[r] = "completed" /\ s # "completed" /\ Become(r, s)

\* The log says how a run ended after the row does, in the row's words; a
\* failure or a cancellation is the last it says.
TellEnd(r) == /\ status[r] \in Ends
              /\ ~Told(r, status[r]) /\ ~Told(r, "failed") /\ ~Told(r, "cancelled")
              /\ status[r] = "completed" => log[r] = <<"started">>
              /\ Tell(r, status[r])

\* The thread goes, and takes rows and log along.
Drop == /\ ~gone
        /\ gone' = TRUE
        /\ status' = [r \in Runs |-> IF status[r] = "absent" THEN "absent" ELSE "deleted"]
        /\ log' = [r \in Runs |-> <<>>]

RecordNext == \/ Drop
              \/ \E r \in Runs : \/ Insert(r) \/ Begin(r) \/ TellStarted(r) \/ TellEnd(r)
                                 \/ \E s \in Ends : Finish(r, s) \/ Revise(r, s)

RecordSpec == RecordInit /\ [][RecordNext]_recordVars
=============================================================================
