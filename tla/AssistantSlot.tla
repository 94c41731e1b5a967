--------------------------- MODULE AssistantSlot ---------------------------
(***************************************************************************)
(* What the run executor promises about an assistant of one thread, with   *)
(* no database row, task or event log in sight: a run is admitted only     *)
(* while no other run holds its assistant, the assistant's handler works   *)
(* only inside an admitted run, and a run that has left never returns.     *)
(* RunExecutor is shown to implement this module.                          *)
(***************************************************************************)
CONSTANTS Runs, Assistants, NoAssistant

VARIABLES phase,   \* phase[r]: where run r stands towards its assistant
          slot,    \* slot[r]: the assistant run r was admitted for
          closed   \* the thread has been deleted

slotVars == <<phase, slot, closed>>

Phases == {"new", "holding", "working", "left"}

Occupies(r) == phase[r] \in {"holding", "working"}

SlotInit == /\ phase = [r \in Runs |-> "new"]
            /\ slot = [r \in Runs |-> NoAssistant]
            /\ closed = FALSE

\* A new run takes an assistant nobody holds.
Admit(r, a) == /\ phase[r] = "new"
               /\ ~closed
               /\ \A o \in Runs : Occupies(o) => slot[o] # a
               /\ phase' = [phase EXCEPT ![r] = "holding"]
               /\ slot' = [slot EXCEPT ![r] = a]
               /\ UNCHANGED closed

\* The handler of an admitted run starts to work.
Work(r) == /\ phase[r] = "holding"
           /\ phase' = [phase EXCEPT ![r] = "working"]
           /\ UNCHANGED <<slot, closed>>

\* The handler stops. On a deleted thread there is nothing left to hold.
Stop(r) == /\ phase[r] = "working"
           /\ phase' = [phase EXCEPT ![r] = IF closed THEN "left" ELSE "holding"]
           /\ UNCHANGED <<slot, closed>>

\* The run gives its assistant back.
Leave(r) == /\ phase[r] = "holding"
            /\ phase' = [phase EXCEPT ![r] = "left"]
            /\ UNCHANGED <<slot, closed>>

\* The process stops: every handler stops at once, no run gives anything back.
StopAll == /\ phase' = [r \in Runs |-> IF phase[r] # "working" THEN phase[r]
                                       ELSE IF closed THEN "left" ELSE "holding"]
           /\ UNCHANGED <<slot, closed>>

\* The thread is deleted under its runs.
Close == /\ closed' = TRUE
         /\ phase' = [r \in Runs |-> IF phase[r] = "holding" THEN "left" ELSE phase[r]]
         /\ UNCHANGED slot

SlotNext == \/ StopAll \/ Close
            \/ \E r \in Runs : \/ Work(r) \/ Stop(r) \/ Leave(r)
                               \/ \E a \in Assistants : Admit(r, a)

SlotSpec == SlotInit /\ [][SlotNext]_slotVars
=============================================================================
