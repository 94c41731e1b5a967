--------------------------- MODULE StreamContract ---------------------------
(***************************************************************************)
(* What the streams of one run promise a client that listens, with no      *)
(* generator, driver or interrupt in sight: a stream shows text while it   *)
(* is open, gets its final event once and only after a clean end; the run  *)
(* ends, and behind that only the drop of a leftover may follow, and one   *)
(* failure or cancellation of a run that was said to be completed.         *)
(* RunStream is shown to implement this module.                            *)
(***************************************************************************)
EXTENDS Naturals

CONSTANT Streams

VARIABLES phase,  \* phase[s]: what the client knows of stream s
          deltas, \* deltas[s]: the texts it has received for s
          ends    \* ends[o]: the events it has seen that end the run as o

contractVars == <<phase, deltas, ends>>

Phases == {"unseen", "open", "ended", "kept", "dropped"}
Ends == {"completed", "failed", "timeout", "cancelled"}

ContractInit == /\ phase = [s \in Streams |-> "unseen"]
                /\ deltas = [s \in Streams |-> 0]
                /\ ends = [o \in Ends |-> 0]

Over == \E o \in Ends : ends[o] # 0

Move(s, from, to) == /\ phase[s] = from
                     /\ phase' = [phase EXCEPT ![s] = to]
                     /\ UNCHANGED <<deltas, ends>>

\* A placeholder appears, once.
Show(s) == ~Over /\ Move(s, "unseen", "open")

\* Text for a placeholder that is shown.
Text(s) == /\ ~Over /\ phase[s] = "open"
           /\ deltas' = [deltas EXCEPT ![s] = @ + 1]
           /\ UNCHANGED <<phase, ends>>

\* The stream ends, and its event takes the place of the placeholder.
EndWell(s) == ~Over /\ Move(s, "open", "ended")
Keep(s) == ~Over /\ Move(s, "ended", "kept")

\* The stream ends with an error, possibly behind the end of the run.
Drop(s) == Move(s, "open", "dropped")

\* The run ends, for the first time or behind a completion.
Completed == [o \in Ends |-> IF o = "completed" THEN 1 ELSE 0]
EndRun(o) == /\ ~Over \/ (o # "completed" /\ ends = Completed)
             /\ ends' = [ends EXCEPT ![o] = @ + 1]
             /\ UNCHANGED <<phase, deltas>>

ContractNext == \/ \E o \in Ends : EndRun(o)
                \/ \E s \in Streams : Show(s) \/ Text(s) \/ EndWell(s) \/ Keep(s) \/ Drop(s)

ContractSpec == ContractInit /\ [][ContractNext]_contractVars
=============================================================================
