----------------------------- MODULE RunStream -----------------------------
(***************************************************************************)
(* One run whose handler streams (handler/stream.py inside                 *)
(* handler/executor.py): the generator and the streams it has open, the    *)
(* driver that consumes it, and the frames a client of the thread's room   *)
(* sees.  A broadcast puts its frame on the wire and then waits; a cancel, *)
(* a time-out or a failure reaches whoever waits, before the frame is out  *)
(* or behind it.  A handler that is being closed does not go on.           *)
(***************************************************************************)
EXTENDS Naturals, Sequences, FiniteSets, SequencesExt

CONSTANTS Streams,       \* the streams the handler may open, each once
          NoStream,
          MaxDeltas,     \* bound: texts appended to one stream
          MaxYields,     \* bound: events the handler yields
          MaxInterrupts, \* bound: cancels, time-outs and failing broadcasts
          YieldsInside   \* whether the handler yields while a stream is open

ASSUME StreamAssumption == /\ NoStream \notin Streams
                           /\ {MaxDeltas, MaxYields, MaxInterrupts} \subseteq Nat
                           /\ YieldsInside \in BOOLEAN

VARIABLES
  gen,       \* where the handler's generator is
  open,      \* the streams it is inside of, innermost last
  cur,       \* the stream whose __aenter__, append or __aexit__ is waiting
  exc,       \* the exception that travels through the generator
  text,      \* text[s]: the length of _buffer
  driver,    \* where _drive() is
  outcome,   \* the terminal event it is heading for
  wire,      \* the frames and events broadcast, in order
  stored,    \* the streams whose final event is in the log
  yields, interrupts

vars == <<gen, open, cur, exc, text, driver, outcome, wire, stored, yields, interrupts>>

Errors == {"Exception", "TimeoutError"}
Exceptions == Errors \cup {"CancelledError", "GeneratorExit"}
NoExc == "none"

\* Places where the generator waits for the server; the handler's own awaits
\* are part of "running".
Waits == {"starting", "sending", "ending", "appending", "broadcasting", "failing"}
GenPcs == {"running", "unwinding", "yielded", "returned", "raised", "abandoned"} \cup Waits
Outcomes == {"completed", "failed", "timeout", "cancelled"}
Codes == {"cancelled", "timeout", "handler_error"}

Frame(kind, s, code) == [kind |-> kind, stream |-> s, code |-> code]
Emit(kind, s, code) == wire' = Append(wire, Frame(kind, s, code))
On(kind, s) == {i \in DOMAIN wire : wire[i].kind = kind /\ wire[i].stream = s}

Init == /\ gen = "running" /\ driver = "consume" /\ outcome = "completed"
        /\ open = <<>> /\ cur = NoStream /\ exc = NoExc
        /\ text = [s \in Streams |-> 0]
        /\ wire = <<>> /\ stored = {}
        /\ yields = 0 /\ interrupts = 0

\* _error_for(): the code of the error that stream:end carries.
ErrorFor(e) == CASE e = "CancelledError" -> "cancelled"
                 [] e = "TimeoutError" -> "timeout"
                 [] OTHER -> "handler_error"

-----------------------------------------------------------------------------
(* The generator and its context managers.                                 *)

Rest == UNCHANGED <<driver, outcome, yields, interrupts>>

\* __aenter__: stream:start.
Start(s) == /\ gen = "running" /\ driver = "consume" /\ On("start", s) = {}
            /\ Emit("start", s, NoExc)
            /\ gen' = "starting" /\ cur' = s
            /\ UNCHANGED <<open, exc, text, stored>> /\ Rest

Entered == /\ gen = "starting"
           /\ gen' = "running" /\ open' = Append(open, cur) /\ cur' = NoStream
           /\ UNCHANGED <<exc, text, wire, stored>> /\ Rest

\* append: the text is buffered before its delta is sent.
SendDelta(s) == /\ gen = "running" /\ \E i \in DOMAIN open : open[i] = s
                /\ text[s] < MaxDeltas
                /\ text' = [text EXCEPT ![s] = @ + 1]
                /\ Emit("delta", s, NoExc)
                /\ gen' = "sending" /\ cur' = s
                /\ UNCHANGED <<open, exc, stored>> /\ Rest

Sent == /\ gen = "sending"
        /\ gen' = "running" /\ cur' = NoStream
        /\ UNCHANGED <<open, exc, text, wire, stored>> /\ Rest

\* Mutant: __aexit__ publishes the event before it ends the stream.
EndCleanLate == /\ gen = "running" /\ open # <<>>
                /\ gen' = "appending" /\ cur' = Last(open) /\ open' = Front(open)
                /\ UNCHANGED <<exc, text, wire, stored>> /\ Rest

\* __aexit__ without an exception: stream:end, then the final event is stored
\* and broadcast.
EndClean == /\ gen = "running" /\ open # <<>>
            /\ Emit("end", Last(open), NoExc)
            /\ gen' = "ending" /\ cur' = Last(open) /\ open' = Front(open)
            /\ UNCHANGED <<exc, text, stored>> /\ Rest

Ended == /\ gen = "ending"
         /\ gen' = "appending"
         /\ UNCHANGED <<open, cur, exc, text, wire, stored>> /\ Rest

\* Mutant: the id of the stream is lost before the event is built.
AppendFinalAnonymous == /\ gen = "appending"
                        /\ stored' = stored \cup {NoStream}
                        /\ Emit("event", cur, NoExc)
                        /\ gen' = "broadcasting"
                        /\ UNCHANGED <<open, cur, exc, text>> /\ Rest

AppendFinal == /\ gen = "appending"
               /\ stored' = stored \cup {cur}
               /\ Emit("event", cur, NoExc)
               /\ gen' = "broadcasting"
               /\ UNCHANGED <<open, cur, exc, text>> /\ Rest

Published == /\ gen = "broadcasting"
             /\ gen' = "running" /\ cur' = NoStream
             /\ UNCHANGED <<open, exc, text, wire, stored>> /\ Rest

\* Mutant: __aexit__ ends nothing.
EndFailedSilent == /\ gen = "unwinding" /\ open # <<>>
                   /\ gen' = "failing" /\ cur' = Last(open) /\ open' = Front(open)
                   /\ UNCHANGED <<exc, text, wire, stored>> /\ Rest

\* __aexit__ with an exception: stream:end carries it, and it goes on.
EndFailed == /\ gen = "unwinding" /\ open # <<>>
             /\ Emit("end", Last(open), ErrorFor(exc))
             /\ gen' = "failing" /\ cur' = Last(open) /\ open' = Front(open)
             /\ UNCHANGED <<exc, text, stored>> /\ Rest

Failed == /\ gen = "failing"
          /\ gen' = "unwinding" /\ cur' = NoStream
          /\ UNCHANGED <<open, exc, text, wire, stored>> /\ Rest

\* The handler's own code raises, or catches an exception that is not a
\* cancellation and goes on.
Raise(e) == /\ gen = "running" /\ driver = "consume"
            /\ gen' = "unwinding" /\ exc' = e
            /\ UNCHANGED <<open, cur, text, wire, stored>> /\ Rest

Catch == /\ gen = "unwinding" /\ driver = "consume" /\ exc \in Errors
         /\ gen' = "running" /\ exc' = NoExc
         /\ UNCHANGED <<open, cur, text, wire, stored>> /\ Rest

Return == /\ gen = "running" /\ open = <<>>
          /\ gen' = "returned"
          /\ UNCHANGED <<open, cur, exc, text, wire, stored>> /\ Rest

\* The exception leaves the generator for _consume.
Escape == /\ gen = "unwinding" /\ open = <<>>
          /\ gen' = "raised"
          /\ UNCHANGED <<open, cur, exc, text, wire, stored>> /\ Rest

-----------------------------------------------------------------------------
(* The driver.                                                             *)

\* The handler yields an event: the generator is suspended while _consume
\* publishes it.
Yield == /\ gen = "running" /\ driver = "consume" /\ yields < MaxYields
         /\ open = <<>> \/ YieldsInside
         /\ gen' = "yielded" /\ yields' = yields + 1
         /\ UNCHANGED <<open, cur, exc, text, driver, outcome, wire, stored, interrupts>>

PublishYielded == /\ gen = "yielded"
                  /\ gen' = "running"
                  /\ UNCHANGED <<open, cur, exc, text, wire, stored>> /\ Rest

\* _consume is over: try falls through or an except clause is entered.
Outcome(e) == CASE e = NoExc -> "completed"
                [] e = "CancelledError" -> outcome
                [] e = "TimeoutError" -> "timeout"
                [] OTHER -> "failed"

Consumed == /\ driver = "consume" /\ gen \in {"returned", "raised"}
            /\ driver' = "update" /\ outcome' = Outcome(exc)
            /\ UNCHANGED <<gen, open, cur, exc, text, wire, stored, yields, interrupts>>

UpdateRow == /\ driver = "update"
             /\ driver' = "publish"
             /\ UNCHANGED <<gen, open, cur, exc, text, outcome, wire, stored, yields, interrupts>>

PublishTerminal == /\ driver = "publish"
                   /\ Emit(outcome, NoStream, NoExc)
                   /\ driver' = "announce"
                   /\ UNCHANGED <<gen, open, cur, exc, text, outcome, stored, yields, interrupts>>

Announced == /\ driver = "announce"
             /\ driver' = "over"
             /\ UNCHANGED <<gen, open, cur, exc, text, outcome, wire, stored, yields, interrupts>>

\* A generator suspended at its yield is not told of the exception: the event
\* loop closes it, in a task of its own, once nobody refers to it.
Finalize == /\ gen = "abandoned"
            /\ gen' = "unwinding" /\ exc' = "GeneratorExit"
            /\ UNCHANGED <<open, cur, text, wire, stored>> /\ Rest

-----------------------------------------------------------------------------
(* Interrupts.  A cancel or a time-out reaches the generator through the    *)
(* driver that awaits it; wait_for turns a time-out into a CancelledError   *)
(* for the handler.  A failing call raises where it was made.               *)

Spend == interrupts < MaxInterrupts /\ interrupts' = interrupts + 1

\* Where the driver goes from _consume; who closes a generator has no say in it.
ThrowInto(e, o) == /\ Spend
                   /\ gen' = "unwinding" /\ exc' = e /\ cur' = NoStream
                   /\ outcome' = IF driver = "consume" THEN o ELSE outcome
                   /\ UNCHANGED <<driver, wire, yields>>

\* At an await of the handler, or behind a frame that is out.
Waiting(e, o) == /\ gen \in {"running"} \cup Waits
                 /\ ThrowInto(e, o)
                 /\ UNCHANGED <<open, text, stored>>

\* append() is cut off before its delta is out: the text is in the buffer.
DeltaUnsent(e, o) == /\ gen = "running"
                     /\ \E s \in Streams : /\ \E i \in DOMAIN open : open[i] = s
                                           /\ text[s] < MaxDeltas
                                           /\ text' = [text EXCEPT ![s] = @ + 1]
                     /\ ThrowInto(e, o)
                     /\ UNCHANGED <<open, stored>>

\* __aexit__ is cut off before stream:end is out: nobody will send it any more.
EndUnsent(e, o) == /\ gen \in {"running", "unwinding"} /\ open # <<>>
                   /\ open' = Front(open)
                   /\ ThrowInto(e, o)
                   /\ UNCHANGED <<text, stored>>

\* publish_event is cut off between the log and the broadcast.
FinalUnsent(e, o) == /\ gen = "appending"
                     /\ stored' = stored \cup {cur}
                     /\ ThrowInto(e, o)
                     /\ UNCHANGED <<open, text>>

\* A generator suspended at its yield does not hear of it.
Suspended(o) == /\ gen = "yielded" /\ driver = "consume"
                /\ Spend
                /\ gen' = "abandoned" /\ driver' = "update" /\ outcome' = o
                /\ UNCHANGED <<open, cur, exc, text, wire, stored, yields>>

CutGenerator(e, o) == \/ Waiting(e, o) \/ DeltaUnsent(e, o) \/ EndUnsent(e, o)
                      \/ FinalUnsent(e, o) \/ Suspended(o)

\* The driver behind _consume: still inside the try until run.completed has been
\* broadcast, so that an except clause ends the run again; an except clause
\* itself is abandoned.
CutDriver(o) == /\ Spend
                /\ driver \in {"update", "publish", "announce"}
                /\ \/ outcome = "completed" /\ driver' = "update" /\ outcome' = o
                   \/ outcome # "completed" /\ driver' = "over" /\ UNCHANGED outcome
                /\ UNCHANGED <<gen, open, cur, exc, text, wire, stored, yields>>

Cancel == \/ driver = "consume" /\ CutGenerator("CancelledError", "cancelled")
          \/ CutDriver("cancelled")

Timeout == driver = "consume" /\ CutGenerator("CancelledError", "timeout")

\* A broadcast or a store call raises where it was called, in the task that
\* closes a generator too.
Fault(e) == CutGenerator(e, Outcome(e)) \/ CutDriver(Outcome(e))

Stream(s) == Start(s) \/ SendDelta(s)
Proceed == \/ Entered \/ Sent \/ Ended \/ AppendFinal \/ Published
           \/ EndFailed \/ Failed \/ Escape \/ PublishYielded \/ Finalize
           \/ Consumed \/ UpdateRow \/ PublishTerminal \/ Announced
Choose == \/ \E s \in Streams : Stream(s)
          \/ \E e \in Errors : Raise(e)
          \/ EndClean \/ Catch \/ Return \/ Yield

Next == Proceed \/ Choose \/ Cancel \/ Timeout \/ \E e \in Errors : Fault(e)

Spec == Init /\ [][Next]_vars

-----------------------------------------------------------------------------
TypeOK == /\ gen \in GenPcs /\ driver \in {"consume", "update", "publish", "announce", "over"}
          /\ outcome \in Outcomes /\ exc \in Exceptions \cup {NoExc}
          /\ open \in Seq(Streams) /\ cur \in Streams \cup {NoStream}
          /\ text \in [Streams -> 0 .. MaxDeltas]
          /\ \A i \in DOMAIN wire :
               /\ wire[i].kind \in {"start", "delta", "end", "event"} \cup Outcomes
               /\ wire[i].stream \in Streams \cup {NoStream}
               /\ wire[i].code \in Codes \cup {NoExc}
          /\ stored \subseteq Streams
          /\ yields \in 0 .. MaxYields /\ interrupts \in 0 .. MaxInterrupts

Before(I, J) == \A i \in I, j \in J : i < j
AtMostOne(I) == \A i, j \in I : i = j

CleanEnd(s) == {i \in On("end", s) : wire[i].code = NoExc}
Terminals == UNION {On(o, NoStream) : o \in Outcomes}

\* On the wire every stream is one start, then deltas, then at most one end,
\* whoever interrupts its context manager and wherever.
StreamOrder ==
  \A s \in Streams : /\ AtMostOne(On("start", s)) /\ AtMostOne(On("end", s))
                     /\ Before(On("start", s), On("delta", s) \cup On("end", s))
                     /\ Before(On("delta", s), On("end", s))
                     /\ On("delta", s) \cup On("end", s) # {} => On("start", s) # {}

\* The final event follows a clean end: an event is never stored for a stream
\* that a client was told to drop.
FinalFollowsEnd ==
  \A s \in Streams : /\ s \in stored => CleanEnd(s) # {}
                     /\ Before(On("end", s), On("event", s))

ClosedBy(s, I) == On("start", s) # {} => On("end", s) # {} /\ Before(On("end", s), I)

\* Whatever the handler raises, catches or forgets, and whichever of its streams
\* are open then: unless it is interrupted from outside, a client that sees the
\* run end has seen each of its streams end, and after a clean end its event.
WholeUnlessInterrupted ==
  interrupts = 0 /\ Terminals # {} =>
    \A s \in Streams : /\ ClosedBy(s, Terminals)
                       /\ CleanEnd(s) # {} => s \in stored /\ Before(On("event", s), Terminals)

\* A started stream that no context manager will end any more.
Orphan(s) == /\ On("start", s) # {} /\ On("end", s) = {}
             /\ \A i \in DOMAIN open : open[i] # s
             /\ ~(gen = "starting" /\ cur = s)

\* Every placeholder left behind costs an interrupt of its own, wherever it
\* strikes and whatever the handler makes of it: one that finds the stream's
\* start on its way, or its end.
FewOrphans == Cardinality({s \in Streams : Orphan(s)}) <= interrupts

-----------------------------------------------------------------------------
(* The run implements StreamContract.                                       *)

Repeated(s) == \E k \in {"start", "end", "event"} : ~AtMostOne(On(k, s))

phase == [s \in Streams |-> IF Repeated(s) THEN "garbled"
                            ELSE IF On("event", s) # {} THEN "kept"
                            ELSE IF On("start", s) = {} THEN "unseen"
                            ELSE IF On("end", s) = {} THEN "open"
                            ELSE IF CleanEnd(s) # {} THEN "ended" ELSE "dropped"]

Contract == INSTANCE StreamContract WITH deltas <- [s \in Streams |-> Cardinality(On("delta", s))],
                                         ends <- [o \in Outcomes |-> Cardinality(On(o, NoStream))]

\* A client receives text for shown placeholders only and a final event only in
\* the place of a stream that ended cleanly, nothing of it twice; behind an event
\* that ends the run a stream can only be dropped, and the run can only end once
\* more: a completion is taken back by one failure or cancellation, and nothing
\* takes those back.
ContractSpec == Contract!ContractSpec

-----------------------------------------------------------------------------
(* What streaming-design.md says of interrupted runs.                       *)

\* Its invariant 4: a terminal event is broadcast after all open streams of the
\* run have been closed.
ClosedBeforeTerminal == Terminals # {} => \A s \in Streams : ClosedBy(s, Terminals)
=============================================================================
