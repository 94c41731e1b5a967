-------------------------- MODULE RunStreamProofs --------------------------
(* Theorems about RunStream: what is on the wire is told by where the context *)
(* managers are.                                                              *)
EXTENDS RunStream, SequenceTheorems, FiniteSetTheorems, TLAPS

Kinds == {"start", "delta", "end", "event"} \cup Outcomes
Frames == [kind : Kinds, stream : Streams \cup {NoStream}, code : Codes \cup {NoExc}]

Typed == TypeOK /\ wire \in Seq(Frames)

IsOpen(s) == \E i \in DOMAIN open : open[i] = s

\* The streams that are open were started, each once, and have not ended.
InvOpen == /\ \A i, j \in DOMAIN open : open[i] = open[j] => i = j
           /\ \A s \in Streams : IsOpen(s) => On("start", s) # {} /\ On("end", s) = {}

\* A stream that is being entered is on the wire and not open yet; one whose
\* event is about to be stored has ended without an error.
InvCur == /\ gen = "starting" => /\ cur \in Streams /\ ~IsOpen(cur)
                                 /\ On("start", cur) # {} /\ On("end", cur) = {}
          /\ gen \in {"ending", "appending"} => cur \in Streams /\ CleanEnd(cur) # {}

WireInv == /\ StreamOrder /\ FinalFollowsEnd
           /\ \A s \in Streams : On("event", s) # {} => On("end", s) # {}

\* Without an interrupt a stream that was started has ended, is open, or is being
\* entered; what ended cleanly is stored or about to be; and the driver goes on
\* only when the generator is through.
InvWhole ==
  /\ driver = "consume" => Terminals = {}
  /\ interrupts = 0 =>
       /\ \A s \in Streams : On("start", s) # {} /\ On("end", s) = {} => IsOpen(s) \/ (gen = "starting" /\ cur = s)
       /\ \A s \in Streams : CleanEnd(s) # {} => s \in stored \/ (gen \in {"ending", "appending"} /\ cur = s)
       /\ gen \in {"returned", "raised"} => open = <<>>
       /\ driver # "consume" => gen \in {"returned", "raised"}
       /\ gen # "abandoned"
       /\ driver \in {"update", "publish"} => Terminals = {}
       /\ Terminals # {} => \A s \in Streams : /\ ClosedBy(s, Terminals)
                                               /\ Before(On("event", s), Terminals)

SInv == Typed /\ InvOpen /\ InvCur /\ WireInv
IInv == SInv /\ InvWhole

-----------------------------------------------------------------------------
(* The wire.                                                                  *)

\* Frames have their places on the wire.
LEMMA OnWire ==
  ASSUME wire \in Seq(Frames)
  PROVE  /\ Len(wire) \in Nat /\ DOMAIN wire = 1 .. Len(wire)
         /\ \A k, s : On(k, s) \subseteq 1 .. Len(wire)
         /\ \A s : CleanEnd(s) \subseteq On("end", s)
         /\ Terminals \subseteq 1 .. Len(wire)
<1>1. Len(wire) \in Nat /\ DOMAIN wire = 1 .. Len(wire)
  BY LenProperties
<1> QED
  BY <1>1 DEF On, CleanEnd, Terminals

\* A frame is added to its own kind and stream, behind all the others.
LEMMA Emitted ==
  ASSUME wire \in Seq(Frames), NEW k \in Kinds, NEW s \in Streams \cup {NoStream},
         NEW c \in Codes \cup {NoExc}, Emit(k, s, c)
  PROVE  /\ wire' \in Seq(Frames) /\ Len(wire') = Len(wire) + 1
         /\ \A l, t : On(l, t)' = IF l = k /\ t = s THEN On(l, t) \cup {Len(wire) + 1} ELSE On(l, t)
         /\ \A t : CleanEnd(t)' = IF k = "end" /\ t = s /\ c = NoExc THEN CleanEnd(t) \cup {Len(wire) + 1}
                                  ELSE CleanEnd(t)
<1>1. Frame(k, s, c) \in Frames
  BY DEF Frame, Frames
<1>2. PICK f : f = Frame(k, s, c)
  OBVIOUS
<1>3. f.kind = k /\ f.stream = s /\ f.code = c /\ f \in Frames
  BY <1>1, <1>2 DEF Frame
<1>4. /\ wire' \in Seq(Frames) /\ Len(wire') = Len(wire) + 1
      /\ \A i \in 1 .. Len(wire) : wire'[i] = wire[i]
      /\ wire'[Len(wire) + 1] = f
  BY <1>2, <1>3, AppendProperties DEF Emit
<1>5. DOMAIN wire = 1 .. Len(wire) /\ DOMAIN wire' = 1 .. Len(wire) + 1 /\ Len(wire) \in Nat
  BY <1>4, LenProperties
<1>6. DOMAIN wire' = DOMAIN wire \cup {Len(wire) + 1} /\ Len(wire) + 1 \notin DOMAIN wire
  BY <1>5
<1>7. \A l, t : On(l, t)' = IF l = k /\ t = s THEN On(l, t) \cup {Len(wire) + 1} ELSE On(l, t)
  BY <1>3, <1>4, <1>5, <1>6 DEF On
<1>8. ASSUME NEW t PROVE CleanEnd(t)' = IF k = "end" /\ t = s /\ c = NoExc THEN CleanEnd(t) \cup {Len(wire) + 1}
                                        ELSE CleanEnd(t)
  <2>1. On("end", t)' = IF k = "end" /\ t = s THEN On("end", t) \cup {Len(wire) + 1} ELSE On("end", t)
    BY <1>7
  <2>2. On("end", t) \subseteq 1 .. Len(wire)
    BY OnWire
  <2>3. \A i \in On("end", t) : wire'[i].code = wire[i].code
    BY <1>4, <2>2
  <2>4. wire'[Len(wire) + 1].code = c
    BY <1>3, <1>4
  <2>5. CleanEnd(t)' = {i \in On("end", t)' : wire'[i].code = NoExc}
    BY DEF CleanEnd
  <2> QED
    BY <2>1, <2>3, <2>4, <2>5 DEF CleanEnd
<1> QED
  BY <1>4, <1>7, <1>8

\* A frame that may be sent now keeps the order of the wire.
LEMMA WireKept ==
  ASSUME wire \in Seq(Frames), WireInv, NEW k \in Kinds, NEW s \in Streams \cup {NoStream},
         NEW c \in Codes \cup {NoExc}, Emit(k, s, c),
         k = "start" => On("start", s) = {},
         k \in {"delta", "end"} => On("start", s) # {} /\ On("end", s) = {},
         k = "event" => On("end", s) # {},
         \A t \in stored' : t \in stored \/ CleanEnd(t) # {}
  PROVE  WireInv'
<1> DEFINE n == Len(wire) + 1
<1>1. /\ Len(wire) \in Nat /\ \A l, t : On(l, t) \subseteq 1 .. Len(wire)
      /\ \A t : CleanEnd(t) \subseteq On("end", t)
  BY OnWire
<1>2. /\ \A l, t : On(l, t)' = IF l = k /\ t = s THEN On(l, t) \cup {n} ELSE On(l, t)
      /\ \A t : CleanEnd(t) \subseteq CleanEnd(t)'
  BY Emitted
<1>3. \A l, t : \A i \in On(l, t) : i \in Nat /\ i < n
  BY <1>1
<1> HIDE DEF n
<1>4. ASSUME NEW t \in Streams
      PROVE  /\ AtMostOne(On("start", t)') /\ AtMostOne(On("end", t)')
             /\ Before(On("start", t)', On("delta", t)' \cup On("end", t)')
             /\ Before(On("delta", t)', On("end", t)')
             /\ On("delta", t)' \cup On("end", t)' # {} => On("start", t)' # {}
             /\ Before(On("end", t)', On("event", t)')
             /\ On("event", t)' # {} => On("end", t)' # {}
  <2>1. /\ AtMostOne(On("start", t)) /\ AtMostOne(On("end", t))
        /\ Before(On("start", t), On("delta", t) \cup On("end", t))
        /\ Before(On("delta", t), On("end", t))
        /\ On("delta", t) \cup On("end", t) # {} => On("start", t) # {}
        /\ Before(On("end", t), On("event", t))
        /\ On("event", t) # {} => On("end", t) # {}
    BY DEF WireInv, StreamOrder, FinalFollowsEnd
  <2>2. CASE t # s
    BY <1>2, <2>1, <2>2
  <2>3. CASE t = s
    <3>1. CASE k = "start"
      BY <1>2, <1>3, <2>1, <2>3, <3>1 DEF AtMostOne, Before
    <3>2. CASE k = "delta"
      BY <1>2, <1>3, <2>1, <2>3, <3>2 DEF AtMostOne, Before
    <3>3. CASE k = "end"
      BY <1>2, <1>3, <2>1, <2>3, <3>3 DEF AtMostOne, Before
    <3>4. CASE k = "event"
      BY <1>2, <1>3, <2>1, <2>3, <3>4 DEF AtMostOne, Before
    <3>5. CASE k \notin {"start", "delta", "end", "event"}
      BY <1>2, <2>1, <2>3, <3>5
    <3> QED
      BY <3>1, <3>2, <3>3, <3>4, <3>5
  <2> QED
    BY <2>2, <2>3
<1>5. \A t \in Streams : t \in stored' => CleanEnd(t)' # {}
  BY <1>2 DEF WireInv, FinalFollowsEnd
<1>6. StreamOrder'
  BY <1>4 DEF StreamOrder, AtMostOne, Before
<1>7. FinalFollowsEnd'
  BY <1>4, <1>5 DEF FinalFollowsEnd, Before
<1>8. \A t \in Streams : On("event", t)' # {} => On("end", t)' # {}
  BY <1>4
<1> QED
  BY <1>6, <1>7, <1>8 DEF WireInv

\* Nothing is sent.
LEMMA WireStill ==
  ASSUME UNCHANGED wire
  PROVE  /\ \A k, s : On(k, s)' = On(k, s)
         /\ \A s : CleanEnd(s)' = CleanEnd(s)
         /\ Terminals' = Terminals
<1>1. \A k, s : On(k, s)' = On(k, s)
  BY DEF On
<1> QED
  BY <1>1 DEF CleanEnd, Terminals, On

LEMMA WireInvStill ==
  ASSUME WireInv, UNCHANGED <<wire, stored>>
  PROVE  WireInv'
BY WireStill DEF WireInv, StreamOrder, FinalFollowsEnd

-----------------------------------------------------------------------------
(* The stack of open streams.                                                 *)

LEMMA OpenTyped ==
  ASSUME Typed
  PROVE  /\ Len(open) \in Nat /\ DOMAIN open = 1 .. Len(open) /\ \A i \in 1 .. Len(open) : open[i] \in Streams
         /\ open # <<>> => Len(open) \in 1 .. Len(open) /\ Last(open) \in Streams
BY LenProperties, ElementOfSeq, EmptySeq DEF Typed, TypeOK, Last

\* Front drops the innermost stream, and only that.
LEMMA FrontDrops ==
  ASSUME Typed, InvOpen, open # <<>>, open' = Front(open)
  PROVE  /\ open' \in Seq(Streams)
         /\ \A i, j \in DOMAIN open' : open'[i] = open'[j] => i = j
         /\ \A s : IsOpen(s)' <=> IsOpen(s) /\ s # Last(open)
<1>1. /\ Len(open) \in Nat \ {0} /\ DOMAIN open = 1 .. Len(open)
      /\ \A i \in 1 .. Len(open) : open[i] \in Streams
  BY OpenTyped
<1>2. /\ open' \in Seq(Streams)
      /\ Len(open') = IF 1 <= Len(open) - 1 THEN Len(open) - 1 - 1 + 1 ELSE 0
      /\ \A i \in 1 .. Len(open) - 1 - 1 + 1 : open'[i] = open[1 + i - 1]
  <2>1. \A i \in 1 .. Len(open) - 1 : open[i] \in Streams
    BY <1>1
  <2>2. 1 \in Int /\ Len(open) - 1 \in Int
    BY <1>1
  <2>3. open' = SubSeq(open, 1, Len(open) - 1)
    BY DEF Front
  <2> QED
    BY <2>1, <2>2, <2>3, SubSeqProperties
<1>3. Len(open') = Len(open) - 1 /\ \A i \in 1 .. Len(open) - 1 : open'[i] = open[i]
  <2>1. PICK m : m = Len(open) - 1
    OBVIOUS
  <2>2. m \in Nat /\ m - 1 + 1 = m /\ (1 <= m \/ m = 0)
    BY <1>1, <2>1
  <2>3. Len(open') = m
    BY <1>2, <2>1, <2>2
  <2>4. ASSUME NEW i \in 1 .. m PROVE open'[i] = open[i]
    <3>1. 1 + i - 1 = i /\ i \in 1 .. m - 1 + 1
      BY <2>2
    <3> QED
      BY <1>2, <2>1, <3>1
  <2> QED
    BY <2>1, <2>3, <2>4
<1>4. DOMAIN open' = 1 .. Len(open) - 1
  BY <1>2, <1>3, LenProperties
<1>5. \A i \in DOMAIN open : i \in DOMAIN open' \/ i = Len(open)
  BY <1>1, <1>4
<1>6. \A i \in DOMAIN open' : i \in DOMAIN open /\ i # Len(open) /\ open'[i] = open[i]
  BY <1>1, <1>3, <1>4
<1>7. \A i, j \in DOMAIN open : open[i] = open[j] => i = j
  BY DEF InvOpen
<1>8. Len(open) \in DOMAIN open
  BY <1>1
<1>9. ASSUME NEW s PROVE IsOpen(s)' <=> IsOpen(s) /\ s # Last(open)
  <2>1. IsOpen(s)' => IsOpen(s) /\ s # Last(open)
    BY <1>6, <1>7, <1>8 DEF IsOpen, Last
  <2>2. IsOpen(s) /\ s # Last(open) => IsOpen(s)'
    BY <1>5, <1>6 DEF IsOpen, Last
  <2> QED
    BY <2>1, <2>2
<1> QED
  BY <1>2, <1>6, <1>7, <1>9

LEMMA AppendOpens ==
  ASSUME Typed, InvOpen, NEW s \in Streams, ~IsOpen(s), open' = Append(open, s)
  PROVE  /\ open' \in Seq(Streams)
         /\ \A i, j \in DOMAIN open' : open'[i] = open'[j] => i = j
         /\ \A t : IsOpen(t)' <=> IsOpen(t) \/ t = s
<1>1. Len(open) \in Nat /\ DOMAIN open = 1 .. Len(open) /\ open \in Seq(Streams)
  BY OpenTyped DEF Typed, TypeOK
<1>2. /\ open' \in Seq(Streams) /\ Len(open') = Len(open) + 1
      /\ \A i \in 1 .. Len(open) : open'[i] = open[i]
      /\ open'[Len(open) + 1] = s
  BY <1>1, AppendProperties
<1>3. DOMAIN open' = 1 .. Len(open) + 1
  BY <1>2, LenProperties
<1>4. \A i \in DOMAIN open : i \in DOMAIN open' /\ open'[i] = open[i] /\ open[i] # s
  BY <1>1, <1>2, <1>3 DEF IsOpen
<1>5. \A i \in DOMAIN open' : i \in DOMAIN open \/ (i = Len(open) + 1 /\ open'[i] = s)
  BY <1>1, <1>2, <1>3
<1>6. Len(open) + 1 \in DOMAIN open'
  BY <1>1, <1>3
<1>7. \A t : IsOpen(t)' <=> IsOpen(t) \/ t = s
  BY <1>2, <1>4, <1>5, <1>6 DEF IsOpen
<1>8. \A i, j \in DOMAIN open' : open'[i] = open'[j] => i = j
  BY <1>4, <1>5 DEF InvOpen
<1> QED
  BY <1>2, <1>7, <1>8

-----------------------------------------------------------------------------
(* The order of the wire, step by step.                                       *)

\* Nothing is sent, stored, opened or closed.
Silent == /\ UNCHANGED <<wire, stored, open>>
          /\ gen' = "starting" => gen = "starting" /\ cur' = cur
          /\ gen' \in {"ending", "appending"} => gen \in {"ending", "appending"} /\ cur' = cur

LEMMA SilentStep ==
  ASSUME SInv, TypeOK', Silent
  PROVE  SInv'
<1>1. /\ \A k, s : On(k, s)' = On(k, s) /\ \A c : CleanEnd(c)' = CleanEnd(c)
  BY WireStill DEF Silent
<1>2. Typed' /\ WireInv'
  BY WireInvStill DEF SInv, Typed, Silent
<1>3. InvOpen'
  BY <1>1 DEF SInv, InvOpen, IsOpen, Silent
<1>4. InvCur'
  BY <1>1 DEF SInv, InvCur, IsOpen, Silent
<1> QED
  BY <1>2, <1>3, <1>4 DEF SInv

\* Types, short of those of the wire.
StateTyped == /\ gen \in GenPcs /\ driver \in {"consume", "update", "publish", "announce", "over"}
              /\ outcome \in Outcomes /\ exc \in Exceptions \cup {NoExc}
              /\ open \in Seq(Streams) /\ cur \in Streams \cup {NoStream}
              /\ text \in [Streams -> 0 .. MaxDeltas] /\ stored \subseteq Streams
              /\ yields \in 0 .. MaxYields /\ interrupts \in 0 .. MaxInterrupts

LEMMA TypedParts ==
  /\ Typed => StateTyped /\ wire \in Seq(Frames)
  /\ StateTyped' /\ wire' \in Seq(Frames) => Typed'
<1>1. Typed => StateTyped /\ wire \in Seq(Frames)
  BY DEF Typed, TypeOK, StateTyped
<1>2. ASSUME StateTyped', wire' \in Seq(Frames) PROVE Typed'
  <2>1. \A i \in DOMAIN wire' : wire'[i] \in Frames
    BY <1>2, LenProperties, ElementOfSeq
  <2> QED
    BY <1>2, <2>1 DEF Typed, TypeOK, StateTyped, Frames, Kinds
<1> QED
  BY <1>1, <1>2

LEMMA SilentSteps ==
  ASSUME SInv,
         \/ Sent \/ Ended \/ Published \/ Failed \/ Catch \/ Return \/ Escape \/ Yield
         \/ PublishYielded \/ Consumed \/ UpdateRow \/ Announced \/ Finalize
         \/ \E e \in Errors : Raise(e)
         \/ UNCHANGED vars
  PROVE  SInv'
<1> USE DEF SInv, Typed, TypeOK, Silent, GenPcs, Waits, Rest, Errors, Exceptions, Outcomes
<1>1. CASE Sent \/ Ended \/ Published \/ Failed \/ Return \/ Escape \/ PublishYielded
  BY <1>1, SilentStep DEF Sent, Ended, Published, Failed, Return, Escape, PublishYielded
<1>2. CASE Catch \/ Finalize \/ (\E e \in Errors : Raise(e))
  BY <1>2, SilentStep DEF Catch, Finalize, Raise
<1>3. CASE Yield
  BY <1>3, SilentStep, StreamAssumption DEF Yield
<1>4. CASE Consumed
  <2>1. Outcome(exc) \in Outcomes
    BY DEF Outcome
  <2> QED
    BY <1>4, <2>1, SilentStep DEF Consumed
<1>5. CASE UpdateRow \/ Announced
  BY <1>5, SilentStep DEF UpdateRow, Announced
<1>8. CASE UNCHANGED vars
  <2>1. TypeOK'
    BY <1>8 DEF vars
  <2>2. UNCHANGED <<wire, stored, open>> /\ \A k, s : On(k, s)' = On(k, s) /\ \A c : CleanEnd(c)' = CleanEnd(c)
    BY <1>8, WireStill DEF vars
  <2>3. WireInv'
    BY <2>2, WireInvStill
  <2> QED
    BY <1>8, <2>1, <2>2, <2>3 DEF vars, InvOpen, InvCur, IsOpen
<1> QED
  BY <1>1, <1>2, <1>3, <1>4, <1>5, <1>8

\* Whatever interrupts, interrupts the generator or the driver behind it.
Cut == Cancel \/ Timeout \/ \E e \in Errors : Fault(e)

LEMMA CutForms ==
  ASSUME Cut
  PROVE  \E e \in Exceptions, o \in Outcomes \ {"completed"} : CutGenerator(e, o) \/ CutDriver(o)
<1>1. ASSUME NEW e \in Errors PROVE e \in Exceptions /\ Outcome(e) \in Outcomes \ {"completed"}
  BY <1>1 DEF Errors, Exceptions, Outcome, Outcomes, NoExc
<1>2. "CancelledError" \in Exceptions /\ {"cancelled", "timeout"} \subseteq Outcomes \ {"completed"}
  BY DEF Exceptions, Outcomes
<1>3. CASE Cancel \/ Timeout
  BY <1>2, <1>3 DEF Cancel, Timeout
<1>4. ASSUME NEW e \in Errors, Fault(e)
      PROVE  \E f \in Exceptions, o \in Outcomes \ {"completed"} : CutGenerator(f, o) \/ CutDriver(o)
  BY <1>1, <1>4 DEF Fault
<1> QED
  BY <1>3, <1>4 DEF Cut

LEMMA CutKeeps ==
  ASSUME SInv, Cut
  PROVE  SInv'
<1>1. PICK e \in Exceptions, o \in Outcomes : CutGenerator(e, o) \/ CutDriver(o)
  BY CutForms
<1>2. Typed /\ StateTyped /\ InvOpen /\ InvCur /\ WireInv
  BY TypedParts DEF SInv
<1>3. ASSUME Spend PROVE interrupts' \in 0 .. MaxInterrupts
  BY <1>2, <1>3, StreamAssumption DEF Spend, StateTyped
<1>4. ASSUME UNCHANGED wire, StateTyped' PROVE Typed' /\ TypeOK'
  BY <1>2, <1>4, TypedParts DEF Typed
<1>5. CASE Waiting(e, o) \/ Suspended(o) \/ CutDriver(o)
  <2>1. StateTyped'
    BY <1>2, <1>3, <1>5 DEF StateTyped, Waiting, ThrowInto, Suspended, CutDriver, GenPcs
  <2>2. Silent
    BY <1>5 DEF Waiting, ThrowInto, Suspended, CutDriver, Silent
  <2> QED
    BY <1>4, <2>1, <2>2, SilentStep DEF Silent
<1>6. CASE DeltaUnsent(e, o)
  <2>1. text' \in [Streams -> 0 .. MaxDeltas]
    BY <1>2, <1>6, StreamAssumption DEF StateTyped, DeltaUnsent
  <2>2. StateTyped'
    BY <1>2, <1>3, <1>6, <2>1 DEF StateTyped, DeltaUnsent, ThrowInto, GenPcs
  <2>3. Silent
    BY <1>6 DEF DeltaUnsent, ThrowInto, Silent
  <2> QED
    BY <1>4, <2>2, <2>3, SilentStep DEF Silent
<1>7. CASE EndUnsent(e, o) \/ FinalUnsent(e, o)
  <2>1. UNCHANGED wire /\ gen' = "unwinding"
    BY <1>7 DEF EndUnsent, FinalUnsent, ThrowInto
  <2>2. \A k, s : On(k, s)' = On(k, s) /\ \A c : CleanEnd(c)' = CleanEnd(c)
    BY <2>1, WireStill
  <2>3. /\ open' \in Seq(Streams)
        /\ \A i, j \in DOMAIN open' : open'[i] = open'[j] => i = j
        /\ \A s : IsOpen(s)' => IsOpen(s)
    <3>1. CASE EndUnsent(e, o)
      BY <1>2, <3>1, FrontDrops DEF EndUnsent
    <3>2. CASE FinalUnsent(e, o)
      BY <1>2, <3>2 DEF FinalUnsent, StateTyped, InvOpen, IsOpen
    <3> QED
      BY <1>7, <3>1, <3>2
  <2>4. stored' = stored \/ (stored' = stored \cup {cur} /\ cur \in Streams /\ CleanEnd(cur) # {})
    BY <1>2, <1>7 DEF EndUnsent, FinalUnsent, InvCur
  <2>5. StateTyped'
    BY <1>2, <1>3, <1>7, <2>3, <2>4 DEF StateTyped, EndUnsent, FinalUnsent, ThrowInto, GenPcs
  <2>6. InvOpen' /\ InvCur'
    BY <1>2, <2>1, <2>2, <2>3 DEF InvOpen, InvCur
  <2>7. WireInv'
    BY <1>2, <2>2, <2>4 DEF WireInv, StreamOrder, FinalFollowsEnd
  <2> QED
    BY <1>4, <2>1, <2>5, <2>6, <2>7 DEF SInv
<1> QED
  BY <1>1, <1>5, <1>6, <1>7 DEF CutGenerator

\* What is sent keeps the order, and the rest is typed.
LEMMA StartKeeps ==
  ASSUME SInv, NEW s \in Streams, Start(s)
  PROVE  SInv'
<1>1. Emit("start", s, NoExc) /\ On("start", s) = {} /\ open' = open /\ stored' = stored
      /\ gen' = "starting" /\ cur' = s
  BY DEF Start
<1>2. "start" \in Kinds /\ s \in Streams \cup {NoStream} /\ NoExc \in Codes \cup {NoExc}
  BY DEF Kinds
<1>3. wire \in Seq(Frames) /\ StateTyped
  BY TypedParts DEF SInv
<1>4. /\ wire' \in Seq(Frames)
      /\ \A l, t : On(l, t)' = IF l = "start" /\ t = s THEN On(l, t) \cup {Len(wire) + 1} ELSE On(l, t)
  BY <1>1, <1>2, <1>3, Emitted
<1>5. WireInv'
  BY <1>1, <1>2, <1>3, WireKept DEF SInv
<1>6. StateTyped'
  BY <1>3 DEF StateTyped, Start, Rest, GenPcs, Waits
<1>7. On("end", s) = {} /\ ~IsOpen(s)
  BY <1>1 DEF SInv, WireInv, StreamOrder, InvOpen
<1>8. On("end", s)' = {} /\ On("start", s)' # {} /\ ~IsOpen(s)'
  BY <1>1, <1>4, <1>7 DEF IsOpen
<1>9. InvOpen'
  BY <1>1, <1>4 DEF SInv, InvOpen, IsOpen
<1>10. InvCur'
  BY <1>1, <1>8 DEF InvCur
<1> QED
  BY <1>4, <1>5, <1>6, <1>9, <1>10, TypedParts DEF SInv

LEMMA EnteredKeeps ==
  ASSUME SInv, Entered
  PROVE  SInv'
<1>1. /\ gen = "starting" /\ open' = Append(open, cur) /\ gen' = "running" /\ cur' = NoStream
      /\ UNCHANGED <<exc, text, wire, stored>> /\ Rest
  BY DEF Entered
<1>2. cur \in Streams /\ ~IsOpen(cur) /\ On("start", cur) # {} /\ On("end", cur) = {}
  BY <1>1 DEF SInv, InvCur
<1>3. /\ open' \in Seq(Streams)
      /\ \A i, j \in DOMAIN open' : open'[i] = open'[j] => i = j
      /\ \A t : IsOpen(t)' <=> IsOpen(t) \/ t = cur
  BY <1>1, <1>2, AppendOpens DEF SInv
<1>4. \A k, s : On(k, s)' = On(k, s)
  BY <1>1, WireStill
<1>5. InvOpen'
  BY <1>2, <1>3, <1>4 DEF SInv, InvOpen
<1>6. WireInv'
  BY <1>1, WireInvStill DEF SInv
<1>7. StateTyped'
  BY <1>1, <1>3, TypedParts DEF SInv, StateTyped, Rest, GenPcs
<1>8. Typed' /\ InvCur'
  BY <1>1, <1>7, TypedParts DEF SInv, InvCur
<1> QED
  BY <1>5, <1>6, <1>8 DEF SInv

LEMMA DeltaKeeps ==
  ASSUME SInv, NEW s \in Streams, SendDelta(s)
  PROVE  SInv'
<1>1. Emit("delta", s, NoExc) /\ IsOpen(s) /\ open' = open /\ stored' = stored /\ gen' = "sending"
  BY DEF SendDelta, IsOpen
<1>2. "delta" \in Kinds /\ s \in Streams \cup {NoStream} /\ NoExc \in Codes \cup {NoExc}
  BY DEF Kinds
<1>3. wire \in Seq(Frames) /\ StateTyped
  BY TypedParts DEF SInv
<1>4. /\ wire' \in Seq(Frames)
      /\ \A l, t : On(l, t)' = IF l = "delta" /\ t = s THEN On(l, t) \cup {Len(wire) + 1} ELSE On(l, t)
  BY <1>1, <1>2, <1>3, Emitted
<1>5. On("start", s) # {} /\ On("end", s) = {}
  BY <1>1 DEF SInv, InvOpen
<1>6. WireInv'
  BY <1>1, <1>2, <1>3, <1>5, WireKept DEF SInv
<1>7. StateTyped'
  <2>1. text' \in [Streams -> 0 .. MaxDeltas]
    BY <1>3, StreamAssumption DEF StateTyped, SendDelta
  <2> QED
    BY <1>3, <2>1 DEF StateTyped, SendDelta, Rest, GenPcs, Waits
<1>8. InvOpen' /\ InvCur'
  BY <1>1, <1>4 DEF SInv, InvOpen, InvCur, IsOpen
<1> QED
  BY <1>4, <1>6, <1>7, <1>8, TypedParts DEF SInv

\* __aexit__, with an exception or without.
LEMMA EndKeeps ==
  ASSUME SInv, EndClean \/ EndFailed
  PROVE  SInv'
<1> DEFINE s == Last(open)
<1>1. PICK c \in Codes \cup {NoExc} : Emit("end", s, c) /\ (EndClean => c = NoExc)
  <2>1. ErrorFor(exc) \in Codes
    BY DEF ErrorFor, Codes
  <2> QED
    BY <2>1 DEF EndClean, EndFailed, Codes, NoExc
<1>2. open # <<>> /\ open' = Front(open) /\ cur' = s /\ stored' = stored
      /\ (gen' = "failing" \/ (gen' = "ending" /\ EndClean))
  BY DEF EndClean, EndFailed
<1>3. wire \in Seq(Frames) /\ StateTyped
  BY TypedParts DEF SInv
<1>4. s \in Streams /\ IsOpen(s)
  BY <1>2, OpenTyped DEF SInv, IsOpen, Last
<1>5. /\ open' \in Seq(Streams)
      /\ \A i, j \in DOMAIN open' : open'[i] = open'[j] => i = j
      /\ \A t : IsOpen(t)' <=> IsOpen(t) /\ t # s
  BY <1>2, FrontDrops DEF SInv
<1> HIDE DEF s
<1>6. "end" \in Kinds /\ s \in Streams \cup {NoStream}
  BY <1>4 DEF Kinds
<1>7. /\ wire' \in Seq(Frames)
      /\ \A l, t : On(l, t)' = IF l = "end" /\ t = s THEN On(l, t) \cup {Len(wire) + 1} ELSE On(l, t)
      /\ \A t : CleanEnd(t)' = IF "end" = "end" /\ t = s /\ c = NoExc THEN CleanEnd(t) \cup {Len(wire) + 1}
                                 ELSE CleanEnd(t)
  BY <1>1, <1>3, <1>6, Emitted
<1>8. On("start", s) # {} /\ On("end", s) = {}
  BY <1>4 DEF SInv, InvOpen
<1>9. WireInv'
  BY <1>1, <1>2, <1>3, <1>6, <1>8, WireKept DEF SInv
<1>10. StateTyped'
  BY <1>2, <1>3, <1>4, <1>5 DEF StateTyped, EndClean, EndFailed, Rest, GenPcs, Waits
<1>11. InvOpen'
  BY <1>5, <1>7 DEF SInv, InvOpen
<1>12. InvCur'
  BY <1>1, <1>2, <1>4, <1>7 DEF InvCur
<1> QED
  BY <1>7, <1>9, <1>10, <1>11, <1>12, TypedParts DEF SInv

LEMMA AppendKeeps ==
  ASSUME SInv, AppendFinal
  PROVE  SInv'
<1>1. Emit("event", cur, NoExc) /\ open' = open /\ stored' = stored \cup {cur} /\ gen = "appending"
      /\ gen' = "broadcasting" /\ cur' = cur
  BY DEF AppendFinal
<1>2. cur \in Streams /\ CleanEnd(cur) # {}
  BY <1>1 DEF SInv, InvCur
<1>3. wire \in Seq(Frames) /\ StateTyped
  BY TypedParts DEF SInv
<1>4. "event" \in Kinds /\ cur \in Streams \cup {NoStream} /\ NoExc \in Codes \cup {NoExc}
  BY <1>2 DEF Kinds
<1>5. /\ wire' \in Seq(Frames)
      /\ \A l, t : On(l, t)' = IF l = "event" /\ t = cur THEN On(l, t) \cup {Len(wire) + 1} ELSE On(l, t)
  BY <1>1, <1>3, <1>4, Emitted
<1>6. On("end", cur) # {}
  BY <1>2, <1>3, OnWire
<1>7. \A t \in stored' : t \in stored \/ CleanEnd(t) # {}
  BY <1>1, <1>2
<1>8. WireInv'
  BY <1>1, <1>3, <1>4, <1>6, <1>7, WireKept DEF SInv
<1>9. StateTyped'
  BY <1>1, <1>2, <1>3 DEF StateTyped, AppendFinal, Rest, GenPcs, Waits
<1>10. InvOpen' /\ InvCur'
  BY <1>1, <1>5 DEF SInv, InvOpen, InvCur, IsOpen
<1> QED
  BY <1>5, <1>8, <1>9, <1>10, TypedParts DEF SInv

LEMMA TerminalKeeps ==
  ASSUME SInv, PublishTerminal
  PROVE  SInv'
<1>1. Emit(outcome, NoStream, NoExc) /\ UNCHANGED <<gen, open, cur, stored>>
  BY DEF PublishTerminal
<1>2. wire \in Seq(Frames) /\ StateTyped
  BY TypedParts DEF SInv
<1>3. /\ outcome \in Kinds /\ NoStream \in Streams \cup {NoStream} /\ NoExc \in Codes \cup {NoExc}
      /\ outcome \notin {"start", "delta", "end", "event"}
  BY <1>2 DEF Kinds, StateTyped, Outcomes
<1>4. /\ wire' \in Seq(Frames)
      /\ \A l, t : On(l, t)' = IF l = outcome /\ t = NoStream THEN On(l, t) \cup {Len(wire) + 1} ELSE On(l, t)
      /\ \A t : CleanEnd(t)' = IF outcome = "end" /\ t = NoStream /\ NoExc = NoExc THEN CleanEnd(t) \cup {Len(wire) + 1}
                                 ELSE CleanEnd(t)
  BY <1>1, <1>2, <1>3, Emitted
<1>5. WireInv'
  BY <1>1, <1>2, <1>3, WireKept DEF SInv
<1>6. StateTyped'
  BY <1>2 DEF StateTyped, PublishTerminal
<1>7. \A t : CleanEnd(t)' = CleanEnd(t)
  BY <1>3, <1>4
<1>8. \A l \in {"start", "end"} : \A t : On(l, t)' = On(l, t)
  BY <1>3, <1>4
<1>9. InvOpen' /\ InvCur'
  BY <1>1, <1>7, <1>8 DEF SInv, InvOpen, InvCur, IsOpen
<1> QED
  BY <1>4, <1>5, <1>6, <1>9, TypedParts DEF SInv

LEMMA StartSInv == Init => SInv
<1> SUFFICES ASSUME Init PROVE SInv
  OBVIOUS
<1>1. wire = <<>> /\ open = <<>> /\ stored = {} /\ gen = "running"
  BY DEF Init
<1>2. wire \in Seq(Frames) /\ open \in Seq(Streams) /\ DOMAIN wire = {} /\ DOMAIN open = {}
  BY <1>1, EmptySeq
<1>3. TypeOK
  BY <1>2, StreamAssumption DEF Init, TypeOK, GenPcs, Outcomes, NoExc
<1>4. \A k, s : On(k, s) = {}
  BY <1>2 DEF On
<1>5. WireInv
  BY <1>1, <1>4 DEF WireInv, StreamOrder, FinalFollowsEnd, AtMostOne, Before
<1>6. InvOpen /\ InvCur
  BY <1>1, <1>2 DEF InvOpen, InvCur, IsOpen
<1> QED
  BY <1>2, <1>3, <1>5, <1>6 DEF SInv, Typed

LEMMA NextSInv == SInv /\ [Next]_vars => SInv'
<1> SUFFICES ASSUME SInv, [Next]_vars PROVE SInv'
  OBVIOUS
<1> QED
  BY SilentSteps, CutKeeps, StartKeeps, EnteredKeeps, DeltaKeeps, EndKeeps, AppendKeeps, TerminalKeeps
     DEF Next, Proceed, Choose, Stream, Cut

-----------------------------------------------------------------------------
(* Runs without an interrupt.                                                 *)

\* InvWhole' from its parts, when no terminal event is sent.
LEMMA WholeKept ==
  ASSUME IInv, interrupts' = interrupts, Terminals' = Terminals, driver' = "consume" => driver = "consume",
         interrupts = 0 =>
           /\ \A s \in Streams : On("start", s)' # {} /\ On("end", s)' = {} => IsOpen(s)' \/ (gen' = "starting" /\ cur' = s)
           /\ \A s \in Streams : CleanEnd(s)' # {} => s \in stored' \/ (gen' \in {"ending", "appending"} /\ cur' = s)
           /\ gen' \in {"returned", "raised"} => open' = <<>>
           /\ driver' # "consume" => gen' \in {"returned", "raised"}
           /\ gen' # "abandoned"
           /\ driver' \in {"update", "publish"} => driver \in {"consume", "update", "publish"}
           /\ driver = "consume" \/ \A k, s : On(k, s)' = On(k, s)
  PROVE  InvWhole'
<1>1. /\ driver' = "consume" => Terminals' = {}
      /\ interrupts = 0 /\ driver' \in {"update", "publish"} => Terminals' = {}
  BY DEF IInv, InvWhole
<1>2. ASSUME interrupts = 0, Terminals # {}, NEW s \in Streams
      PROVE  /\ On("start", s)' # {} => On("end", s)' # {} /\ Before(On("end", s)', Terminals)
             /\ Before(On("event", s)', Terminals)
  <2>1. driver # "consume" /\ ClosedBy(s, Terminals) /\ Before(On("event", s), Terminals)
    BY <1>2 DEF IInv, InvWhole
  <2> QED
    BY <1>2, <2>1 DEF ClosedBy
<1> QED
  BY <1>1, <1>2 DEF InvWhole, ClosedBy, Before

\* The terminal event is sent when everything has ended.
LEMMA TerminalsMove ==
  ASSUME wire \in Seq(Frames), NEW k \in Kinds, NEW s \in Streams \cup {NoStream},
         NEW c \in Codes \cup {NoExc}, Emit(k, s, c)
  PROVE  /\ k \notin Outcomes => Terminals' = Terminals
         /\ k \in Outcomes /\ s = NoStream => Terminals' = Terminals \cup {Len(wire) + 1}
<1>1. \A l, t : On(l, t)' = IF l = k /\ t = s THEN On(l, t) \cup {Len(wire) + 1} ELSE On(l, t)
  BY Emitted
<1>2. Terminals' = UNION {On(o, NoStream)' : o \in Outcomes}
  BY DEF Terminals
<1> QED
  BY <1>1, <1>2 DEF Terminals

LEMMA WholeSilent ==
  ASSUME IInv,
         \/ Sent \/ Ended \/ Published \/ Failed \/ Catch \/ Return \/ Escape \/ Yield
         \/ PublishYielded \/ Consumed \/ UpdateRow \/ Announced \/ Finalize
         \/ \E e \in Errors : Raise(e)
         \/ UNCHANGED vars
  PROVE  InvWhole'
<1>1. /\ UNCHANGED <<wire, stored, open, interrupts>>
      /\ gen = "starting" => gen' = "starting" /\ cur' = cur
      /\ gen \in {"ending", "appending"} => gen' \in {"ending", "appending"} /\ cur' = cur
      /\ gen' = gen \/ (gen \notin {"returned", "raised"} /\ driver' = driver)
      /\ gen' \in {"returned", "raised"} => gen' = gen \/ open = <<>>
      /\ gen' # "abandoned" \/ gen' = gen
      /\ \/ driver' = driver
         \/ driver = "consume" /\ driver' = "update" /\ gen \in {"returned", "raised"}
         \/ driver = "update" /\ driver' = "publish"
         \/ driver = "announce" /\ driver' = "over"
  BY DEF Sent, Ended, Published, Failed, Catch, Return, Escape, Yield, PublishYielded, Consumed, UpdateRow,
         Announced, Finalize, Raise, Rest, vars
<1>2. /\ \A k, s : On(k, s)' = On(k, s) /\ \A c : CleanEnd(c)' = CleanEnd(c) /\ Terminals' = Terminals
  BY <1>1, WireStill
<1>3. \A s : IsOpen(s)' <=> IsOpen(s)
  BY <1>1 DEF IsOpen
<1>4. /\ driver' = "consume" => driver = "consume"
      /\ driver' \in {"update", "publish"} => driver \in {"consume", "update", "publish"}
  BY <1>1
<1>5. ASSUME interrupts = 0
      PROVE  /\ \A s \in Streams : On("start", s) # {} /\ On("end", s) = {} => IsOpen(s) \/ (gen = "starting" /\ cur = s)
             /\ \A s \in Streams : CleanEnd(s) # {} => s \in stored \/ (gen \in {"ending", "appending"} /\ cur = s)
             /\ gen \in {"returned", "raised"} => open = <<>>
             /\ driver # "consume" => gen \in {"returned", "raised"}
             /\ gen # "abandoned"
  BY <1>5 DEF IInv, InvWhole
<1>6. ASSUME interrupts = 0
      PROVE  /\ \A s \in Streams : On("start", s)' # {} /\ On("end", s)' = {} => IsOpen(s)' \/ (gen' = "starting" /\ cur' = s)
             /\ \A s \in Streams : CleanEnd(s)' # {} => s \in stored' \/ (gen' \in {"ending", "appending"} /\ cur' = s)
    BY <1>1, <1>2, <1>3, <1>5, <1>6
<1>7. ASSUME interrupts = 0
      PROVE  /\ gen' \in {"returned", "raised"} => open' = <<>>
             /\ driver' # "consume" => gen' \in {"returned", "raised"}
             /\ gen' # "abandoned"
    BY <1>1, <1>5, <1>7
<1>8. interrupts' = interrupts
  BY <1>1
<1> QED
  BY <1>2, <1>4, <1>6, <1>7, <1>8, WholeKept

\* What only an interrupted run can do.
LEMMA CutCounts ==
  ASSUME SInv, Cut
  PROVE  /\ interrupts' = interrupts + 1 /\ interrupts \in Nat /\ wire' = wire
         /\ driver' = "consume" => driver = "consume"
<1>1. PICK e, o : CutGenerator(e, o) \/ CutDriver(o)
  BY CutForms
<1>2. interrupts \in Nat
  BY StreamAssumption DEF SInv, Typed, TypeOK
<1> QED
  BY <1>1, <1>2 DEF CutGenerator, Waiting, DeltaUnsent, EndUnsent, FinalUnsent, Suspended, CutDriver, ThrowInto, Spend

LEMMA WholeInterrupted ==
  ASSUME IInv, Cut
  PROVE  InvWhole'
<1>1. interrupts' # 0 /\ wire' = wire /\ (driver' = "consume" => driver = "consume")
  BY CutCounts DEF IInv
<1>2. Terminals' = Terminals
  BY <1>1, WireStill
<1> QED
  BY <1>1, <1>2 DEF IInv, InvWhole

\* Frames of a stream are sent by a generator that is not through.
LEMMA WholeSends ==
  ASSUME IInv, (\E s \in Streams : Stream(s)) \/ Entered \/ EndClean \/ EndFailed \/ AppendFinal
  PROVE  InvWhole'
<1>1. wire \in Seq(Frames) /\ Typed /\ InvOpen /\ InvCur /\ WireInv
  BY TypedParts DEF IInv, SInv
<1>2. /\ interrupts' = interrupts /\ driver' = driver
      /\ gen \notin {"returned", "raised"} /\ gen' \notin {"returned", "raised", "abandoned"}
  BY DEF Stream, Start, SendDelta, Entered, EndClean, EndFailed, AppendFinal, Rest
<1>3. /\ interrupts = 0 => driver = "consume"
      /\ interrupts = 0 => \A s \in Streams : On("start", s) # {} /\ On("end", s) = {} => IsOpen(s) \/ (gen = "starting" /\ cur = s)
      /\ interrupts = 0 => \A s \in Streams : CleanEnd(s) # {} => s \in stored \/ (gen \in {"ending", "appending"} /\ cur = s)
  BY <1>2 DEF IInv, InvWhole
<1> DEFINE P == /\ \A s \in Streams : On("start", s)' # {} /\ On("end", s)' = {} => IsOpen(s)' \/ (gen' = "starting" /\ cur' = s)
                /\ \A s \in Streams : CleanEnd(s)' # {} => s \in stored' \/ (gen' \in {"ending", "appending"} /\ cur' = s)
<1>4. ASSUME Terminals' = Terminals, interrupts = 0 => P PROVE InvWhole'
  BY <1>2, <1>3, <1>4, WholeKept
<1>5. ASSUME NEW s \in Streams, Start(s) PROVE InvWhole'
  <2>1. Emit("start", s, NoExc) /\ open' = open /\ stored' = stored /\ gen = "running" /\ gen' = "starting" /\ cur' = s
    BY <1>5 DEF Start
  <2>2. "start" \in Kinds /\ "start" \notin Outcomes /\ s \in Streams \cup {NoStream} /\ NoExc \in Codes \cup {NoExc}
    BY DEF Kinds, Outcomes
  <2>3. /\ Terminals' = Terminals
        /\ \A l, t : On(l, t)' = IF l = "start" /\ t = s THEN On(l, t) \cup {Len(wire) + 1} ELSE On(l, t)
    BY <1>1, <2>1, <2>2, Emitted, TerminalsMove
  <2>4. \A t : CleanEnd(t)' = IF "start" = "end" /\ t = s /\ NoExc = NoExc THEN CleanEnd(t) \cup {Len(wire) + 1} ELSE CleanEnd(t)
    BY <1>1, <2>1, <2>2, Emitted
  <2>5. interrupts = 0 => P
    BY <1>3, <2>1, <2>3, <2>4 DEF IsOpen
  <2> QED
    BY <1>4, <2>3, <2>5
<1>6. ASSUME NEW s \in Streams, SendDelta(s) PROVE InvWhole'
  <2>1. Emit("delta", s, NoExc) /\ open' = open /\ stored' = stored /\ gen = "running" /\ gen' = "sending"
    BY <1>6 DEF SendDelta
  <2>2. "delta" \in Kinds /\ "delta" \notin Outcomes /\ s \in Streams \cup {NoStream} /\ NoExc \in Codes \cup {NoExc}
    BY DEF Kinds, Outcomes
  <2>3. /\ Terminals' = Terminals
        /\ \A l, t : On(l, t)' = IF l = "delta" /\ t = s THEN On(l, t) \cup {Len(wire) + 1} ELSE On(l, t)
    BY <1>1, <2>1, <2>2, Emitted, TerminalsMove
  <2>4. \A t : CleanEnd(t)' = IF "delta" = "end" /\ t = s /\ NoExc = NoExc THEN CleanEnd(t) \cup {Len(wire) + 1} ELSE CleanEnd(t)
    BY <1>1, <2>1, <2>2, Emitted
  <2>5. interrupts = 0 => P
    BY <1>3, <2>1, <2>3, <2>4 DEF IsOpen
  <2> QED
    BY <1>4, <2>3, <2>5
<1>7. CASE Entered
  <2>1. gen = "starting" /\ open' = Append(open, cur) /\ wire' = wire /\ stored' = stored /\ gen' = "running"
    BY <1>7 DEF Entered
  <2>2. cur \in Streams /\ ~IsOpen(cur)
    BY <1>1, <2>1 DEF InvCur
  <2>3. \A t : IsOpen(t)' <=> IsOpen(t) \/ t = cur
    BY <1>1, <2>1, <2>2, AppendOpens
  <2>4. /\ \A k, s : On(k, s)' = On(k, s) /\ \A c : CleanEnd(c)' = CleanEnd(c) /\ Terminals' = Terminals
    BY <2>1, WireStill
  <2>5. interrupts = 0 => P
    BY <1>3, <2>1, <2>3, <2>4
  <2> QED
    BY <1>4, <2>4, <2>5
<1>8. CASE EndClean \/ EndFailed
  <2>1. PICK s : s = Last(open)
    OBVIOUS
  <2>2. PICK c \in Codes \cup {NoExc} : Emit("end", s, c) /\ (EndClean => c = NoExc) /\ (EndFailed => c \in Codes)
    <3>1. ErrorFor(exc) \in Codes
      BY DEF ErrorFor, Codes
    <3> QED
      BY <1>8, <2>1, <3>1 DEF EndClean, EndFailed, Codes, NoExc
  <2>3. /\ open # <<>> /\ open' = Front(open) /\ cur' = s /\ stored' = stored /\ gen \in {"running", "unwinding"}
        /\ (gen' = "failing" /\ c \in Codes) \/ gen' = "ending"
    BY <1>8, <2>1, <2>2 DEF EndClean, EndFailed
  <2>4. s \in Streams
    BY <1>1, <2>1, <2>3, OpenTyped
  <2>5. \A t : IsOpen(t)' <=> IsOpen(t) /\ t # s
    BY <1>1, <2>1, <2>3, FrontDrops
  <2>6. "end" \in Kinds /\ "end" \notin Outcomes /\ s \in Streams \cup {NoStream}
    BY <2>4 DEF Kinds, Outcomes
  <2>7. /\ Terminals' = Terminals
        /\ \A l, t : On(l, t)' = IF l = "end" /\ t = s THEN On(l, t) \cup {Len(wire) + 1} ELSE On(l, t)
    BY <1>1, <2>2, <2>6, Emitted, TerminalsMove
  <2>8. \A t : CleanEnd(t)' = IF "end" = "end" /\ t = s /\ c = NoExc THEN CleanEnd(t) \cup {Len(wire) + 1} ELSE CleanEnd(t)
    BY <1>1, <2>2, <2>6, Emitted
  <2>9. \A t \in Streams : CleanEnd(t)' # {} => CleanEnd(t) # {} \/ (t = s /\ gen' = "ending")
    <3>1. NoExc \notin Codes
      BY DEF NoExc, Codes
    <3> QED
      BY <2>3, <2>8, <3>1
  <2>10. interrupts = 0 => P
    BY <1>3, <2>3, <2>5, <2>7, <2>9
  <2> QED
    BY <1>4, <2>7, <2>10
<1>9. CASE AppendFinal
  <2>1. /\ Emit("event", cur, NoExc) /\ open' = open /\ stored' = stored \cup {cur} /\ gen = "appending"
        /\ gen' = "broadcasting" /\ cur' = cur
    BY <1>9 DEF AppendFinal
  <2>2. cur \in Streams
    BY <1>1, <2>1 DEF InvCur
  <2>3. "event" \in Kinds /\ "event" \notin Outcomes /\ cur \in Streams \cup {NoStream} /\ NoExc \in Codes \cup {NoExc}
    BY <2>2 DEF Kinds, Outcomes
  <2>4. /\ Terminals' = Terminals
        /\ \A l, t : On(l, t)' = IF l = "event" /\ t = cur THEN On(l, t) \cup {Len(wire) + 1} ELSE On(l, t)
    BY <1>1, <2>1, <2>3, Emitted, TerminalsMove
  <2>5. \A t : CleanEnd(t)' = IF "event" = "end" /\ t = cur /\ NoExc = NoExc THEN CleanEnd(t) \cup {Len(wire) + 1} ELSE CleanEnd(t)
    BY <1>1, <2>1, <2>3, Emitted
  <2>6. interrupts = 0 => P
    BY <1>3, <2>1, <2>4, <2>5 DEF IsOpen
  <2> QED
    BY <1>4, <2>4, <2>6
<1> QED
  BY <1>5, <1>6, <1>7, <1>8, <1>9 DEF Stream

LEMMA WholeTerminal ==
  ASSUME IInv, PublishTerminal
  PROVE  InvWhole'
<1> DEFINE n == Len(wire) + 1
<1>1. /\ driver = "publish" /\ driver' = "announce" /\ Emit(outcome, NoStream, NoExc)
      /\ UNCHANGED <<gen, open, cur, stored, interrupts>>
  BY DEF PublishTerminal
<1>2. wire \in Seq(Frames) /\ StateTyped
  BY TypedParts DEF IInv, SInv
<1>3. /\ outcome \in Kinds /\ outcome \in Outcomes /\ NoStream \in Streams \cup {NoStream} /\ NoExc \in Codes \cup {NoExc}
      /\ outcome \notin {"start", "delta", "end", "event"}
  BY <1>2 DEF Kinds, StateTyped, Outcomes
<1>4. interrupts = 0 => Terminals = {}
  BY <1>1 DEF IInv, InvWhole
<1>5. /\ \A l, t : On(l, t)' = IF l = outcome /\ t = NoStream THEN On(l, t) \cup {n} ELSE On(l, t)
      /\ \A t : CleanEnd(t)' = IF outcome = "end" /\ t = NoStream /\ NoExc = NoExc THEN CleanEnd(t) \cup {n}
                                 ELSE CleanEnd(t)
      /\ Terminals' = Terminals \cup {n}
  BY <1>1, <1>2, <1>3, Emitted, TerminalsMove
<1>6. /\ \A l \in {"start", "end", "event"} : \A t : On(l, t)' = On(l, t)
      /\ \A t : CleanEnd(t)' = CleanEnd(t)
      /\ interrupts = 0 => Terminals' = {n}
  BY <1>3, <1>4, <1>5
<1>7. \A l, t : \A i \in On(l, t) : i < n
  BY <1>2, OnWire
<1> HIDE DEF n
<1>8. ASSUME interrupts = 0
      PROVE  /\ gen \in {"returned", "raised"} /\ open = <<>>
             /\ \A s \in Streams : On("start", s) # {} => On("end", s) # {}
             /\ \A s \in Streams : CleanEnd(s) # {} => s \in stored
  <2>1. gen \in {"returned", "raised"} /\ open = <<>>
    BY <1>1, <1>8 DEF IInv, InvWhole
  <2>2. \A s : ~IsOpen(s)
    BY <2>1 DEF IsOpen
  <2> QED
    BY <1>8, <2>1, <2>2 DEF IInv, InvWhole
<1>9. ASSUME interrupts = 0, NEW s \in Streams
      PROVE  /\ On("start", s)' # {} => On("end", s)' # {} /\ Before(On("end", s)', Terminals')
             /\ Before(On("event", s)', Terminals')
  BY <1>6, <1>7, <1>8, <1>9 DEF Before
<1>10. interrupts = 0 => \A s \in Streams : /\ ClosedBy(s, Terminals)' /\ Before(On("event", s), Terminals)'
  BY <1>9 DEF ClosedBy, Before
<1> QED
  BY <1>1, <1>6, <1>8, <1>10 DEF InvWhole

-----------------------------------------------------------------------------
(* The theorems.                                                              *)

LEMMA StartIInv == Init => IInv
<1> SUFFICES ASSUME Init PROVE IInv
  OBVIOUS
<1>1. SInv
  BY StartSInv
<1>2. wire = <<>> /\ gen = "running" /\ driver = "consume"
  BY DEF Init
<1>3. \A k, s : On(k, s) = {}
  BY <1>2 DEF On
<1>4. Terminals = {} /\ \A s : CleanEnd(s) = {}
  BY <1>3 DEF Terminals, CleanEnd
<1>5. InvWhole
  BY <1>2, <1>3, <1>4 DEF InvWhole
<1> QED
  BY <1>1, <1>5 DEF IInv

LEMMA NextIInv == IInv /\ [Next]_vars => IInv'
<1> SUFFICES ASSUME IInv, [Next]_vars PROVE IInv'
  OBVIOUS
<1>1. SInv'
  BY NextSInv DEF IInv
<1>2. InvWhole'
  BY WholeSilent, WholeInterrupted, WholeSends, WholeTerminal DEF Next, Proceed, Choose, Cut
<1> QED
  BY <1>1, <1>2 DEF IInv

\* The inductive invariant holds in every reachable state.
THEOREM StreamInvariance == Spec => []IInv
<1>1. Init => IInv
  BY StartIInv
<1>2. IInv /\ [Next]_vars => IInv'
  BY NextIInv
<1> QED
  BY <1>1, <1>2, PTL DEF Spec

\* Every variable keeps its type.
THEOREM StreamTypes == Spec => []TypeOK
<1>1. IInv => TypeOK
  BY DEF IInv, SInv, Typed
<1> QED
  BY <1>1, StreamInvariance, PTL

\* A client sees of every stream one start, then deltas, then at most one end,
\* for any number of streams and interrupts.
THEOREM OrderOnTheWire == Spec => []StreamOrder
<1>1. IInv => StreamOrder
  BY DEF IInv, SInv, WireInv
<1> QED
  BY <1>1, StreamInvariance, PTL

\* An event is stored only for a stream that ended without an error, and sent
\* behind its end.
THEOREM EventFollowsEnd == Spec => []FinalFollowsEnd
<1>1. IInv => FinalFollowsEnd
  BY DEF IInv, SInv, WireInv
<1> QED
  BY <1>1, StreamInvariance, PTL

\* A run that is not interrupted leaves no stream open and loses no event,
\* whatever its handler raises, catches and nests.
THEOREM WholeRuns == Spec => []WholeUnlessInterrupted
<1>1. IInv => WholeUnlessInterrupted
  <2> SUFFICES ASSUME IInv, interrupts = 0, Terminals # {}, NEW s \in Streams
               PROVE  /\ ClosedBy(s, Terminals)
                      /\ CleanEnd(s) # {} => s \in stored /\ Before(On("event", s), Terminals)
    BY DEF WholeUnlessInterrupted
  <2>1. driver # "consume"
    BY DEF IInv, InvWhole
  <2>2. gen \in {"returned", "raised"}
    BY <2>1 DEF IInv, InvWhole
  <2> QED
    BY <2>2 DEF IInv, InvWhole
<1> QED
  BY <1>1, StreamInvariance, PTL

-----------------------------------------------------------------------------
(* What is left behind, and what may still be sent.                           *)

\* Behind the driver the generator is through, or closed by the event loop; and
\* an event that is about to be stored has not been sent.
InvAfter == driver # "consume" =>
              \/ gen \in {"returned", "raised", "abandoned"}
              \/ gen \in {"unwinding", "failing"}

InvEvents == /\ \A s \in Streams : AtMostOne(On("event", s))
             /\ gen \in {"ending", "appending"} => On("event", cur) = {}

Orphans == {s \in Streams : Orphan(s)}

InvOrphans == IsFiniteSet(Orphans) /\ FewOrphans

\* Before its terminal event is sent, the driver has sent none, or one completion
\* that it is about to take back.
Finals(o) == On(o, NoStream)
InvEnds == /\ driver \in {"consume", "update", "publish"} \/ outcome = "completed" =>
                \A o \in Outcomes \ {"completed"} : Finals(o) = {}
           /\ driver \in {"consume", "update", "publish"} /\ (outcome = "completed" \/ driver = "consume") =>
                Finals("completed") = {}
           /\ Finals("completed") = {} \/ \E i : Finals("completed") = {i}

LEMMA NextAfter == IInv /\ InvAfter /\ [Next]_vars => InvAfter'
<1> SUFFICES ASSUME IInv, InvAfter, [Next]_vars PROVE InvAfter'
  OBVIOUS
<1> USE DEF InvAfter, Rest
<1>1. CASE \/ Entered \/ Sent \/ Ended \/ AppendFinal \/ Published \/ Catch \/ Return \/ Yield
           \/ PublishYielded \/ EndClean
  BY <1>1 DEF Entered, Sent, Ended, AppendFinal, Published, Catch, Return, Yield, PublishYielded, EndClean
<1>2. CASE Failed \/ EndFailed \/ Escape \/ Finalize \/ Consumed \/ UpdateRow \/ PublishTerminal \/ Announced
  BY <1>2 DEF Failed, EndFailed, Escape, Finalize, Consumed, UpdateRow, PublishTerminal, Announced
<1>3. CASE (\E s \in Streams : Stream(s)) \/ (\E e \in Errors : Raise(e))
  BY <1>3 DEF Stream, Start, SendDelta, Raise
<1>4. CASE Cut
  <2>1. PICK e, o : CutGenerator(e, o) \/ CutDriver(o)
    BY <1>4, CutForms
  <2>2. CASE Waiting(e, o) \/ DeltaUnsent(e, o) \/ EndUnsent(e, o) \/ FinalUnsent(e, o)
    BY <2>2 DEF Waiting, DeltaUnsent, EndUnsent, FinalUnsent, ThrowInto
  <2>3. CASE Suspended(o) \/ CutDriver(o)
    BY <2>3 DEF Suspended, CutDriver
  <2> QED
    BY <2>1, <2>2, <2>3 DEF CutGenerator
<1>5. CASE UNCHANGED vars
  BY <1>5 DEF vars
<1> QED
  BY <1>1, <1>2, <1>3, <1>4, <1>5 DEF Next, Proceed, Choose, Cut

\* The one frame a step may send, and who sends it.
Sends(k, s, c) ==
  /\ Emit(k, s, c) /\ k \in Kinds /\ s \in Streams \cup {NoStream} /\ c \in Codes \cup {NoExc}
  /\ \/ k = "start" /\ s \in Streams /\ On("start", s) = {} /\ gen = "running"
     \/ k = "delta" /\ s \in Streams /\ IsOpen(s) /\ gen = "running"
     \/ k = "end" /\ s \in Streams /\ IsOpen(s) /\ (c = NoExc => gen = "running")
     \/ k = "event" /\ s \in Streams /\ s = cur /\ gen = "appending" /\ gen' = "broadcasting"
     \/ k \in Outcomes /\ k = outcome /\ s = NoStream /\ driver = "publish"

LEMMA StreamSends ==
  ASSUME SInv, (\E s \in Streams : Stream(s)) \/ EndClean \/ EndFailed \/ AppendFinal \/ PublishTerminal
  PROVE  \E k, s, c : Sends(k, s, c)
<1>1. Typed /\ StateTyped /\ InvCur
  BY TypedParts DEF SInv
<1>2. ASSUME NEW s \in Streams, Stream(s) PROVE Sends("start", s, NoExc) \/ Sends("delta", s, NoExc)
  BY <1>2 DEF Stream, Start, SendDelta, Sends, Kinds, IsOpen
<1>3. open # <<>> => Last(open) \in Streams /\ IsOpen(Last(open))
  BY <1>1, OpenTyped DEF IsOpen, Last
<1>4. ASSUME EndClean PROVE Sends("end", Last(open), NoExc)
  BY <1>3, <1>4 DEF EndClean, Sends, Kinds
<1>5. ASSUME EndFailed PROVE Sends("end", Last(open), ErrorFor(exc))
  <2>1. ErrorFor(exc) \in Codes /\ ErrorFor(exc) # NoExc
    BY DEF ErrorFor, Codes, NoExc
  <2> QED
    BY <1>3, <1>5, <2>1 DEF EndFailed, Sends, Kinds
<1>6. ASSUME AppendFinal PROVE Sends("event", cur, NoExc)
  BY <1>1, <1>6 DEF AppendFinal, InvCur, Sends, Kinds
<1>7. ASSUME PublishTerminal PROVE Sends(outcome, NoStream, NoExc)
  BY <1>1, <1>7 DEF PublishTerminal, StateTyped, Sends, Kinds
<1> QED
  BY <1>2, <1>4, <1>5, <1>6, <1>7

\* Every step sends one frame or none.
LEMMA OnlySenders ==
  ASSUME SInv, [Next]_vars
  PROVE  \/ UNCHANGED wire
         \/ (\E s \in Streams : Stream(s)) \/ EndClean \/ EndFailed \/ AppendFinal \/ PublishTerminal
<1>2. CASE \/ Entered \/ Sent \/ Ended \/ Published \/ Failed \/ Escape \/ PublishYielded \/ Finalize
           \/ Consumed \/ UpdateRow \/ Announced \/ Catch \/ Return \/ Yield
  BY <1>2 DEF Entered, Sent, Ended, Published, Failed, Escape, PublishYielded, Finalize, Consumed, UpdateRow,
              Announced, Catch, Return, Yield
<1>3. CASE (\E e \in Errors : Raise(e)) \/ Cut \/ UNCHANGED vars
  BY <1>3, CutCounts DEF Raise, vars
<1> QED
  BY <1>2, <1>3 DEF Next, Proceed, Choose, Cut

LEMMA OneFrame ==
  ASSUME SInv, [Next]_vars
  PROVE  UNCHANGED wire \/ \E k, s, c : Sends(k, s, c)
BY OnlySenders, StreamSends

\* What is about to be stored has just ended, or was about to be stored before.
LEMMA AboutToStore ==
  ASSUME SInv, [Next]_vars, gen' \in {"ending", "appending"}
  PROVE  \/ gen \in {"ending", "appending"} /\ cur' = cur
         \/ EndClean
<1>1. CASE \/ Entered \/ Sent \/ Ended \/ AppendFinal \/ Published \/ Failed \/ EndFailed \/ Escape
           \/ PublishYielded \/ Finalize \/ Consumed \/ UpdateRow \/ PublishTerminal \/ Announced
           \/ Catch \/ Return \/ Yield
  BY <1>1 DEF Entered, Sent, Ended, AppendFinal, Published, Failed, EndFailed, Escape, PublishYielded,
              Finalize, Consumed, UpdateRow, PublishTerminal, Announced, Catch, Return, Yield
<1>2. CASE \/ \E s \in Streams : Stream(s)
           \/ \E e \in Errors : Raise(e)
           \/ UNCHANGED vars
  BY <1>2 DEF Stream, Start, SendDelta, Raise, vars
<1>3. CASE Cut
  <2>1. PICK e, o : CutGenerator(e, o) \/ CutDriver(o)
    BY <1>3, CutForms
  <2> QED
    BY <2>1 DEF CutGenerator, Waiting, DeltaUnsent, EndUnsent, FinalUnsent, Suspended, CutDriver, ThrowInto
<1> QED
  BY <1>1, <1>2, <1>3 DEF Next, Proceed, Choose, Cut

LEMMA NextEvents == IInv /\ InvEvents /\ [Next]_vars => InvEvents'
<1> SUFFICES ASSUME IInv, InvEvents, [Next]_vars PROVE InvEvents'
  OBVIOUS
<1>1. wire \in Seq(Frames) /\ SInv
  BY TypedParts DEF IInv, SInv
<1>2. CASE UNCHANGED wire
  <2>1. \A k, s : On(k, s)' = On(k, s)
    BY <1>2, WireStill
  <2>2. ~EndClean
    <3>1. Len(wire) \in Nat
      BY <1>1, OnWire
    <3>2. ASSUME EndClean PROVE FALSE
      <4>1. PICK f : wire' = Append(wire, f)
        BY <3>2 DEF EndClean, Emit
      <4> QED
        BY <1>2, <3>1, <4>1
    <3> QED
      BY <3>2
  <2>3. gen' \in {"ending", "appending"} => gen \in {"ending", "appending"} /\ cur' = cur
    BY <1>1, <2>2, AboutToStore
  <2> QED
    BY <2>1, <2>3 DEF InvEvents, AtMostOne
<1>3. ASSUME NEW k, NEW s, NEW c, Sends(k, s, c) PROVE InvEvents'
  <2>1. \A l, t : On(l, t)' = IF l = k /\ t = s THEN On(l, t) \cup {Len(wire) + 1} ELSE On(l, t)
    BY <1>1, <1>3, Emitted DEF Sends
  <2>2. k = "event" => On("event", s) = {} /\ gen' = "broadcasting"
    BY <1>3 DEF Sends, InvEvents, Outcomes
  <2>3. \A t \in Streams : AtMostOne(On("event", t)')
    BY <2>1, <2>2 DEF InvEvents, AtMostOne
  <2>4. ASSUME gen' \in {"ending", "appending"} PROVE On("event", cur)' = {}
    <3>1. PICK t : t = cur'
      OBVIOUS
    <3>2. On("event", cur)' = On("event", t)'
      BY <3>1 DEF On
    <3>3. On("event", t)' = On("event", t)
      BY <2>1, <2>2, <2>4
    <3>4. CASE EndClean
      <4>1. cur' = Last(open) /\ open # <<>> /\ gen = "running"
        BY <3>4 DEF EndClean
      <4>2. cur' \in Streams /\ IsOpen(cur')
        BY <1>1, <4>1, OpenTyped DEF SInv, IsOpen, Last
      <4>3. On("event", cur') = {}
        BY <1>1, <4>2 DEF SInv, InvOpen, WireInv
      <4> QED
        BY <3>1, <3>2, <3>3, <4>3
    <3>5. CASE gen \in {"ending", "appending"} /\ cur' = cur
      BY <3>1, <3>5, <3>2, <3>3 DEF InvEvents
    <3> QED
      BY <1>1, <2>4, <3>4, <3>5, AboutToStore
  <2> QED
    BY <2>3, <2>4 DEF InvEvents, AtMostOne
<1> QED
  BY <1>1, <1>2, <1>3, OneFrame

\* A step that leaves the context managers alone leaves no stream behind.
LEMMA OrphanFrame ==
  ASSUME UNCHANGED open, gen = "starting" => gen' = "starting" /\ cur' = cur,
         \A t : On("start", t)' = On("start", t) /\ On("end", t)' = On("end", t)
  PROVE  \A s \in Streams : Orphan(s)' => Orphan(s)
BY DEF Orphan

\* What a frame changes on the wire.
LEMMA FrameSeen ==
  ASSUME SInv, NEW k, NEW s, NEW c, Sends(k, s, c)
  PROVE  \A l, t : On(l, t)' = IF l = k /\ t = s THEN On(l, t) \cup {Len(wire) + 1} ELSE On(l, t)
<1>1. wire \in Seq(Frames)
  BY TypedParts DEF SInv
<1> QED
  BY <1>1, Emitted DEF Sends

\* Short of interrupts no stream is left behind.
LEMMA OrphansStay ==
  ASSUME IInv, [Next]_vars, ~Cut, NEW s \in Streams, Orphan(s)'
  PROVE  Orphan(s)
<1>1. SInv /\ Typed /\ InvOpen /\ InvCur
  BY DEF IInv, SInv
<1>2. CASE \/ Sent \/ Ended \/ Published \/ Failed \/ Escape \/ PublishYielded \/ Finalize
           \/ Consumed \/ UpdateRow \/ Announced \/ Catch \/ Return \/ Yield \/ UNCHANGED vars
           \/ \E e \in Errors : Raise(e)
  <2>1. UNCHANGED <<open, wire>> /\ (gen = "starting" => gen' = "starting" /\ cur' = cur)
    BY <1>2 DEF Sent, Ended, Published, Failed, Escape, PublishYielded, Finalize, Consumed, UpdateRow,
                Announced, Catch, Return, Yield, Raise, vars
  <2> QED
    BY <2>1, WireStill, OrphanFrame
<1>3. CASE AppendFinal \/ PublishTerminal \/ \E t \in Streams : SendDelta(t)
  <2>1. PICK k, t, c : Sends(k, t, c) /\ k \notin {"start", "end"}
    <3>1. CASE AppendFinal
      <4>1. Sends("event", cur, NoExc)
        BY <1>1, <3>1 DEF AppendFinal, InvCur, Sends, Kinds
      <4> QED
        BY <4>1
    <3>2. CASE PublishTerminal
      <4>1. Sends(outcome, NoStream, NoExc) /\ outcome \in Outcomes
        BY <1>1, <3>2, TypedParts DEF PublishTerminal, StateTyped, Sends, Kinds
      <4> QED
        BY <4>1 DEF Outcomes
    <3>3. ASSUME NEW t \in Streams, SendDelta(t) PROVE Sends("delta", t, NoExc)
      BY <3>3 DEF SendDelta, Sends, Kinds, IsOpen
    <3> QED
      BY <1>3, <3>1, <3>2, <3>3
  <2>2. UNCHANGED open /\ (gen = "starting" => gen' = "starting" /\ cur' = cur)
    BY <1>3 DEF AppendFinal, PublishTerminal, SendDelta
  <2>3. \A u : On("start", u)' = On("start", u) /\ On("end", u)' = On("end", u)
    BY <1>1, <2>1, FrameSeen
  <2> QED
    BY <2>2, <2>3, OrphanFrame
<1>4. ASSUME NEW t \in Streams, Start(t) PROVE Orphan(s)
  <2>1. Sends("start", t, NoExc) /\ open' = open /\ gen = "running" /\ gen' = "starting" /\ cur' = t
    BY <1>4 DEF Start, Sends, Kinds
  <2>2. \A l, u : On(l, u)' = IF l = "start" /\ u = t THEN On(l, u) \cup {Len(wire) + 1} ELSE On(l, u)
    BY <1>1, <2>1, FrameSeen
  <2> QED
    BY <2>1, <2>2 DEF Orphan
<1>5. CASE Entered
  <2>1. gen = "starting" /\ open' = Append(open, cur) /\ wire' = wire /\ gen' = "running"
    BY <1>5 DEF Entered
  <2>2. cur \in Streams /\ ~IsOpen(cur)
    BY <1>1, <2>1 DEF InvCur
  <2>3. \A u : IsOpen(u)' <=> IsOpen(u) \/ u = cur
    BY <1>1, <2>1, <2>2, AppendOpens
  <2>4. \A l, u : On(l, u)' = On(l, u)
    BY <2>1, WireStill
  <2> QED
    BY <2>3, <2>4 DEF Orphan, IsOpen
<1>6. CASE EndClean \/ EndFailed
  <2>1. PICK u : u = Last(open)
    OBVIOUS
  <2>2. PICK c : Sends("end", u, c)
    <3>1. ErrorFor(exc) \in Codes /\ ErrorFor(exc) # NoExc
      BY DEF ErrorFor, Codes, NoExc
    <3>2. open # <<>> => u \in Streams /\ IsOpen(u)
      BY <1>1, <2>1, OpenTyped DEF IsOpen, Last
    <3> QED
      BY <1>6, <2>1, <3>1, <3>2 DEF EndClean, EndFailed, Sends, Kinds
  <2>3. open # <<>> /\ open' = Front(open) /\ gen # "starting"
    BY <1>6 DEF EndClean, EndFailed
  <2>4. \A t : IsOpen(t)' <=> IsOpen(t) /\ t # u
    BY <1>1, <2>1, <2>3, FrontDrops
  <2>5. \A l, t : On(l, t)' = IF l = "end" /\ t = u THEN On(l, t) \cup {Len(wire) + 1} ELSE On(l, t)
    BY <1>1, <2>2, FrameSeen
  <2> QED
    BY <2>3, <2>4, <2>5 DEF Orphan, IsOpen
<1> QED
  BY <1>2, <1>3, <1>4, <1>5, <1>6 DEF Next, Proceed, Choose, Stream, Cut

\* An interrupt leaves one stream behind at most: the one whose start it found on
\* its way, or the one whose end will not be sent.
LEMMA OrphansGrow ==
  ASSUME IInv, Cut
  PROVE  \E x : Orphans' \subseteq Orphans \cup {x}
<1>1. SInv /\ Typed /\ InvOpen /\ InvCur
  BY DEF IInv, SInv
<1>2. UNCHANGED wire
  BY <1>1, CutCounts
<1>3. \A l, u : On(l, u)' = On(l, u)
  BY <1>2, WireStill
<1>4. PICK e, o : CutGenerator(e, o) \/ CutDriver(o)
  BY CutForms
<1>5. CASE EndUnsent(e, o)
  <2>1. PICK u : u = Last(open)
    OBVIOUS
  <2>2. open # <<>> /\ open' = Front(open) /\ gen # "starting"
    BY <1>5 DEF EndUnsent
  <2>3. \A t : IsOpen(t)' <=> IsOpen(t) /\ t # u
    BY <1>1, <2>1, <2>2, FrontDrops
  <2>4. \A s \in Streams : Orphan(s)' => Orphan(s) \/ s = u
    BY <1>3, <2>2, <2>3 DEF Orphan, IsOpen
  <2> QED
    BY <2>4 DEF Orphans
<1>6. CASE Waiting(e, o) \/ DeltaUnsent(e, o) \/ FinalUnsent(e, o) \/ Suspended(o) \/ CutDriver(o)
  <2>1. UNCHANGED open
    BY <1>6 DEF Waiting, DeltaUnsent, FinalUnsent, Suspended, CutDriver
  <2>2. \A s \in Streams : Orphan(s)' => Orphan(s) \/ s = cur
    BY <1>3, <2>1 DEF Orphan
  <2> QED
    BY <2>2 DEF Orphans
<1> QED
  BY <1>4, <1>5, <1>6 DEF CutGenerator

LEMMA NextOrphans == IInv /\ InvOrphans /\ [Next]_vars => InvOrphans'
<1> SUFFICES ASSUME IInv, InvOrphans, [Next]_vars PROVE InvOrphans'
  OBVIOUS
<1>1. SInv /\ interrupts \in Nat /\ interrupts' \in Nat
  BY NextIInv, StreamAssumption DEF IInv, SInv, Typed, TypeOK
<1>2. IsFiniteSet(Orphans) /\ Cardinality(Orphans) <= interrupts /\ Cardinality(Orphans) \in Nat
  BY FS_CardinalityType DEF InvOrphans, FewOrphans, Orphans
<1>3. Cut \/ interrupts' = interrupts
  BY DEF Next, Proceed, Choose, Stream, Start, SendDelta, Entered, Sent, Ended, AppendFinal, Published,
              EndFailed, Failed, Escape, PublishYielded, Finalize, Consumed, UpdateRow, PublishTerminal, Announced,
              Raise, EndClean, Catch, Return, Yield, Cut, Rest, vars
<1>4. CASE ~Cut
  <2>1. Orphans' \in SUBSET Orphans
    BY <1>4, OrphansStay DEF Orphans
  <2>2. IsFiniteSet(Orphans') /\ Cardinality(Orphans') <= Cardinality(Orphans)
    BY <1>2, <2>1, FS_Subset
  <2>3. Cardinality(Orphans') \in Nat
    BY <2>2, FS_CardinalityType
  <2>4. Cardinality(Orphans') <= interrupts'
    BY <1>1, <1>2, <1>3, <1>4, <2>2, <2>3
  <2> QED
    BY <2>2, <2>4 DEF InvOrphans, FewOrphans, Orphans
<1>5. CASE Cut
  <2>1. PICK x : Orphans' \subseteq Orphans \cup {x}
    BY <1>5, OrphansGrow
  <2>2. interrupts' = interrupts + 1
    BY <1>1, <1>5, CutCounts
  <2>3. IsFiniteSet(Orphans \cup {x}) /\ Cardinality(Orphans \cup {x}) <= Cardinality(Orphans) + 1
    BY <1>2, FS_AddElement
  <2>4. Orphans' \in SUBSET (Orphans \cup {x})
    BY <2>1
  <2>5. IsFiniteSet(Orphans') /\ Cardinality(Orphans') <= Cardinality(Orphans \cup {x})
    BY <2>3, <2>4, FS_Subset
  <2>6. Cardinality(Orphans') \in Nat /\ Cardinality(Orphans \cup {x}) \in Nat
    BY <2>3, <2>5, FS_CardinalityType
  <2>7. Cardinality(Orphans') <= interrupts'
    BY <1>1, <1>2, <2>2, <2>3, <2>5, <2>6
  <2> QED
    BY <2>5, <2>7 DEF InvOrphans, FewOrphans, Orphans
<1> QED
  BY <1>4, <1>5

\* A placeholder that is left behind was met by an interrupt of its own, while its
\* start was on its way or before its end was: whatever the handler nests, raises
\* and catches and however often it is cut short, in the task that closes it too,
\* there are no more of them than interrupts.
THEOREM OrphansCounted == Spec => []FewOrphans
<1>1. Init => InvOrphans
  <2> SUFFICES ASSUME Init PROVE InvOrphans
    OBVIOUS
  <2>1. wire = <<>> /\ interrupts = 0
    BY DEF Init
  <2>2. \A s : On("start", s) = {}
    BY <2>1, EmptySeq DEF On
  <2>3. Orphans = {}
    BY <2>2 DEF Orphans, Orphan
  <2> QED
    BY <2>1, <2>3, FS_EmptySet DEF InvOrphans, FewOrphans, Orphans
<1>2. InvOrphans => FewOrphans
  BY DEF InvOrphans
<1> QED
  BY <1>1, <1>2, NextOrphans, StreamInvariance, PTL DEF Spec

-----------------------------------------------------------------------------
(* The run implements StreamContract.                                         *)

\* What a client knows of stream s, and the texts it has counted.
Seen(s) == IF Repeated(s) THEN "garbled"
           ELSE IF On("event", s) # {} THEN "kept"
           ELSE IF On("start", s) = {} THEN "unseen"
           ELSE IF On("end", s) = {} THEN "open"
           ELSE IF CleanEnd(s) # {} THEN "ended" ELSE "dropped"
Counted(s) == Cardinality(On("delta", s))

\* How often the run was said to end as o.
EndsSeen == [o \in Outcomes |-> Cardinality(On(o, NoStream))]

LEMMA SeenIs == /\ phase = [s \in Streams |-> Seen(s)] /\ phase' = [s \in Streams |-> Seen(s)']
                /\ [s \in Streams |-> Cardinality(On("delta", s))] = [s \in Streams |-> Counted(s)]
BY DEF phase, Seen, Counted

\* Nothing is sent twice.
LEMMA NotGarbled == IInv /\ InvEvents => \A s \in Streams : ~Repeated(s)
BY DEF IInv, SInv, WireInv, StreamOrder, InvEvents, Repeated

\* A frame that is no delta moves its own stream, and no other.
LEMMA ContractMove ==
  ASSUME NEW s \in Streams, NEW new, Seen(s)' = new,
         \A t \in Streams \ {s} : Seen(t)' = Seen(t),
         \A t \in Streams : Counted(t)' = Counted(t),
         EndsSeen' = EndsSeen
  PROVE  Contract!Move(s, Seen(s), new)
<1>1. phase' = [phase EXCEPT ![s] = new] /\ phase[s] = Seen(s)
  BY DEF phase, Seen
<1>2. [t \in Streams |-> Cardinality(On("delta", t))]' = [t \in Streams |-> Cardinality(On("delta", t))]
  BY DEF Counted
<1> QED
  BY <1>1, <1>2 DEF Contract!Move, EndsSeen

\* A driver that still consumes has not ended the run.
LEMMA NotOver ==
  ASSUME InvEnds, driver = "consume"
  PROVE  ~Contract!Over
<1>1. \A o \in Outcomes : On(o, NoStream) = {}
  BY DEF InvEnds, Finals
<1>2. \A o \in Outcomes : EndsSeen[o] = 0
  BY <1>1, FS_EmptySet DEF EndsSeen
<1> QED
  BY <1>2 DEF Contract!Over, Contract!Ends, EndsSeen, Outcomes

\* A terminal event is the first one, or follows one completion.
LEMMA EndsAgain ==
  ASSUME IInv, InvEnds, driver = "publish", NEW o \in Outcomes, o = outcome,
         \A l \in Outcomes : On(l, NoStream)' = IF l = o THEN On(l, NoStream) \cup {Len(wire) + 1} ELSE On(l, NoStream),
         phase' = phase,
         [s \in Streams |-> Cardinality(On("delta", s))]' = [s \in Streams |-> Cardinality(On("delta", s))]
  PROVE  Contract!EndRun(o)
<1>1. On(o, NoStream) = {} /\ On(o, NoStream)' = {Len(wire) + 1}
  BY DEF InvEnds, Finals
<1>2. EndsSeen[o] = 0 /\ EndsSeen'[o] = 1
  BY <1>1, FS_EmptySet, FS_Singleton DEF EndsSeen
<1>3. EndsSeen' = [EndsSeen EXCEPT ![o] = @ + 1]
  <2>1. \A l \in Outcomes : EndsSeen'[l] = IF l = o THEN 1 ELSE EndsSeen[l]
    BY <1>2 DEF EndsSeen
  <2>2. DOMAIN EndsSeen' = Outcomes /\ DOMAIN EndsSeen = Outcomes
    BY DEF EndsSeen
  <2>3. EndsSeen' = [l \in Outcomes |-> EndsSeen'[l]]
    BY DEF EndsSeen
  <2>4. [EndsSeen EXCEPT ![o] = @ + 1] = [l \in Outcomes |-> IF l = o THEN EndsSeen[o] + 1 ELSE EndsSeen[l]]
    BY <2>2
  <2> QED
    BY <1>2, <2>1, <2>3, <2>4
<1>4. CASE On("completed", NoStream) = {}
  <2>1. \A l \in Outcomes : On(l, NoStream) = {}
    BY <1>4 DEF InvEnds, Finals
  <2>2. \A l \in Outcomes : EndsSeen[l] = 0
    BY <2>1, FS_EmptySet DEF EndsSeen
  <2>3. ~Contract!Over
    BY <2>2 DEF Contract!Over, Contract!Ends, EndsSeen, Outcomes
  <2> QED
    BY <1>3, <2>3 DEF Contract!EndRun, EndsSeen
<1>5. CASE On("completed", NoStream) # {}
  <2>1. PICK i : On("completed", NoStream) = {i}
    BY <1>5 DEF InvEnds, Finals
  <2>2. /\ o # "completed"
        /\ \A l \in Outcomes \ {"completed"} : On(l, NoStream) = {}
    BY <1>1, <1>5 DEF InvEnds, Finals
  <2>3. \A l \in Outcomes : EndsSeen[l] = IF l = "completed" THEN 1 ELSE 0
    BY <2>1, <2>2, FS_EmptySet, FS_Singleton DEF EndsSeen
  <2>4. EndsSeen = Contract!Completed
    BY <2>3 DEF Contract!Completed, Contract!Ends, EndsSeen, Outcomes
  <2> QED
    BY <1>3, <2>2, <2>4 DEF Contract!EndRun, EndsSeen
<1> QED
  BY <1>4, <1>5

\* The state a frame is sent in, as its client sees it.
LEMMA ContractFrame ==
  ASSUME IInv, InvEvents, InvAfter, InvEnds, IInv', InvEvents', NEW k, NEW s, NEW c, Sends(k, s, c)
  PROVE  [Contract!ContractNext]_(Contract!contractVars)
<1>1. wire \in Seq(Frames) /\ SInv /\ WireInv /\ InvOpen /\ InvCur
  BY TypedParts DEF IInv, SInv
<1>2. /\ \A l, t : On(l, t)' = IF l = k /\ t = s THEN On(l, t) \cup {Len(wire) + 1} ELSE On(l, t)
      /\ \A t : CleanEnd(t)' = IF k = "end" /\ t = s /\ c = NoExc THEN CleanEnd(t) \cup {Len(wire) + 1}
                               ELSE CleanEnd(t)
      /\ k \notin Outcomes => Terminals' = Terminals
      /\ k \in Outcomes /\ s = NoStream => Terminals' = Terminals \cup {Len(wire) + 1}
  <2>1. Emit(k, s, c) /\ k \in Kinds /\ s \in Streams \cup {NoStream} /\ c \in Codes \cup {NoExc}
    BY DEF Sends
  <2>2. /\ \A l, t : On(l, t)' = IF l = k /\ t = s THEN On(l, t) \cup {Len(wire) + 1} ELSE On(l, t)
        /\ \A t : CleanEnd(t)' = IF k = "end" /\ t = s /\ c = NoExc THEN CleanEnd(t) \cup {Len(wire) + 1}
                                 ELSE CleanEnd(t)
    BY <1>1, <2>1, Emitted
  <2>3. /\ k \notin Outcomes => Terminals' = Terminals
        /\ k \in Outcomes /\ s = NoStream => Terminals' = Terminals \cup {Len(wire) + 1}
    BY <1>1, <2>1, TerminalsMove
  <2> QED
    BY <2>2, <2>3
<1>3. \A t \in Streams : ~Repeated(t) /\ ~Repeated(t)'
  <2>1. IInv /\ InvEvents => \A t \in Streams : ~Repeated(t)
    BY NotGarbled
  <2>2. IInv' /\ InvEvents' => \A t \in Streams : ~Repeated(t)'
    BY DEF IInv, SInv, WireInv, StreamOrder, InvEvents, Repeated
  <2> QED
    BY <2>1, <2>2
<1>4. \A t \in Streams : t # s \/ k \in Outcomes \cup {"delta"} => Seen(t)' = Seen(t)
  BY <1>2, <1>3 DEF Seen, Outcomes
<1>5. \A t \in Streams : t # s \/ k # "delta" => Counted(t)' = Counted(t)
  BY <1>2 DEF Counted
<1>6. k \notin Outcomes => EndsSeen' = EndsSeen
  <2>1. k \notin Outcomes => \A o \in Outcomes : On(o, NoStream)' = On(o, NoStream)
    BY <1>2
  <2> QED
    BY <2>1 DEF EndsSeen
<1>7. k \in {"start", "delta", "event"} => ~Contract!Over
  <2>1. k \in {"start", "delta", "event"} => gen \in {"running", "appending"}
    BY DEF Sends, Outcomes
  <2> QED
    BY <2>1, NotOver DEF InvAfter
<1>8. CASE k = "start"
  <2>1. s \in Streams /\ On("start", s) = {}
    BY <1>8 DEF Sends, Outcomes
  <2>2. On("end", s) = {} /\ On("event", s) = {}
    BY <1>1, <2>1 DEF WireInv, StreamOrder
  <2>3. Seen(s) = "unseen" /\ Seen(s)' = "open"
    BY <1>2, <1>3, <1>8, <2>1, <2>2 DEF Seen
  <2>4. Contract!Move(s, "unseen", "open")
    BY <1>4, <1>5, <1>6, <1>8, <2>1, <2>3, ContractMove DEF Outcomes
  <2> QED
    BY <1>7, <1>8, <2>1, <2>4 DEF Contract!Show, Contract!ContractNext
<1>9. CASE k = "delta"
  <2>1. s \in Streams /\ IsOpen(s)
    BY <1>9 DEF Sends, Outcomes
  <2>2. On("start", s) # {} /\ On("end", s) = {} /\ On("event", s) = {}
    BY <1>1, <2>1 DEF InvOpen, WireInv
  <2>3. Seen(s) = "open"
    BY <1>3, <2>1, <2>2 DEF Seen
  <2>4. Len(wire) \in Nat /\ On("delta", s) \in SUBSET (1 .. Len(wire))
    BY <1>1, OnWire
  <2>5. Counted(s)' = Counted(s) + 1
    <3>1. IsFiniteSet(On("delta", s))
      <4>1. 1 \in Int /\ Len(wire) \in Int
        BY <2>4
      <4>2. IsFiniteSet(1 .. Len(wire))
        BY <4>1, FS_Interval
      <4> QED
        BY <2>4, <4>2, FS_Subset
    <3>2. Len(wire) + 1 \notin On("delta", s)
      BY <2>4
    <3> QED
      BY <1>2, <1>9, <3>1, <3>2, FS_AddElement DEF Counted
  <2>6. [t \in Streams |-> Cardinality(On("delta", t))]'
          = [[t \in Streams |-> Cardinality(On("delta", t))] EXCEPT ![s] = @ + 1]
    BY <1>5, <2>1, <2>5 DEF Counted
  <2>7. phase' = phase
    BY <1>4, <1>9, SeenIs
  <2>8. phase[s] = "open"
    BY <2>1, <2>3, SeenIs
  <2>9. EndsSeen' = EndsSeen
    BY <1>6, <1>9 DEF Outcomes
  <2> QED
    BY <1>7, <1>9, <2>1, <2>6, <2>7, <2>8, <2>9 DEF Contract!Text, Contract!ContractNext, EndsSeen
<1>10. CASE k = "end"
  <2>1. s \in Streams /\ IsOpen(s)
    BY <1>10 DEF Sends, Outcomes
  <2>2. On("start", s) # {} /\ On("end", s) = {} /\ On("event", s) = {}
    BY <1>1, <2>1 DEF InvOpen, WireInv
  <2>3. CleanEnd(s) = {}
    BY <1>1, <2>2, OnWire
  <2>4. Seen(s) = "open"
    BY <1>3, <2>1, <2>2 DEF Seen
  <2>5. CASE c = NoExc
    <3>1. Seen(s)' = "ended"
      BY <1>2, <1>3, <1>10, <2>1, <2>2, <2>5 DEF Seen
    <3>2. Contract!Move(s, "open", "ended")
      BY <1>4, <1>5, <1>6, <1>10, <2>1, <2>4, <3>1, ContractMove DEF Outcomes
    <3>3. ~Contract!Over
      BY <1>10, <2>5, NotOver DEF Sends, InvAfter, Outcomes
    <3> QED
      BY <2>1, <3>2, <3>3 DEF Contract!EndWell, Contract!ContractNext
  <2>6. CASE c # NoExc
    <3>1. Seen(s)' = "dropped"
      BY <1>2, <1>3, <1>10, <2>1, <2>2, <2>3, <2>6 DEF Seen
    <3>2. Contract!Move(s, "open", "dropped")
      BY <1>4, <1>5, <1>6, <1>10, <2>1, <2>4, <3>1, ContractMove DEF Outcomes
    <3> QED
      BY <2>1, <3>2 DEF Contract!Drop, Contract!ContractNext
  <2> QED
    BY <2>5, <2>6
<1>11. CASE k = "event"
  <2>1. s \in Streams /\ s = cur /\ gen = "appending"
    BY <1>11 DEF Sends, Outcomes
  <2>2. On("event", s) = {} /\ CleanEnd(s) # {}
    BY <1>1, <2>1 DEF InvEvents, InvCur
  <2>3. On("end", s) # {}
    BY <1>1, <2>2, OnWire
  <2>4. On("start", s) # {}
    BY <1>1, <2>1, <2>3 DEF WireInv, StreamOrder
  <2>5. Seen(s) = "ended" /\ Seen(s)' = "kept"
    BY <1>2, <1>3, <1>11, <2>1, <2>2, <2>3, <2>4 DEF Seen
  <2>6. Contract!Move(s, "ended", "kept")
    BY <1>4, <1>5, <1>6, <1>11, <2>1, <2>5, ContractMove DEF Outcomes
  <2> QED
    BY <1>7, <1>11, <2>1, <2>6 DEF Contract!Keep, Contract!ContractNext
<1>12. CASE k \in Outcomes
  <2>1. s = NoStream /\ driver = "publish" /\ k = outcome
    BY <1>12 DEF Sends, Outcomes
  <2>2. phase' = phase
    BY <1>4, <1>12, SeenIs
  <2>3. [t \in Streams |-> Cardinality(On("delta", t))]' = [t \in Streams |-> Cardinality(On("delta", t))]
    BY <1>5, <1>12 DEF Counted, Outcomes
  <2>4. \A l \in Outcomes : On(l, NoStream)' = IF l = k THEN On(l, NoStream) \cup {Len(wire) + 1} ELSE On(l, NoStream)
    BY <1>2, <2>1
  <2>5. Contract!EndRun(k)
    BY <1>12, <2>1, <2>2, <2>3, <2>4, EndsAgain
  <2> QED
    BY <1>12, <2>5 DEF Contract!ContractNext, Contract!Ends, Outcomes
<1> QED
  BY <1>8, <1>9, <1>10, <1>11, <1>12 DEF Sends

LEMMA NextEnds == IInv /\ InvEnds /\ [Next]_vars => InvEnds'
<1> SUFFICES ASSUME IInv, InvEnds, [Next]_vars PROVE InvEnds'
  OBVIOUS
<1>1. SInv /\ StateTyped /\ wire \in Seq(Frames)
  BY TypedParts DEF IInv, SInv
<1>2. CASE PublishTerminal
  <2>1. /\ Emit(outcome, NoStream, NoExc) /\ outcome' = outcome /\ outcome \in Outcomes
        /\ driver = "publish" /\ driver' = "announce"
    BY <1>1, <1>2 DEF PublishTerminal, StateTyped
  <2>2. /\ outcome \in Kinds /\ NoStream \in Streams \cup {NoStream} /\ NoExc \in Codes \cup {NoExc}
    BY <2>1 DEF Kinds
  <2>3. \A l, t : On(l, t)' = IF l = outcome /\ t = NoStream THEN On(l, t) \cup {Len(wire) + 1} ELSE On(l, t)
    BY <1>1, <2>1, <2>2, Emitted
  <2>4. \A l : Finals(l)' = IF l = outcome THEN Finals(l) \cup {Len(wire) + 1} ELSE Finals(l)
    BY <2>3 DEF Finals
  <2>5. outcome = "completed" => Finals("completed")' = {Len(wire) + 1}
    BY <2>1, <2>4 DEF InvEnds
  <2> QED
    BY <2>1, <2>4, <2>5 DEF InvEnds, Outcomes
<1>3. CASE ~PublishTerminal
  <2>1. \A o \in Outcomes : Finals(o)' = Finals(o)
    <3>1. CASE UNCHANGED wire
      BY <3>1, WireStill DEF Finals
    <3>2. CASE \/ \E s \in Streams : Stream(s)
               \/ EndClean \/ EndFailed \/ AppendFinal
      <4>1. PICK k, s, c : Sends(k, s, c) /\ s \in Streams
        <5>1. CASE \E t \in Streams : Stream(t)
          BY <5>1 DEF Stream, Start, SendDelta, Sends, Kinds, IsOpen
        <5>2. open # <<>> => Last(open) \in Streams /\ IsOpen(Last(open))
          BY <1>1, OpenTyped DEF SInv, IsOpen, Last
        <5>3. CASE EndClean
          BY <5>2, <5>3 DEF EndClean, Sends, Kinds
        <5>4. CASE EndFailed
          <6>1. ErrorFor(exc) \in Codes /\ ErrorFor(exc) # NoExc
            BY DEF ErrorFor, Codes, NoExc
          <6> QED
            BY <5>2, <5>4, <6>1 DEF EndFailed, Sends, Kinds
        <5>5. CASE AppendFinal
          BY <1>1, <5>5 DEF AppendFinal, SInv, InvCur, Sends, Kinds
        <5> QED
          BY <3>2, <5>1, <5>3, <5>4, <5>5
      <4>2. \A l, t : On(l, t)' = IF l = k /\ t = s THEN On(l, t) \cup {Len(wire) + 1} ELSE On(l, t)
        BY <1>1, <4>1, FrameSeen
      <4> QED
        BY <4>1, <4>2, StreamAssumption DEF Finals
    <3> QED
      BY <1>1, <1>3, <3>1, <3>2, OnlySenders
  <2>2. \/ UNCHANGED <<driver, outcome>>
        \/ driver = "consume" /\ driver' \in {"consume", "update"}
        \/ driver = "update" /\ driver' = "publish" /\ outcome' = outcome
        \/ driver = "announce" /\ driver' = "over" /\ outcome' = outcome
        \/ driver \in {"update", "publish", "announce"} /\ driver' = "over" /\ outcome' = outcome
        \/ driver \in {"update", "publish", "announce"} /\ driver' = "update" /\ outcome = "completed"
             /\ outcome' # "completed"
    <3>1. CASE Cut
      <4>1. PICK e \in Exceptions, o \in Outcomes \ {"completed"} : CutGenerator(e, o) \/ CutDriver(o)
        BY <3>1, CutForms
      <4> QED
        BY <1>1, <4>1 DEF CutGenerator, Waiting, DeltaUnsent, EndUnsent, FinalUnsent, Suspended, CutDriver, ThrowInto,
                          StateTyped
    <3>2. CASE ~Cut
      BY <1>3, <3>2 DEF Next, Proceed, Choose, Stream, Start, SendDelta, Entered, Sent, Ended, AppendFinal, Published,
              EndFailed, Failed, Escape, PublishYielded, Finalize, Consumed, UpdateRow, Announced,
              Raise, EndClean, Catch, Return, Yield, Cut, Rest, vars
    <3> QED
      BY <3>1, <3>2
  <2>3. "completed" \in Outcomes
    BY DEF Outcomes
  <2> QED
    BY <2>1, <2>2, <2>3 DEF InvEnds
<1> QED
  BY <1>2, <1>3

\* A client sees of each stream and of the end of the run what StreamContract
\* allows, whatever the handler nests, raises and catches, and whoever cuts it
\* short, closes its generator or interrupts its driver.
THEOREM ContractKept == Spec => ContractSpec
<1>1. Init => InvAfter /\ InvEvents /\ InvEnds /\ Contract!ContractInit
  <2> SUFFICES ASSUME Init PROVE InvAfter /\ InvEvents /\ InvEnds /\ Contract!ContractInit
    OBVIOUS
  <2>1. driver = "consume" /\ gen = "running" /\ wire = <<>>
    BY DEF Init
  <2>2. \A l, t : On(l, t) = {}
    BY <2>1, EmptySeq DEF On
  <2>3. EndsSeen = [o \in Outcomes |-> 0] /\ phase = [s \in Streams |-> "unseen"]
    BY <2>2, FS_EmptySet DEF EndsSeen, phase, Repeated, AtMostOne
  <2>4. [s \in Streams |-> Cardinality(On("delta", s))] = [s \in Streams |-> 0]
    BY <2>2, FS_EmptySet
  <2> QED
    BY <2>1, <2>2, <2>3, <2>4 DEF InvAfter, InvEvents, InvEnds, Finals, AtMostOne, EndsSeen, Outcomes,
                                  Contract!ContractInit, Contract!Ends
<1>2. IInv /\ InvEvents /\ InvAfter /\ InvEnds /\ [Next]_vars => [Contract!ContractNext]_(Contract!contractVars)
  <2> SUFFICES ASSUME IInv, InvEvents, InvAfter, InvEnds, [Next]_vars
               PROVE  [Contract!ContractNext]_(Contract!contractVars)
    OBVIOUS
  <2>1. CASE UNCHANGED wire
    <3>1. UNCHANGED Contract!contractVars
      BY <2>1, WireStill DEF phase, Repeated, Contract!contractVars
    <3> QED
      BY <3>1
  <2>2. ASSUME NEW k, NEW s, NEW c, Sends(k, s, c) PROVE [Contract!ContractNext]_(Contract!contractVars)
    BY <2>2, NextIInv, NextEvents, ContractFrame
  <2> QED
    BY <2>1, <2>2, OneFrame DEF IInv
<1> QED
  BY <1>1, <1>2, NextAfter, NextEvents, NextEnds, StreamInvariance, PTL DEF Spec, ContractSpec, Contract!ContractSpec

=============================================================================
