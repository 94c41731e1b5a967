------------------------ MODULE MessageRoutingProofs ------------------------
(***************************************************************************)
(* Theorems about MessageRouting for every set of people and assistants,   *)
(* every list of recipients and every value of the bounds, the cap and the *)
(* page.                                                                   *)
(*                                                                         *)
(* First what the helpers return; then the inductive invariant; then Facts,*)
(* which says what any step may do, the proof that a step which does no    *)
(* more keeps the invariant, and, action by action, that none does more.   *)
(***************************************************************************)
EXTENDS MessageRouting, FiniteSetTheorems, WellFoundedInduction, SequenceTheorems, TLAPS

-----------------------------------------------------------------------------
(* Numbers, and the recipients of a message.                               *)

\* A nonempty set of natural numbers has a least element.
LEMMA LeastNat ==
  ASSUME NEW S \in SUBSET Nat, S # {}
  PROVE  \E m \in S : \A n \in S : m <= n
<1>1. PICK m \in S : \A n \in S : ~ (<<n, m>> \in OpToRel(<, Nat))
  BY NatLessThanWellFounded, WFMin
<1>2. \A n \in S : ~ (n < m)
  BY <1>1 DEF OpToRel
<1> QED BY <1>2

\* Max of a nonempty set of numbers is a member and no smaller than any.
LEMMA MaxOf ==
  ASSUME NEW n \in Nat, NEW S \in SUBSET (0 .. n), S # {}
  PROVE  Max(S) \in S /\ \A x \in S : Max(S) >= x
<1> DEFINE T == {n - x : x \in S}
<1>1. T \in SUBSET Nat /\ T # {}
  <2>1. \A x \in S : x \in 0 .. n
    OBVIOUS
  <2>2. \A x \in S : n - x \in Nat
    BY <2>1
  <2> QED BY <2>2
<1> HIDE DEF T
<1>2. PICK m \in T : \A k \in T : m <= k
  BY <1>1, LeastNat
<1>3. PICK x \in S : m = n - x
  BY DEF T
<1>4. \A y \in S : x >= y
  <2> TAKE y \in S
  <2>1. n - y \in T /\ x \in 0 .. n /\ y \in 0 .. n
    BY <1>3 DEF T
  <2>2. m <= n - y
    BY <1>2, <2>1
  <2> QED BY <2>1, <2>2, <1>3
<1> QED BY <1>4 DEF Max

\* Numbering the members of a finite set of numbers: for every n up to its size
\* there is the n-th of them.
LEMMA Nth ==
  ASSUME NEW m \in Nat, NEW F \in SUBSET (1 .. m), NEW n \in 1 .. Cardinality(F)
  PROVE  \E i \in F : Cardinality({j \in F : j <= i}) = n
<1> DEFINE Upto(i) == {j \in F : j <= i}
           Enough == {i \in 0 .. m : Cardinality(Upto(i)) >= n}
<1> IsFiniteSet(1 .. m)
  BY FS_Interval
<1>0. \A i \in F : i \in 1 .. m
  OBVIOUS
<1>1. IsFiniteSet(F) /\ Cardinality(F) \in Nat
  BY FS_Subset, FS_CardinalityType
<1>2. \A i \in Int : IsFiniteSet(Upto(i)) /\ Cardinality(Upto(i)) \in Nat
  BY <1>1, FS_Subset, FS_CardinalityType
<1>3. Upto(m) = F
  <2>1. \A j \in F : j <= m
    BY <1>0
  <2> QED BY <2>1, Zenon
<1> HIDE DEF Upto
<1>4. Enough \in SUBSET Nat /\ m \in Enough
  BY <1>3, <1>1
<1> HIDE DEF Enough
<1>5. PICK i \in Enough : \A k \in Enough : i <= k
  BY <1>4, LeastNat
<1>6. i \in 0 .. m /\ Cardinality(Upto(i)) >= n
  BY <1>5 DEF Enough
<1>7. Upto(0) = {}
  <2>1. \A j \in F : ~(j <= 0)
    BY <1>0
  <2> QED BY <2>1, Zenon DEF Upto
<1>8. i # 0
  BY <1>6, <1>7, <1>1, FS_EmptySet, 0 < n
<1>9. Cardinality(Upto(i - 1)) < n
  <2>1. i - 1 \in 0 .. m /\ i - 1 < i
    BY <1>6, <1>8
  <2>2. i - 1 \notin Enough
    BY <1>5, <1>6, <2>1
  <2> QED BY <2>1, <2>2, <1>2, <1>1 DEF Enough
<1>10. Upto(i) = IF i \in F THEN Upto(i - 1) \cup {i} ELSE Upto(i - 1)
  <2>1. \A j \in F : j <= i <=> j <= i - 1 \/ j = i
    BY <1>0, <1>6
  <2> QED BY <2>1, <1>6 DEF Upto
<1>11. i \notin Upto(i - 1)
  BY <1>6 DEF Upto
<1>12. IsFiniteSet(Upto(i - 1)) /\ Cardinality(Upto(i - 1)) \in Nat /\ n \in Nat
  <2>1. i - 1 \in Int
    BY <1>6
  <2>2. IsFiniteSet(Upto(i - 1)) /\ Cardinality(Upto(i - 1)) \in Nat
    BY <1>2, <2>1
  <2> QED BY <1>1, <2>2
<1>13. Cardinality(Upto(i - 1) \cup {i}) = Cardinality(Upto(i - 1)) + 1
  BY <1>11, <1>12, FS_AddElement
<1>14. i \in F
  BY <1>10, <1>9, <1>6, <1>12
<1>15. Cardinality(Upto(i)) = n
  BY <1>10, <1>13, <1>14, <1>9, <1>6, <1>12
<1> QED BY <1>14, <1>15 DEF Upto

\* normalize_recipients returns no blank, not the author, and nobody twice,
\* whatever list it is given.
THEOREM Normalized ==
  ASSUME NEW S, NEW s \in Seq(S), NEW author
  PROVE  /\ Normalize(s, author) \in Seq(S \ {NoOne, author})
         /\ IsInjective(Normalize(s, author))
<1> DEFINE first(i) == s[i] \notin {NoOne, author} /\ \A j \in 1 .. i - 1 : s[j] # s[i]
           F == {i \in DOMAIN s : first(i)}
           Rank(i) == Cardinality({j \in 1 .. i : first(j)})
           At(n) == CHOOSE i \in DOMAIN s : first(i) /\ Rank(i) = n
           N == Cardinality(F)
<1>1. Len(s) \in Nat /\ DOMAIN s = 1 .. Len(s) /\ \A i \in DOMAIN s : s[i] \in S
  OBVIOUS
<1>2. F \in SUBSET (1 .. Len(s)) /\ N \in Nat
  <2>1. F \in SUBSET (1 .. Len(s)) /\ IsFiniteSet(1 .. Len(s))
    BY <1>1, FS_Interval
  <2> QED BY <2>1, FS_Subset, FS_CardinalityType
<1>3. \A i \in F : {j \in 1 .. i : first(j)} = {j \in F : j <= i}
  BY <1>1
<1> Normalize(s, author) = [n \in 1 .. N |-> s[At(n)]]
  BY DEF Normalize
<1>4. \A n \in 1 .. N : At(n) \in DOMAIN s /\ first(At(n)) /\ Rank(At(n)) = n
  <2> HIDE DEF first, F
  <2> TAKE n \in 1 .. N
  <2>1. PICK i \in F : Cardinality({j \in F : j <= i}) = n
    BY <1>1, <1>2, Nth
  <2>2. i \in DOMAIN s /\ first(i) /\ Rank(i) = n
    BY <2>1, <1>3 DEF F
  <2> QED BY <2>2
<1> HIDE DEF At, Rank
<1>5. \A n \in 1 .. N : s[At(n)] \in S \ {NoOne, author}
  BY <1>4, <1>1
<1>6. ASSUME NEW n \in 1 .. N, NEW k \in 1 .. N, s[At(n)] = s[At(k)] PROVE n = k
  <2>1. At(n) = At(k)
    BY <1>4, <1>1, <1>6
  <2> QED BY <1>4, <2>1
<1> HIDE DEF N
<1>7. [n \in 1 .. N |-> s[At(n)]] \in Seq(S \ {NoOne, author})
  BY <1>5, <1>2
<1>8. IsInjective([n \in 1 .. N |-> s[At(n)]])
  BY <1>6 DEF IsInjective
<1> QED BY <1>7, <1>8

-----------------------------------------------------------------------------
(* The inductive invariant.                                                *)

MsgType == [pc : {"unborn", "built", "checked", "calling", "done", "aborted", "lost"},
            author : Identities \cup {NoOne}, run : Runs \cup {NoRun}, to : Seq(Identities),
            snap : SUBSET Identities, at : Nat \ {0}, refused : SUBSET Assistants]

ReqType == [pc : {"unborn", "calling", "done", "refused"}, by : People \cup {NoOne},
            to : Seq(Identities \cup {NoOne}), snap : SUBSET Identities, at : Nat \ {0},
            key : Keys \cup {NoKey}]

RunType == [pc : {"unborn", "driving", "over"}, assistant : Assistants \cup {NoOne},
            by : Identities \cup {NoOne}, depth : Nat, key : Keys \cup {NoKey},
            cause : Messages \cup {NoMessage}, answer : Messages \cup {NoMessage, NotAsked},
            page : SUBSET Messages, ended : SUBSET Messages, asked : SUBSET Requests]

\* The types of the three tables, by name.
LEMMA Types ==
  /\ TypeOK <=> /\ members \subseteq Identities /\ changes \in 0 .. MaxChanges
                /\ msg \in [Messages -> MsgType] /\ req \in [Requests -> ReqType]
                /\ run \in [Runs -> RunType]
  /\ TypeOK' <=> /\ members' \subseteq Identities /\ changes' \in 0 .. MaxChanges
                 /\ msg' \in [Messages -> MsgType] /\ req' \in [Requests -> ReqType]
                 /\ run' \in [Runs -> RunType]
BY DEF TypeOK, MsgType, ReqType, RunType

Born(i) == msg[i].pc # "unborn"

\* Assistant a has a run that goes on after i was stored, or after q was asked.
HasRun(i, a) == \E r \in Runs : run[r].assistant = a /\ (Active(r) \/ i \in run[r].ended)
HasAsked(q, a) == \E r \in Runs : run[r].assistant = a /\ (Active(r) \/ q \in run[r].asked)

\* Or the request was given the run that carries its key.
Invited(q, a) == HasAsked(q, a) \/ Carrying(req[q].key) # {}

\* An id that was not drawn yet carries nothing.
InvFresh == \A r \in Runs : run[r].pc = "unborn" => run[r] = NewRun

\* Who publishes a message was started before.
InvWriter == \A i \in Messages : msg[i].run # NoRun => run[msg[i].run].pc # "unborn"

InvNames == \A i \in Messages : msg[i].author \notin ToSet(msg[i].to) /\ IsInjective(msg[i].to)

\* The loop of _auto_invoke_recipients stays inside its list and below the cap.
InvTurn == \A i \in Messages :
  /\ msg[i].pc \in {"built", "checked"} => msg[i].at = 1
  /\ msg[i].pc = "calling" => msg[i].at <= Len(msg[i].to) /\ ToInvoke(i)

\* A run that a message called carries its author and stands on its list, before
\* the place where the loop is.
InvCause == \A r \in Runs : Called(r) =>
  LET i == run[r].cause
  IN  /\ i \in Log
      /\ run[r].by = msg[i].author /\ run[r].assistant \in ToSet(msg[i].to)
      /\ msg[i].pc = "calling" => \E n \in 1 .. msg[i].at - 1 : msg[i].to[n] = run[r].assistant

\* Behind the place where a loop is, everybody has a run.
InvServed == \A i \in Messages : msg[i].pc = "calling" =>
  \A n \in 1 .. msg[i].at - 1, a \in Assistants \ msg[i].refused : msg[i].to[n] = a => HasRun(i, a)

InvInvited == \A q \in Requests : req[q].pc = "calling" =>
  /\ req[q].at <= Len(req[q].to)
  /\ \A n \in 1 .. req[q].at - 1, a \in Identities \cup {NoOne} : req[q].to[n] = a => Invited(q, a)

\* All of it, with the properties.
RInv == /\ TypeOK
        /\ InvFresh /\ InvWriter /\ InvNames /\ InvTurn /\ InvCause
        /\ InvServed /\ InvInvited
        /\ CalledOnce /\ TriggerIsFound /\ ChainBounded
        /\ AddresseeHasRun /\ InviteeHasRun

-----------------------------------------------------------------------------
(* What any step may do, told apart from which action does it.             *)

Opened == {q \in Requests : req[q].pc # "unborn"}

\* A run that goes on, or comes to its end after all that is stored by then.
Old(r) ==
  /\ run'[r].assistant = run[r].assistant /\ run'[r].by = run[r].by
  /\ run'[r].depth = run[r].depth /\ run'[r].cause = run[r].cause /\ run'[r].key = run[r].key
  /\ run[r].pc = "unborn" => run'[r] = run[r]
  /\ run[r].pc # "unborn" => run'[r].pc # "unborn"
  /\ run'[r].ended \in {run[r].ended, Log} /\ run'[r].asked \in {run[r].asked, Opened}
  /\ Active(r) => Active(r)' \/ (run'[r].ended = Log /\ run'[r].asked = Opened)

\* A run that is new, called by nobody or by the message whose turn it is.
Calls(i, r) ==
  /\ msg[i].pc = "calling"
  /\ run'[r].cause = i /\ run'[r].by = msg[i].author
  /\ run'[r].assistant = msg[i].to[msg[i].at] /\ run'[r].assistant \in Assistants
  /\ run'[r].depth = ParentDepth(i) + 1
  /\ msg'[i].pc \in {"calling", "done"}
  /\ msg'[i].pc = "calling" => msg'[i].at = msg[i].at + 1

Admitted(r) ==
  /\ run[r].pc = "unborn" /\ run'[r].pc = "driving" /\ run'[r].answer = NotAsked
  /\ \/ run'[r].cause = NoMessage /\ run'[r].depth = 0
     \/ \E i \in Messages : Calls(i, r)
  /\ \A s \in Runs \ {r} : run'[s] = run[s]

RunFacts == (\A r \in Runs : Old(r)) \/ \E r \in Runs : Admitted(r)

Kept(i) ==
  /\ msg'[i].author = msg[i].author /\ msg'[i].run = msg[i].run /\ msg'[i].to = msg[i].to
  /\ msg'[i].pc # "unborn"
  /\ i \in Log => i \in Log'

Written(i) ==
  /\ msg'[i].pc = "built" /\ msg'[i].at = 1
  /\ msg'[i].run = NoRun \/ run[msg'[i].run].pc # "unborn"
  /\ msg'[i].author \notin ToSet(msg'[i].to) /\ IsInjective(msg'[i].to)

\* One turn of the loop.
Turn(i) ==
  /\ msg[i].pc = "calling" /\ msg[i].refused \subseteq msg'[i].refused
  /\ msg[i].to[msg[i].at] \in Assistants \ msg'[i].refused =>
       \E r \in Runs : Active(r)' /\ run'[r].assistant = msg[i].to[msg[i].at]

Calling(i) ==
  \/ msg[i].pc = "calling" /\ msg'[i].at = msg[i].at /\ msg'[i].refused = msg[i].refused
  \/ msg[i].pc = "checked" /\ ToInvoke(i) /\ msg'[i].at = 1
  \/ Turn(i) /\ msg[i].at # Len(msg[i].to) /\ msg'[i].at = msg[i].at + 1

Done(i) ==
  \/ msg[i].pc = "done" /\ msg'[i].refused = msg[i].refused
  \/ msg[i].pc = "checked" /\ ~ToInvoke(i)
  \/ Turn(i) /\ msg[i].at = Len(msg[i].to)

MsgFacts == \A i \in Messages :
  /\ Born(i) => Kept(i)
  /\ ~Born(i) => msg'[i] = msg[i] \/ Written(i)
  /\ msg'[i].pc \in {"built", "checked"} => msg'[i].at = 1
  /\ Born(i) /\ msg'[i].pc = "calling" => Calling(i)
  /\ Born(i) /\ msg'[i].pc = "done" => Done(i)

\* What execute() leaves behind: an active run of the assistant, or a run with
\* the key.
Served(a, k) == \/ \E r \in Runs : Active(r)' /\ run'[r].assistant = a
                \/ \E r \in Runs : k # NoKey /\ run'[r].key = k

Asking(q) ==
  \/ /\ req[q].pc = "calling" /\ req'[q].at = req[q].at /\ req'[q].to = req[q].to
     /\ req'[q].key = req[q].key
  \/ req[q].pc = "unborn" /\ req'[q].at = 1 /\ req'[q].to # <<>>
  \/ /\ req[q].pc = "calling" /\ req[q].at # Len(req[q].to)
     /\ req'[q].at = req[q].at + 1 /\ req'[q].to = req[q].to /\ req'[q].key = req[q].key
     /\ Served(req[q].to[req[q].at], req[q].key)

Asked(q) ==
  /\ req'[q].to = req[q].to /\ req'[q].key = req[q].key
  /\ \/ req[q].pc = "done"
     \/ /\ req[q].pc = "calling" /\ req[q].at = Len(req[q].to)
        /\ Served(req[q].to[req[q].at], req[q].key)

ReqFacts == \A q \in Requests : /\ req'[q].pc = "calling" => Asking(q)
                                /\ req'[q].pc = "done" => Asked(q)

\* A run that was asked nothing in this step, or is asked for the first time and
\* answers with the newest message it finds.
Answering(r) ==
  \/ run'[r].answer = run[r].answer /\ run'[r].page = run[r].page /\ run'[r].cause = run[r].cause
  \/ run'[r].answer = NotAsked
  \/ /\ run'[r].page = Log /\ run'[r].cause = run[r].cause
     /\ run'[r].answer = Max(ForMe(r) \cup {NoMessage})

Facts == /\ TypeOK' /\ MsgFacts /\ RunFacts /\ ReqFacts
         /\ \A r \in Runs : Answering(r)

-----------------------------------------------------------------------------
(* Such a step preserves the invariant.                                    *)

\* A run that a step leaves alone.
LEMMA SameRun == ASSUME NEW r \in Runs, run'[r] = run[r] PROVE Old(r) /\ Answering(r)
BY DEF Old, Answering, Active

\* A run that was born stays what it was.
LEMMA OldRun ==
  ASSUME RunFacts, NEW r \in Runs, run[r].pc # "unborn"
  PROVE  Old(r)
<1>1. CASE \A o \in Runs : Old(o)
  BY <1>1
<1>2. ASSUME NEW o \in Runs, Admitted(o) PROVE Old(r)
  <2>1. run'[r] = run[r]
    BY <1>2 DEF Admitted
  <2> QED BY <2>1, SameRun
<1> QED BY <1>1, <1>2 DEF RunFacts

\* What a message counts as its chain depth does not change any more.
LEMMA DepthStays ==
  ASSUME RInv, Facts, NEW i \in Messages, Born(i)
  PROVE  ParentDepth(i)' = ParentDepth(i)
<1>1. msg'[i].run = msg[i].run
  BY DEF Facts, MsgFacts, Kept
<1>2. CASE msg[i].run = NoRun
  BY <1>1, <1>2 DEF ParentDepth
<1>3. CASE msg[i].run # NoRun
  <2>1. msg[i].run \in Runs /\ run[msg[i].run].pc # "unborn"
    BY <1>3 DEF RInv, TypeOK, InvWriter
  <2>2. run'[msg[i].run].depth = run[msg[i].run].depth
    BY <2>1, OldRun DEF Facts, Old
  <2> QED BY <1>1, <1>3, <2>2 DEF ParentDepth
<1> QED BY <1>2, <1>3

\* Nor does whether it calls anybody.
LEMMA InvokeStays ==
  ASSUME RInv, Facts, NEW i \in Messages, Born(i)
  PROVE  ToInvoke(i)' <=> ToInvoke(i)
BY DepthStays DEF ToInvoke, Facts, MsgFacts, Kept

\* Each part of the invariant in turn.
LEMMA FreshStays == ASSUME RInv, Facts PROVE InvFresh'
<1> SUFFICES ASSUME NEW r \in Runs, run'[r].pc = "unborn" PROVE run'[r] = NewRun
  BY DEF InvFresh, NewRun, NoMessage, NotAsked
<1>1. run[r].pc = "unborn"
  BY OldRun DEF Facts, Old
<1>2. run'[r] = run[r]
  BY <1>1 DEF Facts, RunFacts, Old, Admitted
<1> QED BY <1>1, <1>2 DEF RInv, InvFresh

\* Who publishes stays born.
LEMMA WriterStays == ASSUME RInv, Facts PROVE InvWriter'
<1> SUFFICES ASSUME NEW i \in Messages, msg'[i].run # NoRun PROVE run'[msg'[i].run].pc # "unborn"
  BY DEF InvWriter, NoRun
<1>1. msg'[i].run \in Runs
  BY DEF Facts, TypeOK
<1>2. run[msg'[i].run].pc # "unborn"
  BY DEF RInv, InvWriter, Facts, MsgFacts, Kept, Written
<1> QED BY <1>1, <1>2, OldRun DEF Facts, Old

\* Nobody rewrites a list of recipients.
LEMMA NamesStay == ASSUME RInv, Facts PROVE InvNames'
BY DEF RInv, InvNames, Facts, MsgFacts, Kept, Written

\* The loop stays in its list and below the cap.
LEMMA TurnStays == ASSUME RInv, Facts PROVE InvTurn'
<1> SUFFICES ASSUME NEW i \in Messages, msg'[i].pc = "calling"
             PROVE  msg'[i].at <= Len(msg'[i].to) /\ ToInvoke(i)'
  BY DEF InvTurn, Facts, MsgFacts
<1>1. Born(i)
  BY DEF Facts, MsgFacts, Written, Born
<1>2. msg'[i].to = msg[i].to /\ Calling(i)
  BY <1>1 DEF Facts, MsgFacts, Kept
<1>3. msg[i].to \in Seq(Identities) /\ msg[i].at \in Nat
  BY DEF RInv, TypeOK
<1>4. CASE msg[i].pc = "calling"
  BY <1>1, <1>2, <1>3, <1>4, InvokeStays DEF RInv, InvTurn, Calling, Turn
<1>5. CASE msg[i].pc = "checked"
  BY <1>1, <1>2, <1>3, <1>5, InvokeStays DEF Calling, Turn, ToInvoke
<1> QED BY <1>2, <1>4, <1>5 DEF Calling, Turn

\* Whoever has a run for what is stored keeps it.
LEMMA RunStays ==
  ASSUME RInv, Facts, NEW a
  PROVE  /\ \A i \in Log : HasRun(i, a) => HasRun(i, a)'
         /\ \A q \in Requests : req[q].pc # "unborn" /\ HasAsked(q, a) => HasAsked(q, a)'
<1>1. ASSUME NEW r \in Runs, run[r].ended # {} \/ run[r].asked # {} \/ Active(r)
      PROVE  Old(r)
  BY <1>1, OldRun DEF RInv, InvFresh, NewRun, Facts, Active
<1>2. ASSUME NEW i \in Log, HasRun(i, a) PROVE HasRun(i, a)'
  <2>1. PICK r \in Runs : run[r].assistant = a /\ (Active(r) \/ i \in run[r].ended)
    BY <1>2 DEF HasRun
  <2>2. Old(r)
    BY <1>1, <2>1
  <2>3. run'[r].assistant = a /\ (Active(r)' \/ i \in run'[r].ended)
    BY <2>1, <2>2 DEF Old
  <2> QED BY <2>3 DEF HasRun
<1>3. ASSUME NEW q \in Requests, req[q].pc # "unborn", HasAsked(q, a) PROVE HasAsked(q, a)'
  <2>1. PICK r \in Runs : run[r].assistant = a /\ (Active(r) \/ q \in run[r].asked)
    BY <1>3 DEF HasAsked
  <2>2. Old(r)
    BY <1>1, <2>1
  <2>3. run'[r].assistant = a /\ (Active(r)' \/ q \in run'[r].asked)
    BY <1>3, <2>1, <2>2 DEF Old, Opened
  <2> QED BY <2>3 DEF HasAsked
<1> QED BY <1>2, <1>3

\* A turn leaves nobody behind.
LEMMA ServedStays == ASSUME RInv, Facts PROVE InvServed'
<1> SUFFICES ASSUME NEW i \in Messages, msg'[i].pc = "calling", NEW n \in 1 .. msg'[i].at - 1,
                    NEW a \in Assistants \ msg'[i].refused, msg'[i].to[n] = a
             PROVE  HasRun(i, a)'
  BY DEF InvServed
<1>1. Born(i)
  BY DEF Facts, MsgFacts, Written, Born
<1>2. msg'[i].to = msg[i].to /\ Calling(i)
  BY <1>1 DEF Facts, MsgFacts, Kept
<1>3. msg[i].at \in Nat
  BY DEF RInv, TypeOK
<1>4. CASE msg[i].pc = "checked"
  BY <1>2, <1>4 DEF Calling, Turn
<1>5. CASE msg[i].pc = "calling" /\ n \in 1 .. msg[i].at - 1
  <2>1. HasRun(i, a) /\ i \in Log
    BY <1>2, <1>5 DEF RInv, InvServed, Calling, Turn, Log
  <2> QED BY <2>1, RunStays
<1>6. CASE msg[i].pc = "calling" /\ n \notin 1 .. msg[i].at - 1
  <2>1. Turn(i) /\ n = msg[i].at
    BY <1>2, <1>3, <1>6 DEF Calling
  <2> QED BY <1>2, <2>1 DEF Turn, HasRun
<1> QED BY <1>2, <1>4, <1>5, <1>6 DEF Calling, Turn

\* Nor does the last one.
LEMMA AddresseeStays == ASSUME RInv, Facts PROVE AddresseeHasRun'
<1> SUFFICES ASSUME NEW i \in Messages, msg'[i].pc = "done",
                    msg'[i].run = NoRun \/ ParentDepth(i)' < ChainDepthCap,
                    NEW a \in (ToSet(msg'[i].to) \cap Assistants) \ msg'[i].refused
             PROVE  HasRun(i, a)'
  BY DEF AddresseeHasRun, HasRun, NoRun
<1>1. Born(i)
  BY DEF Facts, MsgFacts, Written, Born
<1>2. msg'[i].to = msg[i].to /\ msg'[i].run = msg[i].run /\ Done(i) /\ ParentDepth(i)' = ParentDepth(i)
  BY <1>1, DepthStays DEF Facts, MsgFacts, Kept
<1>3. msg[i].to \in Seq(Identities) /\ msg[i].at \in Nat
  BY DEF RInv, TypeOK
<1>4. CASE msg[i].pc = "done"
  <2>1. HasRun(i, a) /\ i \in Log
    BY <1>2, <1>4 DEF RInv, AddresseeHasRun, HasRun, Done, Turn, Log
  <2> QED BY <2>1, RunStays
<1>5. CASE msg[i].pc = "checked"
  <2>1. ToSet(msg[i].to) = {}
    BY <1>2, <1>5 DEF Done, Turn, ToInvoke, ToSet
  <2> QED BY <1>2, <2>1
<1>6. CASE msg[i].pc = "calling"
  <2>1. Turn(i) /\ msg[i].at = Len(msg[i].to)
    BY <1>2, <1>6 DEF Done
  <2>2. PICK n \in 1 .. msg[i].at : a = msg[i].to[n]
    BY <1>2, <1>3, <2>1 DEF ToSet
  <2>3. CASE n = msg[i].at
    BY <2>1, <2>2, <2>3 DEF Turn, HasRun
  <2>4. CASE n # msg[i].at
    <3>1. HasRun(i, a) /\ i \in Log
      BY <1>3, <1>6, <2>1, <2>2, <2>4 DEF RInv, InvServed, Turn, Log
    <3> QED BY <3>1, RunStays
  <2> QED BY <2>3, <2>4
<1> QED BY <1>2, <1>4, <1>5, <1>6 DEF Done, Turn

\* A run keeps its key, so a key that is carried stays carried.
LEMMA KeyStays ==
  ASSUME RInv, Facts, NEW k, Carrying(k) # {}
  PROVE  \E r \in Runs : k # NoKey /\ run'[r].key = k
<1>1. PICK r \in Runs : k # NoKey /\ run[r].key = k
  BY DEF Carrying
<1>2. run[r].pc # "unborn"
  BY <1>1 DEF RInv, InvFresh, NewRun
<1> QED BY <1>1, <1>2, OldRun DEF Facts, Old

\* Whoever is invited stays so, and who is served is.
LEMMA InvitationStays ==
  ASSUME RInv, Facts, NEW q \in Requests, NEW a, req[q].pc # "unborn", req'[q].key = req[q].key,
         Invited(q, a) \/ Served(a, req[q].key)
  PROVE  Invited(q, a)'
<1> USE DEF Invited
<1>1. (\E r \in Runs : req[q].key # NoKey /\ run'[r].key = req[q].key) => Invited(q, a)'
  BY DEF Carrying
<1>2. CASE HasAsked(q, a)
  BY <1>2, RunStays
<1>3. CASE Carrying(req[q].key) # {}
  BY <1>1, <1>3, KeyStays
<1>4. CASE Served(a, req[q].key)
  BY <1>1, <1>4 DEF Served, HasAsked
<1> QED BY <1>2, <1>3, <1>4

\* The same for explicit requests.
LEMMA InvitedStays == ASSUME RInv, Facts PROVE InvInvited' /\ InviteeHasRun'
<1>1. ASSUME NEW q \in Requests, req'[q].pc = "calling"
      PROVE  /\ req'[q].at <= Len(req'[q].to)
             /\ \A n \in 1 .. req'[q].at - 1, a \in Identities \cup {NoOne} :
                  req'[q].to[n] = a => Invited(q, a)'
  <2>1. Asking(q)
    BY <1>1 DEF Facts, ReqFacts
  <2>2. req[q].at \in Nat /\ req[q].to \in Seq(Identities \cup {NoOne})
        /\ req'[q].to \in Seq(Identities \cup {NoOne})
    BY DEF RInv, Facts, TypeOK
  <2>3. CASE req[q].pc = "unborn"
    BY <2>1, <2>2, <2>3 DEF Asking
  <2>4. CASE req[q].pc = "calling"
    <3>1. req'[q].to = req[q].to /\ req'[q].key = req[q].key /\ req'[q].at <= Len(req[q].to)
      BY <2>1, <2>2, <2>4 DEF Asking, RInv, InvInvited
    <3>2. ASSUME NEW n \in 1 .. req'[q].at - 1, NEW a \in Identities \cup {NoOne}, req[q].to[n] = a
          PROVE  Invited(q, a)'
      <4>1. CASE n \in 1 .. req[q].at - 1
        <5>1. Invited(q, a)
          BY <2>4, <3>2, <4>1 DEF RInv, InvInvited
        <5> QED BY <2>4, <3>1, <5>1, InvitationStays
      <4>2. CASE n \notin 1 .. req[q].at - 1
        <5>1. n = req[q].at /\ Served(req[q].to[req[q].at], req[q].key)
          BY <2>1, <2>2, <2>4, <4>2 DEF Asking
        <5> QED BY <2>4, <3>1, <3>2, <5>1, InvitationStays
      <4> QED BY <4>1, <4>2
    <3> QED BY <3>1, <3>2
  <2> QED BY <2>1, <2>3, <2>4 DEF Asking
<1>2. ASSUME NEW q \in Requests, req'[q].pc = "done", NEW a \in ToSet(req'[q].to)
      PROVE  Invited(q, a)'
  <2>1. Asked(q)
    BY <1>2 DEF Facts, ReqFacts
  <2>2. req[q].at \in Nat /\ req[q].to \in Seq(Identities \cup {NoOne}) /\ req'[q].to = req[q].to
        /\ req'[q].key = req[q].key
    BY <2>1 DEF RInv, TypeOK, Asked
  <2>3. CASE req[q].pc = "done"
    <3>1. Invited(q, a)
      BY <1>2, <2>2, <2>3 DEF RInv, InviteeHasRun, Invited, HasAsked
    <3> QED BY <2>2, <2>3, <3>1, InvitationStays
  <2>4. CASE req[q].pc = "calling"
    <3>1. PICK n \in 1 .. req[q].at : a = req[q].to[n]
      BY <2>1, <2>2, <2>4 DEF Asked, ToSet
    <3>2. CASE n = req[q].at
      <4>1. Served(a, req[q].key)
        BY <2>1, <2>4, <3>1, <3>2 DEF Asked
      <4> QED BY <2>2, <2>4, <4>1, InvitationStays
    <3>3. CASE n # req[q].at
      <4>1. a \in Identities \cup {NoOne}
        BY <1>2, <2>2 DEF ToSet
      <4>2. Invited(q, a)
        BY <2>2, <2>4, <3>1, <3>3, <4>1 DEF RInv, InvInvited
      <4> QED BY <2>2, <2>4, <4>2, InvitationStays
    <3> QED BY <3>2, <3>3
  <2> QED BY <2>1, <2>3, <2>4 DEF Asked
<1> QED BY <1>1, <1>2 DEF InvInvited, InviteeHasRun, Invited, HasAsked

\* What called a run stays stored, and the loop is past it.
LEMMA CauseStays == ASSUME RInv, Facts PROVE InvCause'
<1>a. \A r \in Runs : Called(r)' => run'[r].cause \in Messages /\ run'[r].cause # NoMessage
  BY DEF Called, Facts, TypeOK, NoMessage
<1> SUFFICES ASSUME NEW r \in Runs, NEW i \in Messages, run'[r].cause = i, i # NoMessage
             PROVE  /\ i \in Log'
                    /\ run'[r].by = msg'[i].author /\ run'[r].assistant \in ToSet(msg'[i].to)
                    /\ msg'[i].pc = "calling" => \E n \in 1 .. msg'[i].at - 1 : msg'[i].to[n] = run'[r].assistant
  BY <1>a DEF InvCause
<1>0. msg[i].at \in Nat \ {0} /\ msg[i].to \in Seq(Identities)
  BY DEF RInv, TypeOK
<1>1. CASE run[r].cause = i /\ run'[r].by = run[r].by /\ run'[r].assistant = run[r].assistant
  <2>1. /\ i \in Log /\ run[r].by = msg[i].author /\ run[r].assistant \in ToSet(msg[i].to)
        /\ msg[i].pc = "calling" => \E n \in 1 .. msg[i].at - 1 : msg[i].to[n] = run[r].assistant
    BY <1>1 DEF RInv, InvCause, Called
  <2>2. Born(i) /\ msg[i].pc # "checked"
    BY <2>1 DEF Log, Born
  <2>3. Kept(i) /\ (msg'[i].pc = "calling" => Calling(i))
    BY <2>2 DEF Facts, MsgFacts
  <2>4. msg'[i].pc = "calling" => msg[i].pc = "calling" /\ msg'[i].at \in {msg[i].at, msg[i].at + 1}
    BY <2>2, <2>3 DEF Calling, Turn
  <2> QED BY <1>0, <1>1, <2>1, <2>3, <2>4 DEF Kept
<1>2. CASE Calls(i, r)
  <2>1. Kept(i) /\ i \in Log /\ msg[i].at \in 1 .. Len(msg[i].to)
    BY <1>0, <1>2 DEF Calls, Facts, MsgFacts, Born, Log, RInv, InvTurn
  <2> QED BY <1>0, <1>2, <2>1 DEF Calls, Kept, ToSet
<1>3. CASE \A o \in Runs : Old(o)
  BY <1>1, <1>3 DEF Old
<1>4. ASSUME NEW o \in Runs, Admitted(o) PROVE run'[r] = run[r] \/ Calls(i, r)
  BY <1>4 DEF Admitted, Calls
<1> QED BY <1>1, <1>2, <1>3, <1>4 DEF Facts, RunFacts

\* A new run has the place in the list that no run had before.
LEMMA CalledOnceStays == ASSUME RInv, Facts PROVE CalledOnce'
<1>1. InvNames' /\ InvCause'
  BY NamesStay, CauseStays
<1>2. \A i \in Log' : msg'[i].author \notin ToSet(msg'[i].to) /\ IsInjective(msg'[i].to)
  BY <1>1 DEF InvNames, Log
<1>3. \A r \in Runs : Called(r)' => run'[r].by # run'[r].assistant
  BY <1>1 DEF InvNames, InvCause, Log
<1>4. ASSUME NEW r \in Runs, NEW s \in Runs, Called(r)', run'[r].cause = run'[s].cause,
             run'[r].assistant = run'[s].assistant, r # s
      PROVE  FALSE
  <2>1. CASE \A o \in Runs : Old(o)
    BY <1>4, <2>1 DEF Old, Called, RInv, CalledOnce
  <2>2. ASSUME NEW o \in Runs, NEW p \in Runs, o # p, Admitted(o), Called(o)',
               run'[o].cause = run'[p].cause, run'[o].assistant = run'[p].assistant
        PROVE  FALSE
    <3>1. PICK i \in Messages : Calls(i, o)
      BY <2>2 DEF Admitted, Called
    <3>2. run[p].cause = i /\ run[p].assistant = msg[i].to[msg[i].at] /\ i # NoMessage
      BY <2>2, <3>1 DEF Admitted, Calls, Called
    <3>3. PICK n \in 1 .. msg[i].at - 1 : msg[i].to[n] = msg[i].to[msg[i].at]
      BY <3>1, <3>2 DEF Calls, RInv, InvCause, Called
    <3>4. msg[i].at \in Nat \ {0} /\ msg[i].to \in Seq(Identities) /\ msg[i].at <= Len(msg[i].to)
      BY <3>1 DEF Calls, RInv, InvTurn, TypeOK
    <3>5. n \in DOMAIN msg[i].to /\ msg[i].at \in DOMAIN msg[i].to /\ n # msg[i].at
      BY <3>4
    <3> QED BY <3>3, <3>5 DEF RInv, InvNames, IsInjective
  <2>3. ASSUME NEW o \in Runs, Admitted(o), o # r, o # s PROVE FALSE
    <3>1. run'[r] = run[r] /\ run'[s] = run[s]
      BY <2>3 DEF Admitted
    <3> QED BY <1>4, <3>1 DEF Called, RInv, CalledOnce
  <2>4. Called(s)'
    BY <1>4 DEF Called
  <2> QED BY <1>4, <2>1, <2>2, <2>3, <2>4 DEF Facts, RunFacts
<1> QED BY <1>2, <1>3, <1>4 DEF CalledOnce

\* On a page as long as the log stands what called the run.
LEMMA CauseIsRead ==
  ASSUME RInv, NEW r \in Runs, Called(r), Cardinality(Log) <= Lookback
  PROVE  run[r].cause \in ForMe(r)
<1> DEFINE i == run[r].cause
           Older == {j \in Log : j < i}
<1>1. i \in Log /\ run[r].by = msg[i].author /\ run[r].assistant \in ToSet(msg[i].to)
  BY DEF RInv, InvCause
<1>2. IsFiniteSet(Messages) /\ Log \in SUBSET Messages
  BY RoutingAssumption, FS_Interval DEF Messages, Log
<1>3. IsFiniteSet(Log) /\ Cardinality(Log) \in Nat
  BY <1>2, FS_Subset, FS_CardinalityType
<1>4. i \notin Older /\ Older \in SUBSET Log
  BY <1>1, <1>2 DEF Messages
<1> HIDE DEF i, Older
<1>5. Older # Log
  BY <1>1, <1>4
<1>6. IsFiniteSet(Older) /\ Cardinality(Older) <= Cardinality(Log) /\ Cardinality(Older) # Cardinality(Log)
  BY <1>3, <1>4, <1>5, FS_Subset
<1>7. Cardinality(Older) \in Nat
  BY <1>6, FS_CardinalityType
<1>8. Cardinality(Older) < Lookback
  BY <1>3, <1>6, <1>7, RoutingAssumption
<1>9. i \in Oldest(Log, Lookback)
  BY <1>1, <1>8 DEF Oldest, Older
<1> QED BY <1>1, <1>9 DEF ForMe, i

\* The answer of query_event is no older than anything it finds.
LEMMA Newest ==
  ASSUME NEW r \in Runs
  PROVE  LET m == Max(ForMe(r) \cup {NoMessage})
         IN  m \in Messages \cup {NoMessage} /\ \A i \in ForMe(r) : m >= i
<1>1. ForMe(r) \cup {NoMessage} \in SUBSET (0 .. MaxMessages) /\ MaxMessages \in Nat
  BY RoutingAssumption DEF ForMe, Oldest, Log, Messages, NoMessage
<1>2. ForMe(r) \subseteq Messages
  BY DEF ForMe, Oldest, Log
<1> QED BY <1>1, <1>2, MaxOf

\* So the answer is no older than what called the run.
LEMMA FoundStays == ASSUME RInv, Facts PROVE TriggerIsFound'
<1> SUFFICES ASSUME NEW r \in Runs, Called(r)'
             PROVE  /\ run'[r].cause \in Log'
                    /\ run'[r].answer # NotAsked /\ Cardinality(run'[r].page) <= Lookback
                         => run'[r].answer >= run'[r].cause
  BY DEF TriggerIsFound, NotAsked
<1>1. run'[r].cause \in Log'
  BY CauseStays DEF InvCause
<1>2. CASE run'[r].answer = run[r].answer /\ run'[r].page = run[r].page /\ run'[r].cause = run[r].cause
  BY <1>1, <1>2 DEF RInv, TriggerIsFound, Called
<1>3. CASE run'[r].page = Log /\ run'[r].cause = run[r].cause
           /\ run'[r].answer = Max(ForMe(r) \cup {NoMessage})
  <2>1. Called(r)
    BY <1>3 DEF Called
  <2> QED BY <1>1, <1>3, <2>1, CauseIsRead, Newest
<1> QED BY <1>1, <1>2, <1>3 DEF Facts, Answering

\* Depth is counted once, when a run starts.
LEMMA ChainStays == ASSUME RInv, Facts PROVE ChainBounded'
<1> SUFFICES ASSUME NEW r \in Runs
             PROVE  /\ run'[r].depth <= ChainDepthCap
                    /\ \A i \in Messages : run'[r].cause = i /\ i # NoMessage
                                             => run'[r].depth = ParentDepth(i)' + 1
  BY DEF ChainBounded, Called, Facts, TypeOK, NoMessage
<1>1. CASE run'[r].depth = run[r].depth /\ run'[r].cause = run[r].cause
  <2>1. ASSUME NEW i \in Messages, run[r].cause = i, i # NoMessage
        PROVE  run[r].depth = ParentDepth(i) + 1 /\ ParentDepth(i)' = ParentDepth(i)
    <3>1. i \in Log
      BY <2>1 DEF RInv, InvCause, Called
    <3> QED BY <2>1, <3>1, DepthStays DEF RInv, ChainBounded, Called, Log, Born
  <2> QED BY <1>1, <2>1 DEF RInv, ChainBounded
<1>2. CASE Admitted(r)
  <2>1. CASE run'[r].cause = NoMessage /\ run'[r].depth = 0
    BY <2>1, RoutingAssumption
  <2>2. ASSUME NEW i \in Messages, Calls(i, r)
        PROVE  /\ run'[r].depth <= ChainDepthCap
               /\ run'[r].cause = i /\ run'[r].depth = ParentDepth(i)' + 1
    <3>1. Born(i) /\ ToInvoke(i)
      BY <2>2 DEF Calls, Born, RInv, InvTurn
    <3>2. ParentDepth(i)' = ParentDepth(i)
      BY <3>1, DepthStays
    <3>3. ParentDepth(i) \in Nat /\ ParentDepth(i) < ChainDepthCap
      BY <3>1, RoutingAssumption DEF ToInvoke, ParentDepth, RInv, TypeOK
    <3> QED BY <2>2, <3>2, <3>3, RoutingAssumption DEF Calls
  <2> QED BY <1>2, <2>1, <2>2 DEF Admitted
<1>3. ASSUME NEW o \in Runs, o # r, Admitted(o) PROVE run'[r] = run[r]
  BY <1>3 DEF Admitted
<1> QED BY <1>1, <1>2, <1>3 DEF Facts, RunFacts, Old

\* Together: such a step keeps the invariant.
LEMMA Preserved == ASSUME RInv, Facts PROVE RInv'
BY FreshStays, WriterStays, NamesStay, TurnStays, CauseStays, ServedStays, InvitedStays,
   CalledOnceStays, FoundStays, ChainStays, AddresseeStays DEF RInv, Facts

-----------------------------------------------------------------------------
(* Every action is such a step.                                            *)

\* A step on no message.
LEMMA SameMsgs == ASSUME RInv, msg' = msg PROVE MsgFacts
BY DEF RInv, InvTurn, MsgFacts, Kept, Born, Log, Calling, Done

\* A step on no request.
LEMMA SameReqs == ASSUME req' = req PROVE ReqFacts
BY DEF ReqFacts, Asking, Asked

\* A step on no run.
LEMMA SameRuns == ASSUME run' = run PROVE RunFacts /\ \A r \in Runs : Answering(r)
BY SameRun DEF RunFacts

\* A driver ends.
LEMMA EndFacts ==
  ASSUME RInv, NEW r \in Runs, run[r].pc # "unborn", run' = End(r)
  PROVE  run' \in [Runs -> RunType] /\ RunFacts /\ \A o \in Runs : Answering(o)
<1>1. Log \subseteq Messages /\ Opened \subseteq Requests
  BY DEF Log, Opened
<1>2. run' = [run EXCEPT ![r].pc = "over", ![r].ended = Log, ![r].asked = Opened]
  BY DEF End, Opened
<1>3. run \in [Runs -> RunType]
  BY DEF RInv, TypeOK, RunType
<1> HIDE DEF Log, Opened
<1> DEFINE new == [run[r] EXCEPT !.pc = "over", !.ended = Log, !.asked = Opened]
<1>4. /\ new \in RunType /\ new.pc = "over" /\ new.ended = Log /\ new.asked = Opened
      /\ new.assistant = run[r].assistant /\ new.by = run[r].by /\ new.depth = run[r].depth
      /\ new.cause = run[r].cause /\ new.answer = run[r].answer /\ new.page = run[r].page
      /\ new.key = run[r].key
  <2>1. run[r] \in RunType
    BY <1>3
  <2> QED BY <1>1, <2>1 DEF RunType
<1>5. run' = [run EXCEPT ![r] = new]
  BY <1>2, <1>3
<1> HIDE DEF new
<1>6. run' \in [Runs -> RunType] /\ run'[r] = new /\ \A o \in Runs \ {r} : run'[o] = run[o]
  BY <1>3, <1>4, <1>5
<1>7. Old(r) /\ Answering(r)
  BY <1>4, <1>6 DEF Old, Answering
<1> QED BY <1>6, <1>7, SameRun DEF RunFacts

\* A new run.
Fill(r, a, by, depth, cause) ==
  /\ run[r].pc = "unborn" /\ run'[r].pc = "driving" /\ run'[r].answer = NotAsked
  /\ run'[r].assistant = a /\ run'[r].by = by /\ run'[r].depth = depth /\ run'[r].cause = cause
  /\ \A s \in Runs \ {r} : run'[s] = run[s]

\* What execute() does: afterwards the assistant has an active run, old or new,
\* or the key has one.
LEMMA ExecuteFacts ==
  ASSUME RInv, NEW a \in Assistants, NEW by \in Identities \cup {NoOne}, NEW depth \in Nat,
         NEW cause \in Messages \cup {NoMessage}, NEW k \in Keys \cup {NoKey},
         Execute(a, by, depth, cause, k)
  PROVE  /\ run' \in [Runs -> RunType]
         /\ Served(a, k)
         /\ \A r \in Runs : Answering(r)
         /\ run' = run \/ \E r \in Runs : Fill(r, a, by, depth, cause)
<1>1. CASE Answers(a) \cup Carrying(k) # {} /\ UNCHANGED run
  <2>1. run \in [Runs -> RunType]
    BY DEF RInv, TypeOK, RunType
  <2>2. Served(a, k)
    BY <1>1 DEF Answers, Carrying, Active, Served
  <2> QED BY <1>1, <2>1, <2>2 DEF Answering
<1>2. CASE ~(Answers(a) \cup Carrying(k) # {} /\ UNCHANGED run)
  <2>1. PICK r \in Fresh :
          run' = [run EXCEPT ![r] = [NewRun EXCEPT !.pc = "driving", !.assistant = a, !.by = by,
                                       !.depth = depth, !.cause = cause, !.key = k]]
    BY <1>2 DEF Execute
  <2>2. r \in Runs /\ run[r].pc = "unborn" /\ run \in [Runs -> RunType]
    BY <2>1 DEF Fresh, RInv, TypeOK, RunType
  <2> DEFINE new == [NewRun EXCEPT !.pc = "driving", !.assistant = a, !.by = by,
                                   !.depth = depth, !.cause = cause, !.key = k]
  <2>3. /\ new \in RunType /\ new.pc = "driving" /\ new.answer = NotAsked
        /\ new.assistant = a /\ new.by = by /\ new.depth = depth /\ new.cause = cause
    BY DEF RunType, NewRun
  <2> HIDE DEF new
  <2>4. run' = [run EXCEPT ![r] = new]
    BY <2>1 DEF new
  <2>5. run' \in [Runs -> RunType] /\ run'[r] = new /\ \A s \in Runs \ {r} : run'[s] = run[s]
    BY <2>2, <2>3, <2>4
  <2> QED BY <2>2, <2>3, <2>5 DEF Fill, Answering, Active, Served
<1> QED BY <1>1, <1>2

\* A run that no message called.
LEMMA PlainRun ==
  ASSUME NEW a, NEW by, run' = run \/ \E r \in Runs : Fill(r, a, by, 0, NoMessage)
  PROVE  RunFacts
BY SameRuns DEF Fill, RunFacts, Admitted

-----------------------------------------------------------------------------
(* The actions on messages.                                                *)

\* A message that a step leaves alone.
LEMMA SameMsg ==
  ASSUME RInv, NEW i \in Messages, msg'[i] = msg[i]
  PROVE  /\ Born(i) => Kept(i)
         /\ ~Born(i) => msg'[i] = msg[i] \/ Written(i)
         /\ msg'[i].pc \in {"built", "checked"} => msg'[i].at = 1
         /\ Born(i) /\ msg'[i].pc = "calling" => Calling(i)
         /\ Born(i) /\ msg'[i].pc = "done" => Done(i)
BY DEF RInv, InvTurn, Kept, Born, Log, Calling, Done

\* One message that was born moves on.
LEMMA Move ==
  ASSUME RInv, NEW i \in Messages, NEW new \in MsgType, msg' = [msg EXCEPT ![i] = new],
         new.author = msg[i].author, new.run = msg[i].run, new.to = msg[i].to,
         Born(i), new.pc \notin {"unborn", "built"},
         i \in Log => new.pc \in {"calling", "done", "aborted"},
         new.pc = "checked" => new.at = 1
  PROVE  /\ msg' \in [Messages -> MsgType] /\ msg'[i] = new
         /\ (new.pc = "calling" => Calling(i)) /\ (new.pc = "done" => Done(i)) => MsgFacts
<1>1. msg \in [Messages -> MsgType]
  BY Types DEF RInv
<1>2. msg' \in [Messages -> MsgType] /\ msg'[i] = new /\ \A j \in Messages \ {i} : msg'[j] = msg[j]
  BY <1>1
<1>3. Kept(i)
  BY <1>2 DEF Kept, Log
<1> QED BY <1>2, <1>3, SameMsg DEF MsgFacts

\* A message is written.
LEMMA WriteFacts ==
  ASSUME RInv, NEW i \in NextMessage, NEW author \in Identities \cup {NoOne}, NEW r \in Runs \cup {NoRun},
         r = NoRun \/ run[r].pc # "unborn", NEW draft \in Drafts, Write(i, author, r, draft)
  PROVE  msg' \in [Messages -> MsgType] /\ MsgFacts
<1> DEFINE to == Normalize(draft, author)
           new == [NewMessage EXCEPT !.pc = "built", !.author = author, !.run = r, !.to = to]
<1>1. draft \in Seq(Identities \cup {NoOne})
  BY RoutingAssumption DEF Identities
<1>2. to \in Seq((Identities \cup {NoOne}) \ {NoOne, author}) /\ IsInjective(to)
  BY <1>1, Normalized
<1> HIDE DEF to
<1>3. to \in Seq(Identities)
  <2>1. (Identities \cup {NoOne}) \ {NoOne, author} \subseteq Identities
    OBVIOUS
  <2> QED BY <1>2, <2>1
<1>4. author \notin ToSet(to)
  BY <1>2 DEF ToSet
<1>5. /\ new \in MsgType /\ new.pc = "built" /\ new.author = author /\ new.run = r /\ new.to = to
      /\ new.at = 1
  <2>1. new \in [pc : {"built"}, author : {author}, run : {r}, to : {to}, snap : {{}}, at : {1},
                 refused : {{}}]
    BY DEF NewMessage
  <2> HIDE DEF new
  <2> QED BY <1>3, <2>1 DEF MsgType
<1>6. msg' = [msg EXCEPT ![i] = new]
  BY DEF Write, to
<1> HIDE DEF new
<1>7. i \in Messages /\ ~Born(i) /\ msg \in [Messages -> MsgType]
  BY Types DEF NextMessage, Born, RInv
<1>8. msg' \in [Messages -> MsgType] /\ msg'[i] = new /\ \A j \in Messages \ {i} : msg'[j] = msg[j]
  BY <1>5, <1>6, <1>7
<1>9. Written(i)
  BY <1>2, <1>4, <1>5, <1>8 DEF Written
<1> QED BY <1>5, <1>7, <1>8, <1>9, SameMsg DEF MsgFacts

\* A message is sent over HTTP or the socket.
LEMMA SendFacts ==
  ASSUME RInv, NEW p \in People, NEW draft \in Drafts, Send(p, draft)
  PROVE  Facts
<1>1. msg' \in [Messages -> MsgType] /\ MsgFacts
  BY WriteFacts DEF Send, Identities
<1> QED BY <1>1, Types, SameReqs, SameRuns DEF Send, RInv, Facts

\* A handler yields one.
LEMMA SayFacts ==
  ASSUME RInv, NEW r \in Runs, NEW draft \in Drafts, Say(r, draft)
  PROVE  Facts
<1>1. run[r].pc # "unborn"
  BY DEF Say, Active
<1>2. run[r].assistant \in Identities \cup {NoOne}
  BY DEF RInv, TypeOK, Identities
<1>3. msg' \in [Messages -> MsgType] /\ MsgFacts
  BY <1>1, <1>2, WriteFacts DEF Say
<1> QED BY <1>3, Types, SameReqs, SameRuns DEF Say, RInv, Facts

\* The check of the recipients.
LEMMA CheckFacts ==
  ASSUME RInv, NEW i \in Messages, CheckRecipients(i)
  PROVE  Facts
<1>1. Born(i) /\ i \notin Log /\ msg[i].at = 1 /\ msg \in [Messages -> MsgType] /\ msg[i] \in MsgType
  BY Types DEF CheckRecipients, Born, Log, RInv, InvTurn
<1>2. CASE msg' = [msg EXCEPT ![i].pc = "checked", ![i].snap = members] /\ run' = run
  <2> DEFINE new == [msg[i] EXCEPT !.pc = "checked", !.snap = members]
  <2>1. members \in SUBSET Identities
    BY Types DEF RInv
  <2>2. /\ new \in MsgType /\ new.author = msg[i].author /\ new.run = msg[i].run
        /\ new.to = msg[i].to /\ new.pc = "checked" /\ new.at = 1
    BY <1>1, <2>1 DEF MsgType
  <2>3. msg' = [msg EXCEPT ![i] = new]
    BY <1>1, <1>2
  <2> HIDE DEF new
  <2>4. msg' \in [Messages -> MsgType] /\ MsgFacts
    BY <1>1, <2>2, <2>3, Move
  <2> QED BY <1>2, <2>4, Types, SameReqs, SameRuns DEF CheckRecipients, RInv, Facts
<1>3. CASE /\ msg' = [msg EXCEPT ![i].pc = "lost"]
           /\ run' = IF msg[i].run = NoRun THEN run ELSE End(msg[i].run)
  <2> DEFINE new == [msg[i] EXCEPT !.pc = "lost"]
  <2>1. /\ new \in MsgType /\ new.author = msg[i].author /\ new.run = msg[i].run
        /\ new.to = msg[i].to /\ new.pc = "lost"
    BY <1>1 DEF MsgType
  <2>2. msg' = [msg EXCEPT ![i] = new]
    BY <1>1, <1>3
  <2> HIDE DEF new
  <2>3. msg' \in [Messages -> MsgType] /\ MsgFacts
    BY <1>1, <2>1, <2>2, Move
  <2>4. run' \in [Runs -> RunType] /\ RunFacts /\ \A r \in Runs : Answering(r)
    <3>1. CASE msg[i].run = NoRun
      BY <1>3, <3>1, Types, SameRuns DEF RInv
    <3>2. CASE msg[i].run # NoRun
      <4>1. msg[i].run \in Runs /\ run[msg[i].run].pc # "unborn" /\ run' = End(msg[i].run)
        BY <1>1, <1>3, <3>2 DEF MsgType, RInv, InvWriter
      <4> QED BY <4>1, EndFacts
    <3> QED BY <3>1, <3>2
  <2> QED BY <2>3, <2>4, Types, SameReqs DEF CheckRecipients, RInv, Facts
<1> QED BY <1>2, <1>3 DEF CheckRecipients

\* The append.
LEMMA AppendFacts ==
  ASSUME RInv, NEW i \in Messages, AppendMessage(i)
  PROVE  Facts
<1>1. /\ Born(i) /\ i \notin Log /\ msg[i].at = 1 /\ msg[i].pc = "checked"
      /\ msg \in [Messages -> MsgType] /\ msg[i] \in MsgType
  BY Types DEF AppendMessage, Born, Log, RInv, InvTurn
<1>2. msg' \in [Messages -> MsgType] /\ MsgFacts
  <2>1. CASE ToInvoke(i)
    <3> DEFINE new == [msg[i] EXCEPT !.pc = "calling"]
    <3>1. /\ new \in MsgType /\ new.author = msg[i].author /\ new.run = msg[i].run
          /\ new.to = msg[i].to /\ new.pc = "calling" /\ new.at = 1
      BY <1>1 DEF MsgType
    <3>2. msg' = [msg EXCEPT ![i] = new]
      BY <1>1, <2>1 DEF AppendMessage
    <3> HIDE DEF new
    <3>3. msg'[i] = new
      BY <1>1, <3>2
    <3>4. Calling(i)
      BY <1>1, <2>1, <3>1, <3>3 DEF Calling
    <3> QED BY <1>1, <3>1, <3>2, <3>4, Move
  <2>2. CASE ~ToInvoke(i)
    <3> DEFINE new == [msg[i] EXCEPT !.pc = "done", !.snap = {}]
    <3>1. /\ new \in MsgType /\ new.author = msg[i].author /\ new.run = msg[i].run
          /\ new.to = msg[i].to /\ new.pc = "done"
      BY <1>1 DEF MsgType
    <3>2. msg' = [msg EXCEPT ![i] = new]
      BY <1>1, <2>2 DEF AppendMessage
    <3> HIDE DEF new
    <3>3. Done(i)
      BY <1>1, <2>2 DEF Done
    <3> QED BY <1>1, <3>1, <3>2, <3>3, Move
  <2> QED BY <2>1, <2>2
<1> QED BY <1>2, Types, SameReqs, SameRuns DEF AppendMessage, RInv, Facts

\* A turn of the loop, whatever it did.
LEMMA AdvanceFacts ==
  ASSUME RInv, NEW i \in Messages, msg[i].pc = "calling", NEW no \in SUBSET Assistants,
         Advance(i, no),
         msg[i].to[msg[i].at] \in Assistants \ no =>
           \E r \in Runs : Active(r)' /\ run'[r].assistant = msg[i].to[msg[i].at]
  PROVE  /\ msg' \in [Messages -> MsgType] /\ MsgFacts
         /\ msg'[i].pc \in {"calling", "done"}
         /\ msg'[i].pc = "calling" => msg'[i].at = msg[i].at + 1
<1> DEFINE last == msg[i].at = Len(msg[i].to)
           new == [msg[i] EXCEPT !.at = IF last THEN 1 ELSE @ + 1, !.snap = IF last THEN {} ELSE @,
                                 !.pc = IF last THEN "done" ELSE @, !.refused = @ \cup no]
<1>1. Born(i) /\ i \in Log /\ msg \in [Messages -> MsgType] /\ msg[i] \in MsgType
  BY Types DEF Born, Log, RInv
<1>2. msg[i].at + 1 \in Nat \ {0} /\ msg[i].refused \cup no \in SUBSET Assistants
  BY <1>1 DEF MsgType
<1>3. /\ new \in MsgType /\ new.author = msg[i].author /\ new.run = msg[i].run /\ new.to = msg[i].to
      /\ new.pc = IF last THEN "done" ELSE "calling"
      /\ new.at = IF last THEN 1 ELSE msg[i].at + 1
      /\ new.refused = msg[i].refused \cup no
  <2> DEFINE at == IF last THEN 1 ELSE msg[i].at + 1
             snap == IF last THEN {} ELSE msg[i].snap
             pc == IF last THEN "done" ELSE msg[i].pc
             ref == msg[i].refused \cup no
  <2>1. msg[i] \in MsgType
    BY <1>1
  <2>2. at \in Nat \ {0} /\ snap \in SUBSET Identities /\ pc \in {"done", "calling"} /\ ref \in SUBSET Assistants
    BY <1>2, <2>1 DEF MsgType
  <2>3. new = [msg[i] EXCEPT !.at = at, !.snap = snap, !.pc = pc, !.refused = ref]
    BY <2>1 DEF MsgType
  <2> HIDE DEF new, at, snap, pc, ref
  <2>4. /\ new \in MsgType /\ new.author = msg[i].author /\ new.run = msg[i].run /\ new.to = msg[i].to
        /\ new.at = at /\ new.pc = pc /\ new.refused = ref
    BY <2>1, <2>2, <2>3 DEF MsgType
  <2> QED BY <2>4 DEF at, pc, ref
<1>4. msg' = [msg EXCEPT ![i] = new]
  BY <1>1 DEF Advance
<1> HIDE DEF new
<1>5. msg'[i] = new
  BY <1>1, <1>4
<1>6. Turn(i)
  BY <1>3, <1>5 DEF Turn
<1>7. (new.pc = "calling" => Calling(i)) /\ (new.pc = "done" => Done(i))
  BY <1>3, <1>5, <1>6 DEF Calling, Done
<1>8. msg' \in [Messages -> MsgType] /\ MsgFacts
  <2>1. new.pc \in {"calling", "done"}
    BY <1>3
  <2> QED BY <1>1, <1>3, <1>4, <1>7, <2>1, Move
<1> QED BY <1>3, <1>5, <1>8

\* So a turn of the loop is a step as allowed.
LEMMA AutoInvokeFacts ==
  ASSUME RInv, NEW i \in Messages, AutoInvoke(i)
  PROVE  Facts
<1> DEFINE a == msg[i].to[msg[i].at]
<1>0. msg[i].pc = "calling" /\ members' = members /\ req' = req /\ changes' = changes
  BY DEF AutoInvoke
<1>1. CASE a \notin Assistants /\ Advance(i, {}) /\ UNCHANGED run
  BY <1>0, <1>1, AdvanceFacts, Types, SameReqs, SameRuns DEF RInv, Facts
<1>2. CASE a \in Assistants /\ Advance(i, {a}) /\ UNCHANGED run
  BY <1>0, <1>2, AdvanceFacts, Types, SameReqs, SameRuns DEF RInv, Facts
<1>3. CASE /\ a \in Assistants \cap msg[i].snap
           /\ Execute(a, msg[i].author, ParentDepth(i) + 1, i, NoKey)
           /\ Advance(i, {})
  <2>1. ParentDepth(i) + 1 \in Nat /\ msg[i].author \in Identities \cup {NoOne}
    BY DEF ParentDepth, RInv, TypeOK
  <2>2. /\ run' \in [Runs -> RunType]
        /\ \E r \in Runs : Active(r)' /\ run'[r].assistant = a
        /\ \A r \in Runs : Answering(r)
        /\ run' = run \/ \E r \in Runs : Fill(r, a, msg[i].author, ParentDepth(i) + 1, i)
    <3>1. NoKey \in Keys \cup {NoKey} /\ i \in Messages \cup {NoMessage} /\ a \in Assistants
      BY <1>3
    <3> HIDE DEF a
    <3> QED BY <1>3, <2>1, <3>1, ExecuteFacts DEF Served
  <2>3. /\ msg' \in [Messages -> MsgType] /\ MsgFacts
        /\ msg'[i].pc \in {"calling", "done"}
        /\ msg'[i].pc = "calling" => msg'[i].at = msg[i].at + 1
    BY <1>0, <1>3, <2>2, AdvanceFacts
  <2>4. ASSUME NEW r \in Runs, Fill(r, a, msg[i].author, ParentDepth(i) + 1, i)
        PROVE  Admitted(r)
    BY <1>0, <1>3, <2>3, <2>4 DEF Fill, Admitted, Calls
  <2>5. RunFacts
    BY <2>2, <2>4, SameRuns DEF RunFacts
  <2> QED BY <1>0, <2>2, <2>3, <2>5, Types, SameReqs DEF RInv, Facts
<1> QED BY <1>1, <1>2, <1>3 DEF AutoInvoke

-----------------------------------------------------------------------------
(* The actions on invocations, runs and members.                           *)

\* One request moves on.
LEMMA Ask1 ==
  ASSUME RInv, NEW q \in Requests, NEW new \in ReqType, req' = [req EXCEPT ![q] = new]
  PROVE  /\ req' \in [Requests -> ReqType] /\ req'[q] = new
         /\ (new.pc = "calling" => Asking(q)) /\ (new.pc = "done" => Asked(q)) => ReqFacts
<1>1. req \in [Requests -> ReqType]
  BY Types DEF RInv
<1>2. req' \in [Requests -> ReqType] /\ req'[q] = new /\ \A s \in Requests \ {q} : req'[s] = req[s]
  BY <1>1
<1>3. ASSUME NEW s \in Requests \ {q}
      PROVE  (req'[s].pc = "calling" => Asking(s)) /\ (req'[s].pc = "done" => Asked(s))
  BY <1>2 DEF Asking, Asked
<1> QED BY <1>2, <1>3 DEF ReqFacts

\* An explicit request comes in.
LEMMA InvokeFacts ==
  ASSUME RInv, NEW p \in People, NEW to \in Invitations, Invoke(p, to)
  PROVE  Facts
<1>1. PICK q \in Requests, k \in Keys \cup {NoKey} :
        /\ req[q].pc = "unborn"
        /\ req' = [req EXCEPT ![q] = [NewRequest EXCEPT !.pc = "calling", !.by = p, !.to = to,
                                                        !.snap = members, !.key = k]]
  BY DEF Invoke
<1> DEFINE new == [NewRequest EXCEPT !.pc = "calling", !.by = p, !.to = to, !.snap = members, !.key = k]
<1>2. to \in Seq(Identities \cup {NoOne}) /\ to # <<>> /\ members \in SUBSET Identities
  BY RoutingAssumption, Types DEF Invoke, Identities, RInv
<1>3. new \in [pc : {"calling"}, by : {p}, to : {to}, snap : {members}, at : {1}, key : {k}]
  BY DEF NewRequest
<1>4. req' = [req EXCEPT ![q] = new]
  BY <1>1
<1> HIDE DEF new
<1>5. new \in ReqType /\ new.pc = "calling" /\ new.at = 1 /\ new.to = to
  BY <1>2, <1>3 DEF ReqType
<1>6. req' \in [Requests -> ReqType] /\ req'[q] = new
  BY <1>4, <1>5, Ask1
<1>7. Asking(q)
  BY <1>1, <1>2, <1>5, <1>6 DEF Asking
<1>8. ReqFacts
  BY <1>4, <1>5, <1>7, Ask1
<1> QED BY <1>6, <1>8, Types, SameMsgs, SameRuns DEF Invoke, RInv, Facts

\* One assistant of it is called or refused.
LEMMA InvokeNextFacts ==
  ASSUME RInv, NEW q \in Requests, InvokeNext(q)
  PROVE  Facts
<1> DEFINE a == req[q].to[req[q].at]
<1>0. /\ req[q].pc = "calling" /\ members' = members /\ msg' = msg /\ changes' = changes
      /\ req \in [Requests -> ReqType] /\ req[q] \in ReqType
  BY Types DEF InvokeNext, RInv
<1>1. CASE req' = [req EXCEPT ![q].pc = "refused", ![q].at = 1, ![q].snap = {}] /\ UNCHANGED run
  <2> DEFINE new == [req[q] EXCEPT !.pc = "refused", !.at = 1, !.snap = {}]
  <2>1. new \in ReqType /\ new.pc = "refused"
    <3> DEFINE one == 1
               none == {}
    <3>1. req[q] \in ReqType /\ one \in Nat \ {0} /\ none \in SUBSET Identities
      BY <1>0
    <3> HIDE DEF one, none
    <3>2. LET n == [req[q] EXCEPT !.pc = "refused", !.at = one, !.snap = none]
          IN  n \in ReqType /\ n.pc = "refused"
      BY <3>1 DEF ReqType
    <3> QED BY <3>2 DEF one, none
  <2>2. req' = [req EXCEPT ![q] = new]
    BY <1>0, <1>1
  <2> HIDE DEF new
  <2>3. req' \in [Requests -> ReqType] /\ ReqFacts
    BY <2>1, <2>2, Ask1
  <2> QED BY <1>0, <1>1, <2>3, Types, SameMsgs, SameRuns DEF RInv, Facts
<1>2. CASE /\ a \in Assistants \cap req[q].snap
           /\ Execute(a, req[q].by, 0, NoMessage, req[q].key)
           /\ req' = IF req[q].at = Len(req[q].to)
                     THEN [req EXCEPT ![q].pc = "done", ![q].at = 1, ![q].snap = {}]
                     ELSE [req EXCEPT ![q].at = @ + 1]
  <2>1. /\ req[q].by \in Identities \cup {NoOne} /\ 0 \in Nat /\ NoMessage \in Messages \cup {NoMessage}
        /\ req[q].key \in Keys \cup {NoKey}
    BY <1>0 DEF ReqType, Identities
  <2>2. /\ run' \in [Runs -> RunType]
        /\ Served(a, req[q].key)
        /\ \A r \in Runs : Answering(r)
        /\ run' = run \/ \E r \in Runs : Fill(r, a, req[q].by, 0, NoMessage)
    BY <1>2, <2>1, ExecuteFacts
  <2>3. RunFacts
    BY <2>2, PlainRun
  <2>4. req' \in [Requests -> ReqType] /\ ReqFacts
    <3>1. CASE req[q].at = Len(req[q].to)
      <4> DEFINE new == [req[q] EXCEPT !.pc = "done", !.at = 1, !.snap = {}]
      <4>1. new \in ReqType /\ new.pc = "done" /\ new.to = req[q].to /\ new.key = req[q].key
        <5> DEFINE one == 1
                   none == {}
        <5>1. req[q] \in ReqType /\ one \in Nat \ {0} /\ none \in SUBSET Identities
          BY <1>0
        <5> HIDE DEF one, none
        <5>2. LET n == [req[q] EXCEPT !.pc = "done", !.at = one, !.snap = none]
              IN  n \in ReqType /\ n.pc = "done" /\ n.to = req[q].to /\ n.key = req[q].key
          BY <5>1 DEF ReqType
        <5> QED BY <5>2 DEF one, none
      <4>2. req' = [req EXCEPT ![q] = new]
        BY <1>0, <1>2, <3>1
      <4> HIDE DEF new
      <4>3. req' \in [Requests -> ReqType] /\ req'[q] = new
        BY <4>1, <4>2, Ask1
      <4>4. Asked(q)
        BY <1>0, <2>2, <3>1, <4>1, <4>3 DEF Asked
      <4> QED BY <4>1, <4>2, <4>4, Ask1
    <3>2. CASE req[q].at # Len(req[q].to)
      <4> DEFINE new == [req[q] EXCEPT !.at = @ + 1]
      <4>1. new \in ReqType /\ new.pc = "calling" /\ new.to = req[q].to /\ new.at = req[q].at + 1
            /\ new.key = req[q].key
        <5>1. req[q] \in ReqType
          BY <1>0
        <5>2. req[q].at + 1 \in Nat \ {0} /\ req[q].pc = "calling"
          BY <1>0, <5>1 DEF ReqType
        <5> HIDE DEF a
        <5> QED BY <5>1, <5>2 DEF ReqType
      <4>2. req' = [req EXCEPT ![q] = new]
        BY <1>0, <1>2, <3>2
      <4> HIDE DEF new
      <4>3. req' \in [Requests -> ReqType] /\ req'[q] = new
        BY <4>1, <4>2, Ask1
      <4>4. Asking(q)
        BY <1>0, <2>2, <3>2, <4>1, <4>3 DEF Asking
      <4> QED BY <4>1, <4>2, <4>4, Ask1
    <3> QED BY <3>1, <3>2
  <2> QED BY <1>0, <2>2, <2>3, <2>4, Types, SameMsgs DEF RInv, Facts
<1> QED BY <1>1, <1>2 DEF InvokeNext

\* A handler asks for its trigger.
LEMMA QueryFacts ==
  ASSUME RInv, NEW r \in Runs, QueryEvent(r)
  PROVE  Facts
<1> DEFINE m == Max(ForMe(r) \cup {NoMessage})
           new == [run[r] EXCEPT !.answer = m, !.page = Log]
<1>1. m \in Messages \cup {NoMessage}
  BY Newest
<1> HIDE DEF m
<1>2. run \in [Runs -> RunType] /\ run[r] \in RunType /\ run[r].pc = "driving" /\ Log \in SUBSET Messages
  BY Types DEF QueryEvent, Active, RInv, Log
<1> HIDE DEF Log
<1>3. /\ new \in RunType /\ new.pc = run[r].pc /\ new.assistant = run[r].assistant
      /\ new.by = run[r].by /\ new.depth = run[r].depth /\ new.cause = run[r].cause
      /\ new.ended = run[r].ended /\ new.asked = run[r].asked /\ new.answer = m /\ new.page = Log
      /\ new.key = run[r].key
  BY <1>1, <1>2 DEF RunType
<1>4. run' = [run EXCEPT ![r] = new]
  BY <1>2 DEF QueryEvent, m
<1> HIDE DEF new
<1>5. run' \in [Runs -> RunType] /\ run'[r] = new /\ \A o \in Runs \ {r} : run'[o] = run[o]
  BY <1>2, <1>3, <1>4
<1>6. Old(r)
  BY <1>2, <1>3, <1>5 DEF Old, Active
<1>7. Answering(r)
  BY <1>3, <1>5 DEF Answering, m
<1>8. RunFacts /\ \A o \in Runs : Answering(o)
  BY <1>5, <1>6, <1>7, SameRun DEF RunFacts
<1> QED BY <1>5, <1>8, Types, SameMsgs, SameReqs DEF QueryEvent, RInv, Facts

\* A handler returns.
LEMMA ReturnFacts ==
  ASSUME RInv, NEW r \in Runs, Return(r)
  PROVE  Facts
<1>1. run' \in [Runs -> RunType] /\ RunFacts /\ \A o \in Runs : Answering(o)
  BY EndFacts DEF Return, Active
<1> QED BY <1>1, Types, SameMsgs, SameReqs DEF Return, RInv, Facts

\* A handler calls an assistant itself.
LEMMA ChainInvokeFacts ==
  ASSUME RInv, NEW r \in Runs, NEW a \in Identities, ChainInvoke(r, a)
  PROVE  Facts
<1>1. run' \in [Runs -> RunType] /\ RunFacts /\ \A o \in Runs : Answering(o)
  <2>1. CASE a \in Assistants \cap members /\ Execute(a, run[r].assistant, 0, NoMessage, NoKey)
    <3>1. /\ run[r].assistant \in Identities \cup {NoOne} /\ 0 \in Nat
          /\ NoMessage \in Messages \cup {NoMessage} /\ NoKey \in Keys \cup {NoKey}
      BY DEF RInv, TypeOK, Identities
    <3>2. /\ run' \in [Runs -> RunType] /\ \A o \in Runs : Answering(o)
          /\ run' = run \/ \E o \in Runs : Fill(o, a, run[r].assistant, 0, NoMessage)
      BY <2>1, <3>1, ExecuteFacts
    <3> QED BY <3>2, PlainRun
  <2>2. CASE run' = End(r)
    BY <2>2, EndFacts DEF ChainInvoke, Active
  <2> QED BY <2>1, <2>2 DEF ChainInvoke
<1> QED BY <1>1, Types, SameMsgs, SameReqs DEF ChainInvoke, RInv, Facts

\* A message that is cut off.
LEMMA LeftTyped ==
  ASSUME RInv, NEW i \in Messages, NEW stored \in BOOLEAN, msg[i].pc \in {"built", "checked", "calling"}
  PROVE  LET n == Left(i, stored)
         IN  /\ n \in MsgType /\ n.author = msg[i].author /\ n.run = msg[i].run /\ n.to = msg[i].to
             /\ n.pc \in {"aborted", "lost"} /\ (msg[i].pc = "calling" => n.pc = "aborted")
<1>1. PICK left \in {"aborted", "lost"} :
        /\ msg[i].pc = "calling" => left = "aborted"
        /\ Left(i, stored) = [msg[i] EXCEPT !.pc = left, !.at = 1, !.snap = {}]
  <2>1. msg[i] \in MsgType
    BY Types DEF RInv
  <2> QED BY <2>1 DEF Left, MsgType
<1> DEFINE one == 1
           none == {}
<1>2. msg[i] \in MsgType /\ one \in Nat \ {0} /\ none \in SUBSET Identities
  BY Types DEF RInv
<1> HIDE DEF one, none
<1>3. LET n == [msg[i] EXCEPT !.pc = left, !.at = one, !.snap = none]
      IN  /\ n \in MsgType /\ n.author = msg[i].author /\ n.run = msg[i].run
          /\ n.to = msg[i].to /\ n.pc = left
  BY <1>2 DEF MsgType
<1> QED BY <1>1, <1>3 DEF one, none

\* A request fails in the middle of what it publishes.
LEMMA AbandonFacts ==
  ASSUME RInv, NEW i \in Messages, Abandon(i)
  PROVE  Facts
<1>1. PICK stored \in BOOLEAN : msg' = [msg EXCEPT ![i] = Left(i, stored)]
  BY DEF Abandon
<1> DEFINE new == Left(i, stored)
<1>2. /\ new \in MsgType /\ new.author = msg[i].author /\ new.run = msg[i].run /\ new.to = msg[i].to
      /\ new.pc \in {"aborted", "lost"} /\ (i \in Log => new.pc = "aborted") /\ Born(i)
  BY LeftTyped DEF Abandon, Log, Born
<1>3. msg' = [msg EXCEPT ![i] = new]
  BY <1>1
<1> HIDE DEF new
<1>4. msg' \in [Messages -> MsgType] /\ MsgFacts
  BY <1>2, <1>3, Move
<1> QED BY <1>4, Types, SameReqs, SameRuns DEF Abandon, RInv, Facts

\* A run is cut off in the middle of what it publishes.
LEMMA InterruptFacts ==
  ASSUME RInv, NEW r \in Runs, Interrupt(r)
  PROVE  Facts
<1>1. run' \in [Runs -> RunType] /\ RunFacts /\ \A o \in Runs : Answering(o)
  BY EndFacts DEF Interrupt, Active
<1>2. PICK stored \in BOOLEAN : msg' = CutOff(r, stored)
  BY DEF Interrupt
<1>3. msg \in [Messages -> MsgType] /\ DOMAIN msg' = Messages
  BY <1>2, Types DEF RInv, CutOff
<1>4. ASSUME NEW i \in Messages
      PROVE  /\ msg'[i] \in MsgType
             /\ \/ msg'[i] = msg[i]
                \/ /\ Born(i) /\ Kept(i) /\ msg'[i].pc \in {"aborted", "lost"}
  <2>1. CASE ~(msg[i].run = r /\ msg[i].pc \in {"built", "checked", "calling"})
    BY <1>2, <1>3, <2>1 DEF CutOff
  <2>2. CASE msg[i].run = r /\ msg[i].pc \in {"built", "checked", "calling"}
    <3>1. msg'[i] = Left(i, stored)
      BY <1>2, <2>2 DEF CutOff
    <3> QED BY <2>2, <3>1, LeftTyped DEF Kept, Born, Log
  <2> QED BY <2>1, <2>2
<1>5. msg' \in [Messages -> MsgType]
  BY <1>2, <1>4 DEF CutOff
<1>6. MsgFacts
  BY <1>4, SameMsg DEF MsgFacts
<1> QED BY <1>1, <1>5, <1>6, Types, SameReqs DEF Interrupt, RInv, Facts

\* The members change.
LEMMA ChangeFacts ==
  ASSUME RInv, NEW x \in Identities, ChangeMember(x)
  PROVE  Facts
<1>1. members' \subseteq Identities /\ changes' \in 0 .. MaxChanges
  BY RoutingAssumption, Types DEF ChangeMember, RInv
<1> QED BY <1>1, Types, SameMsgs, SameReqs, SameRuns DEF ChangeMember, RInv, Facts

-----------------------------------------------------------------------------
\* An empty thread has all of it.
LEMMA InitRInv == Init => RInv
<1> SUFFICES ASSUME Init PROVE RInv
  OBVIOUS
<1>1. \A i \in Messages : msg[i] = NewMessage
  BY DEF Init
<1>2. \A q \in Requests : req[q] = NewRequest
  BY DEF Init
<1>3. \A r \in Runs : run[r] = NewRun
  BY DEF Init
<1>4. Log = {}
  BY <1>1 DEF Log, NewMessage
<1>5. TypeOK
  <2>1. NewMessage \in MsgType /\ NewRequest \in ReqType /\ NewRun \in RunType
    BY DEF MsgType, ReqType, RunType, NewMessage, NewRequest, NewRun
  <2> QED BY <2>1, Types, RoutingAssumption DEF Init
<1>6. InvFresh /\ InvWriter /\ InvTurn
  BY <1>1, <1>3 DEF InvFresh, InvWriter, InvTurn, NewMessage
<1>a. InvNames
  <2>1. ToSet(<<>>) = {} /\ IsInjective(<<>>)
    BY DEF ToSet, IsInjective
  <2> QED BY <1>1, <2>1 DEF InvNames, NewMessage
<1>7. InvCause /\ InvServed /\ InvInvited
  BY <1>1, <1>2, <1>3 DEF InvCause, InvServed, InvInvited, NewMessage, NewRequest, NewRun, Called
<1>8. CalledOnce /\ TriggerIsFound /\ ChainBounded
  BY <1>3, <1>4, RoutingAssumption DEF CalledOnce, TriggerIsFound, ChainBounded, NewRun, Called
<1>9. AddresseeHasRun /\ InviteeHasRun
  BY <1>1, <1>2 DEF AddresseeHasRun, InviteeHasRun, NewMessage, NewRequest
<1> QED BY <1>5, <1>6, <1>7, <1>8, <1>9, <1>a DEF RInv

\* No step of the system does more.
LEMMA NextFacts == ASSUME RInv, [Next]_vars PROVE Facts
<1>1. ASSUME NEW i \in Messages, Publish(i) PROVE Facts
  BY <1>1, CheckFacts, AppendFacts, AutoInvokeFacts, AbandonFacts DEF Publish
<1>2. ASSUME NEW r \in Runs, Handle(r) PROVE Facts
  BY <1>2, QueryFacts, ReturnFacts, InterruptFacts, ChainInvokeFacts, SayFacts DEF Handle
<1>3. ASSUME NEW p \in People, Ask(p) PROVE Facts
  BY <1>3, SendFacts, InvokeFacts DEF Ask
<1>4. CASE UNCHANGED vars
  BY <1>4, Types, SameMsgs, SameReqs, SameRuns DEF vars, RInv, Facts
<1> QED BY <1>1, <1>2, <1>3, <1>4, InvokeNextFacts, ChangeFacts DEF Next

-----------------------------------------------------------------------------
(* The theorems.                                                           *)

\* The invariant holds in every reachable state, however publishers, requests,
\* handlers, interruptions and changes of the members interleave.
THEOREM RoutingInvariance == Spec => []RInv
<1>1. RInv /\ [Next]_vars => RInv'
  BY NextFacts, Preserved
<1> QED BY InitRInv, <1>1, PTL DEF Spec

\* Every variable keeps its type.
THEOREM RoutingTypes == Spec => []TypeOK
BY RoutingInvariance, PTL DEF RInv

\* A message names every recipient once and never its author, and calls none of
\* them twice (normalize_recipients, _auto_invoke_recipients).
THEOREM OneCallPerMessage == Spec => []CalledOnce
BY RoutingInvariance, PTL DEF RInv

\* An assistant that a message called finds that message or a later one when it
\* asks for its trigger, as long as the thread fits the page query_event reads.
THEOREM TriggerReadable == Spec => []TriggerIsFound
BY RoutingInvariance, PTL DEF RInv

\* When publish_event is through with a message, every assistant it names and
\* authorize did not refuse has a run that goes on after the message was stored.
THEOREM AddresseeServed == Spec => []AddresseeHasRun
BY RoutingInvariance, PTL DEF RInv

\* The same for every assistant of an explicit invocation that was answered,
\* unless the invocation has a key and a run carries that.
THEOREM InviteeServed == Spec => []InviteeHasRun
BY RoutingInvariance, PTL DEF RInv

\* Assistants that call each other by messages stop after ChainDepthCap links.
THEOREM ChainsEnd == Spec => []ChainBounded
BY RoutingInvariance, PTL DEF RInv

-----------------------------------------------------------------------------
(* Who publishes, and who has which assistant.                             *)

\* What a step does to the runs as far as their assistants go: nothing, one run
\* ends, or one is admitted for an assistant nobody has.
Same(r) == run'[r].pc = run[r].pc /\ run'[r].assistant = run[r].assistant
Ending(r) == /\ Active(r) /\ run'[r].pc = "over" /\ run'[r].assistant = run[r].assistant
             /\ \A s \in Runs \ {r} : Same(s)
Admitting(r, a) == /\ run[r].pc = "unborn" /\ run'[r].pc = "driving" /\ run'[r].assistant = a
                   /\ Answers(a) = {}
                   /\ \A s \in Runs \ {r} : Same(s)
RunStep == \/ \A r \in Runs : Same(r)
           \/ \E r \in Runs : Ending(r)
           \/ \E r \in Runs, a \in Assistants : Admitting(r, a)

LEMMA EndStep == ASSUME RInv, NEW r \in Runs, Active(r), run' = End(r) PROVE Ending(r)
<1>1. run \in [Runs -> RunType]
  BY Types DEF RInv
<1> QED BY <1>1 DEF End, Ending, Same, Active, RunType

LEMMA AdmitStep ==
  ASSUME RInv, NEW a \in Assistants, NEW by \in Identities \cup {NoOne}, NEW depth \in Nat,
         NEW cause \in Messages \cup {NoMessage}, NEW k \in Keys \cup {NoKey},
         Execute(a, by, depth, cause, k)
  PROVE  (\A r \in Runs : Same(r)) \/ \E r \in Runs : Admitting(r, a)
<1>1. CASE run' = run
  BY <1>1 DEF Same
<1>2. CASE run' # run
  <2>1. PICK r \in Runs : Fill(r, a, by, depth, cause)
    BY <1>2, ExecuteFacts
  <2>2. Answers(a) = {}
    BY <1>2 DEF Execute
  <2>3. Admitting(r, a)
    BY <2>1, <2>2 DEF Fill, Admitting, Same
  <2> QED BY <2>3
<1> QED BY <1>1, <1>2

\* Whoever is active and does not end stays active.
LEMMA ActiveStays ==
  ASSUME RunStep, NEW r \in Runs, Active(r), ~Ending(r) PROVE Active(r)'
BY DEF RunStep, Same, Ending, Admitting, Active

\* A run is publishing message i.
Underway(i) == msg[i].run # NoRun /\ msg[i].pc \in {"built", "checked", "calling"}

LEMMA PublishersByName ==
  /\ PublishersDrive <=> \A i \in Messages : Underway(i) =>
       /\ Active(msg[i].run)
       /\ \A j \in Messages : Underway(j) /\ msg[j].run = msg[i].run => j = i
  /\ PublishersDrive' <=> \A i \in Messages : Underway(i)' =>
       /\ Active(msg[i].run)'
       /\ \A j \in Messages : Underway(j)' /\ msg'[j].run = msg'[i].run => j = i
BY DEF PublishersDrive, Underway

\* No message is newly under way: its run must not be the one that ends.
LEMMA Narrow ==
  ASSUME RInv, PublishersDrive, RunStep,
         \A i \in Messages : Underway(i)' => Underway(i) /\ msg'[i].run = msg[i].run,
         \A i \in Messages : Underway(i)' => ~Ending(msg[i].run)
  PROVE  PublishersDrive'
<1>1. \A i \in Messages : Underway(i) => msg[i].run \in Runs
  BY DEF RInv, TypeOK, Underway
<1>2. ASSUME NEW i \in Messages, Underway(i)' PROVE Active(msg[i].run)'
  <2>1. PICK r \in Runs : r = msg[i].run
    BY <1>1, <1>2
  <2>2. Active(r) /\ ~Ending(r)
    BY <1>2, <2>1, PublishersByName
  <2>3. run'[r].pc = "driving" /\ msg'[i].run = r
    BY <1>2, <2>1, <2>2, ActiveStays DEF Active
  <2> QED BY <2>3 DEF Active
<1> QED BY <1>2, PublishersByName

\* A run that is not publishing starts to.
LEMMA BeginPublishing ==
  ASSUME RInv, PublishersDrive, UNCHANGED run, NEW i \in Messages, NEW r \in Runs \cup {NoRun},
         msg[i].pc = "unborn", msg'[i].run = r, \A j \in Messages \ {i} : msg'[j] = msg[j],
         r # NoRun => Active(r) /\ ~Publishing(r)
  PROVE  PublishersDrive'
<1>1. \A j \in Messages : Underway(j)' => (j = i /\ r # NoRun) \/ (j # i /\ Underway(j))
  BY DEF Underway
<1>2. \A j \in Messages : Underway(j) => msg[j].run # r \/ r = NoRun
  BY DEF Underway, Publishing
<1>3. ASSUME NEW j \in Messages, Underway(j)' PROVE Active(msg[j].run)'
  <2>1. PICK s : s = msg'[j].run
    OBVIOUS
  <2>2. Active(s)
    BY <1>1, <1>3, <2>1, PublishersByName
  <2>3. run'[s].pc = "driving"
    BY <2>2 DEF Active
  <2> QED BY <2>1, <2>3 DEF Active
<1> QED BY <1>1, <1>2, <1>3, PublishersByName

\* publish_event of one message.
LEMMA PublishBusy ==
  ASSUME RInv, PublishersDrive, NEW i \in Messages, Publish(i)
  PROVE  RunStep /\ PublishersDrive'
<1>0. msg \in [Messages -> MsgType] /\ RInv
  BY Types DEF RInv
<1>1. msg[i].pc \in {"built", "checked", "calling"} /\ Born(i)
  BY DEF Publish, CheckRecipients, AppendMessage, AutoInvoke, Abandon, Born
<1>2. \A j \in Messages \ {i} : msg'[j] = msg[j]
  BY <1>0 DEF Publish, CheckRecipients, AppendMessage, AutoInvoke, Advance, Abandon
<1>3. msg'[i].run = msg[i].run
  <2>1. CASE Abandon(i)
    BY <1>0, <1>1, <2>1, LeftTyped DEF Abandon
  <2> QED BY <1>0, <2>1 DEF Publish, CheckRecipients, AppendMessage, AutoInvoke, Advance, MsgType
<1>4. \A j \in Messages : Underway(j)' => Underway(j) /\ msg'[j].run = msg[j].run
  BY <1>1, <1>2, <1>3 DEF Underway
<1>5. CASE UNCHANGED run
  <2>1. \A r \in Runs : Same(r)
    BY <1>5 DEF Same
  <2>2. \A r : ~Ending(r)
    BY <1>5 DEF Ending, Active
  <2> QED BY <1>0, <1>4, <2>1, <2>2, Narrow DEF RunStep
<1>6. CASE CheckRecipients(i) /\ msg'[i].pc = "lost" /\ msg[i].run # NoRun /\ run' = End(msg[i].run)
  <2>1. PICK r \in Runs : r = msg[i].run
    BY <1>0, <1>6 DEF MsgType
  <2>2. Active(r)
    BY <1>1, <1>6, <2>1, PublishersByName DEF Underway
  <2>3. Ending(r)
    BY <1>0, <1>6, <2>1, <2>2, EndStep
  <2>4. \A j \in Messages : Underway(j)' => msg[j].run # r
    BY <1>1, <1>4, <1>6, <2>1, PublishersByName DEF Underway
  <2>5. \A j \in Messages : Underway(j) => msg[j].run \in Runs
    BY <1>0 DEF Underway, MsgType
  <2>6. \A s \in Runs : s # r => ~Ending(s)
    BY <2>3 DEF Ending, Same, Active
  <2> QED BY <1>0, <1>4, <2>3, <2>4, <2>5, <2>6, Narrow DEF RunStep
<1>7. CASE AutoInvoke(i) /\ ~UNCHANGED run
  <2>1. PICK a \in Assistants : Execute(a, msg[i].author, ParentDepth(i) + 1, i, NoKey)
    BY <1>7 DEF AutoInvoke
  <2>2. ParentDepth(i) + 1 \in Nat /\ msg[i].author \in Identities \cup {NoOne}
    BY <1>0 DEF ParentDepth, RInv, TypeOK
  <2>3. (\A r \in Runs : Same(r)) \/ \E r \in Runs : Admitting(r, a)
    BY <2>1, <2>2, AdmitStep
  <2>4. \A r \in Runs : ~Ending(r)
    BY <2>3 DEF Ending, Same, Admitting, Active
  <2>5. \A j \in Messages : Underway(j) => msg[j].run \in Runs
    BY <1>0 DEF Underway, MsgType
  <2> QED BY <1>0, <1>4, <2>3, <2>4, <2>5, Narrow DEF RunStep
<1>8. CASE CheckRecipients(i) /\ ~UNCHANGED run
  <2>1. msg'[i].pc = "lost" /\ msg[i].run # NoRun /\ run' = End(msg[i].run)
    BY <1>0, <1>8 DEF CheckRecipients, MsgType
  <2> QED BY <1>6, <1>8, <2>1
<1> QED BY <1>5, <1>7, <1>8 DEF Publish, AppendMessage, Abandon

\* The loop of an explicit invocation.
LEMMA InvokeBusy ==
  ASSUME RInv, PublishersDrive, UNCHANGED msg, NEW a \in Assistants, NEW by \in Identities \cup {NoOne},
         NEW k \in Keys \cup {NoKey}, Execute(a, by, 0, NoMessage, k)
  PROVE  RunStep /\ PublishersDrive'
<1>1. (\A r \in Runs : Same(r)) \/ \E r \in Runs : Admitting(r, a)
  BY AdmitStep
<1>2. \A r \in Runs : ~Ending(r)
  BY <1>1 DEF Ending, Same, Admitting, Active
<1>3. \A j \in Messages : Underway(j) => msg[j].run \in Runs
  BY DEF RInv, TypeOK, Underway
<1>4. \A j \in Messages : Underway(j)' => Underway(j) /\ msg'[j].run = msg[j].run
  BY DEF Underway
<1> QED BY <1>1, <1>2, <1>3, <1>4, Narrow DEF RunStep

\* Whatever does not touch runs or messages.
LEMMA IdleBusy ==
  ASSUME RInv, PublishersDrive, UNCHANGED msg, \A r \in Runs : Same(r)
  PROVE  RunStep /\ PublishersDrive'
<1>1. \A r \in Runs : ~Ending(r)
  BY DEF Ending, Same, Active
<1>2. \A j \in Messages : Underway(j) => msg[j].run \in Runs
  BY DEF RInv, TypeOK, Underway
<1>3. \A j \in Messages : Underway(j)' => Underway(j) /\ msg'[j].run = msg[j].run
  BY DEF Underway
<1> QED BY <1>1, <1>2, <1>3, Narrow DEF RunStep

\* A run that is not publishing ends.
LEMMA EndBusy ==
  ASSUME RInv, PublishersDrive, NEW r \in Runs, Active(r), run' = End(r),
         \A j \in Messages : Underway(j)' => Underway(j) /\ msg'[j].run = msg[j].run /\ msg[j].run # r
  PROVE  RunStep /\ PublishersDrive'
<1>1. Ending(r)
  BY EndStep
<1>2. \A s \in Runs : s # r => ~Ending(s)
  BY <1>1 DEF Ending, Same, Active
<1>3. \A j \in Messages : Underway(j) => msg[j].run \in Runs
  BY DEF RInv, TypeOK, Underway
<1> QED BY <1>1, <1>2, <1>3, Narrow DEF RunStep

\* Every step of a handler.
LEMMA HandleBusy ==
  ASSUME RInv, PublishersDrive, NEW r \in Runs, Handle(r)
  PROVE  RunStep /\ PublishersDrive'
<1>0. RInv /\ msg \in [Messages -> MsgType] /\ run \in [Runs -> RunType]
  BY Types DEF RInv
<1>1. CASE QueryEvent(r)
  <2>1. \A s \in Runs : Same(s)
    BY <1>0, <1>1 DEF QueryEvent, Same, RunType
  <2> QED BY <1>1, <2>1, IdleBusy DEF QueryEvent
<1>2. ASSUME UNCHANGED msg, Active(r), ~Publishing(r), run' = End(r) PROVE RunStep /\ PublishersDrive'
  <2>1. \A j \in Messages : Underway(j)' => Underway(j) /\ msg'[j].run = msg[j].run /\ msg[j].run # r
    BY <1>2 DEF Underway, Publishing
  <2> QED BY <1>2, <2>1, EndBusy
<1>3. CASE Return(r)
  BY <1>2, <1>3 DEF Return
<1>4. CASE Interrupt(r)
  <2>1. PICK stored \in BOOLEAN : msg' = CutOff(r, stored)
    BY <1>4 DEF Interrupt
  <2>2. \A j \in Messages :
          IF msg[j].run = r /\ msg[j].pc \in {"built", "checked", "calling"}
          THEN msg'[j].pc \in {"aborted", "lost"} ELSE msg'[j] = msg[j]
    BY <1>0, <2>1 DEF CutOff, Left, MsgType
  <2>3. \A j \in Messages : Underway(j)' => Underway(j) /\ msg'[j].run = msg[j].run /\ msg[j].run # r
    BY <2>2 DEF Underway
  <2> QED BY <1>4, <2>3, EndBusy DEF Interrupt
<1>5. ASSUME NEW a \in Identities, ChainInvoke(r, a) PROVE RunStep /\ PublishersDrive'
  <2>1. CASE run' = End(r)
    BY <1>2, <1>5, <2>1 DEF ChainInvoke
  <2>2. CASE a \in Assistants /\ Execute(a, run[r].assistant, 0, NoMessage, NoKey)
    <3>1. run[r].assistant \in Identities \cup {NoOne}
      BY <1>0 DEF RunType, Identities
    <3> QED BY <1>5, <2>2, <3>1, InvokeBusy DEF ChainInvoke
  <2> QED BY <1>5, <2>1, <2>2 DEF ChainInvoke
<1>6. ASSUME NEW draft \in Drafts, Say(r, draft) PROVE RunStep /\ PublishersDrive'
  <2>1. PICK i \in NextMessage : Write(i, run[r].assistant, r, draft)
    BY <1>6 DEF Say
  <2>2. i \in Messages /\ msg[i].pc = "unborn"
    BY <2>1 DEF NextMessage
  <2>3. msg'[i].run = r /\ \A j \in Messages \ {i} : msg'[j] = msg[j]
    BY <1>0, <2>1, <2>2 DEF Write, NewMessage
  <2>4. \A s \in Runs : Same(s)
    BY <1>6 DEF Say, Same
  <2> QED BY <1>6, <2>2, <2>3, <2>4, BeginPublishing DEF Say, RunStep
<1> QED BY <1>1, <1>3, <1>4, <1>5, <1>6 DEF Handle

\* Every step whatever.
LEMMA NextBusy == ASSUME RInv, PublishersDrive, [Next]_vars PROVE RunStep /\ PublishersDrive'
<1>0. RInv /\ msg \in [Messages -> MsgType]
  BY Types DEF RInv
<1>1. ASSUME NEW q \in Requests, InvokeNext(q) PROVE RunStep /\ PublishersDrive'
  <2>1. CASE UNCHANGED run
    BY <1>1, <2>1, IdleBusy DEF InvokeNext, Same
  <2>2. CASE ~UNCHANGED run
    <3>1. PICK a \in Assistants : Execute(a, req[q].by, 0, NoMessage, req[q].key)
      BY <1>1, <2>2 DEF InvokeNext
    <3>2. req[q].by \in Identities \cup {NoOne} /\ req[q].key \in Keys \cup {NoKey}
      BY DEF RInv, TypeOK, Identities
    <3> QED BY <1>1, <3>1, <3>2, InvokeBusy DEF InvokeNext
  <2> QED BY <2>1, <2>2
<1>2. ASSUME NEW p \in People, NEW draft \in Drafts, Send(p, draft) PROVE RunStep /\ PublishersDrive'
  <2>1. PICK i \in NextMessage : Write(i, p, NoRun, draft)
    BY <1>2 DEF Send
  <2>2. i \in Messages /\ msg[i].pc = "unborn"
    BY <2>1 DEF NextMessage
  <2>3. msg'[i].run = NoRun /\ \A j \in Messages \ {i} : msg'[j] = msg[j]
    BY <1>0, <2>1, <2>2 DEF Write, NewMessage
  <2>4. \A s \in Runs : Same(s)
    BY <1>2 DEF Send, Same
  <2> QED BY <1>2, <2>2, <2>3, <2>4, BeginPublishing DEF Send, RunStep
<1>3. ASSUME NEW p \in People, NEW to \in Invitations, Invoke(p, to) PROVE RunStep /\ PublishersDrive'
  BY <1>3, IdleBusy DEF Invoke, Same
<1>4. ASSUME NEW x \in Identities, ChangeMember(x) PROVE RunStep /\ PublishersDrive'
  BY <1>4, IdleBusy DEF ChangeMember, Same
<1>5. CASE UNCHANGED vars
  BY <1>5, IdleBusy DEF vars, Same
<1> QED BY <1>1, <1>2, <1>3, <1>4, <1>5, PublishBusy, HandleBusy DEF Next, Ask

\* A run publishes one message at a time, and none once it is over.
THEOREM PublishersDriven == Spec => []PublishersDrive
<1>1. Init => PublishersDrive
  BY DEF Init, NewMessage, PublishersDrive
<1>2. RInv /\ PublishersDrive /\ [Next]_vars => PublishersDrive'
  BY NextBusy
<1> QED BY <1>1, <1>2, RoutingInvariance, PTL DEF Spec

\* Such a step of the runs is one of AssistantSlot.
LEMMA StepOfSlot == ASSUME RunStep PROVE [Slot!SlotNext]_(Slot!slotVars)
<1>1. CASE \A r \in Runs : Same(r)
  BY <1>1 DEF Same, phase, Slot!slotVars
<1>2. ASSUME NEW r \in Runs, Ending(r) PROVE Slot!Leave(r)
  BY <1>2 DEF Ending, Same, Active, phase, Slot!Leave
<1>3. ASSUME NEW r \in Runs, NEW a \in Assistants, Admitting(r, a) PROVE Slot!Admit(r, a)
  BY <1>3 DEF Admitting, Same, Answers, Active, phase, Slot!Admit, Slot!Occupies
<1> QED BY <1>1, <1>2, <1>3 DEF RunStep, Slot!SlotNext

\* Routing asks for runs and gives them back as AssistantSlot allows: what it
\* is proved to do, it does on top of an executor that implements that module.
THEOREM RoutesThroughSlot == Spec => SlotSpec
<1>1. Init => Slot!SlotInit
  BY DEF Init, NewRun, phase, Slot!SlotInit
<1>2. RInv /\ PublishersDrive /\ [Next]_vars => [Slot!SlotNext]_(Slot!slotVars)
  BY NextBusy, StepOfSlot
<1> QED BY <1>1, <1>2, RoutingInvariance, PublishersDriven, PTL DEF Spec, SlotSpec, Slot!SlotSpec
=============================================================================
